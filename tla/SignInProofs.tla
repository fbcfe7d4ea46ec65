---------------------------- MODULE SignInProofs ----------------------------
(***************************************************************************)
(* Theorems about SignIn, for any number of characters, handshakes,        *)
(* requests, pods, sessions and faults.                                    *)
(*                                                                         *)
(* The argument: IInv is inductive.  Its part about jobs says, of every    *)
(* process, that what it has read under its locks is still true (Fits),    *)
(* and of every two, that they hold nothing in common (Apart).  An action  *)
(* of p therefore needs three facts: the database rows stay well formed    *)
(* (RowInv), the other jobs still fit, and p's new job fits and is apart.  *)
(***************************************************************************)
EXTENDS SignIn, TLAPS

(* The pcs at which a job holds nothing and has seen nothing.               *)
FreePCs == {"idle", "exCCP", "loCCP"} \cup SweepPCs

(* After the step the jobs of the processes in P still fit.                 *)
Keep(P) ==
    /\ \A q \in P : Fits(req[q])'
    /\ \A q, k \in P : q # k => Apart(req[q], req[k])'

(* After the step the job of p fits and is apart from the others.           *)
OwnKeeps(p) ==
    /\ Fits(req[p])'
    /\ \A q \in Procs \ {p} : Apart(req[p], req[q])'

-----------------------------------------------------------------------------

(* The jobs of p and of the others together.                                *)
LEMMA Assemble ==
    ASSUME NEW p \in Procs, Keep(Procs \ {p}), OwnKeeps(p)
    PROVE  JobInv'
<1>1. \A q \in Procs : Fits(req[q])'
    BY DEF Keep, OwnKeeps
<1>2. ASSUME NEW q \in Procs, NEW k \in Procs, q # k
      PROVE  Apart(req[q], req[k])'
    <2>1. CASE q = p
        BY <1>2, <2>1 DEF OwnKeeps
    <2>2. CASE k = p
        BY <1>2, <2>2 DEF OwnKeeps, Apart
    <2>3. CASE q # p /\ k # p
        BY <1>2, <2>3 DEF Keep
    <2> QED BY <2>1, <2>2, <2>3
<1> QED BY <1>1, <1>2 DEF JobInv

(* A job that holds nothing fits and is apart from every other.             *)
LEMMA FreeJob ==
    ASSUME NEW p \in Procs, req'[p].pc \in FreePCs
    PROVE  OwnKeeps(p)
    BY DEF OwnKeeps, Fits, Apart, FreePCs, SweepPCs, CallbackPCs, ExchangePCs,
           OwnPCs, CharLockPCs, HoldsRow

(* A step that leaves the rows alone leaves the jobs it does not touch.      *)
LEMMA RowsUnchanged ==
    ASSUME IInv, NEW P \in SUBSET Procs, \A q \in P : req'[q] = req[q],
           UNCHANGED <<login, code, grant, sess, nextSid>>
    PROVE  RowInv' /\ Keep(P)
<1>1. RowInv'
    BY DEF IInv, RowInv, Existed, RevokedHoldsNoToken, Open
<1>2. ASSUME NEW q \in P
      PROVE  Fits(req[q])'
    <2>1. Fits(req[q]) /\ req'[q] = req[q]
        BY DEF IInv, JobInv
    <2> QED BY <2>1 DEF Fits, OpenOf, Open, CharOf, SidChar, Existed, HoldsRow
<1>3. ASSUME NEW q \in P, NEW k \in P, q # k
      PROVE  Apart(req[q], req[k])'
    <2>1. Apart(req[q], req[k]) /\ req'[q] = req[q] /\ req'[k] = req[k]
        BY <1>3 DEF IInv, JobInv
    <2> QED BY <2>1 DEF Apart, CharOf, SidChar, HoldsRow
<1> QED BY <1>1, <1>2, <1>3 DEF Keep

(* So does one that changes handshakes and codes no such job refers to.     *)
LEMMA HandshakesMove ==
    ASSUME IInv, NEW P \in SUBSET Procs, \A q \in P : req'[q] = req[q],
           UNCHANGED <<sess, nextSid>>,
           \A l \in Logins :
              /\ login[l] = "gone" => login'[l] = "gone"
              /\ code[l] # "none" =>
                    code'[l] # "none" /\ grant'[l].char = grant[l].char
              /\ code[l] = "gone" => code'[l] = "gone"
              /\ code'[l] # "none" =>
                    login'[l] = "gone" /\ grant'[l].char \in Characters,
           \A q \in P :
              /\ req[q].pc \in CallbackPCs =>
                    /\ code'[req[q].login] = "none"
                    /\ grant'[req[q].login].char = grant[req[q].login].char
              /\ req[q].pc \in {"exSnap", "exDoom", "exCreate", "exCommit"} =>
                    code'[req[q].login] \in {"parked", "expired"}
    PROVE  RowInv' /\ Keep(P)
<1>1. RowInv'
    BY DEF IInv, RowInv, Existed, RevokedHoldsNoToken, Open
<1>2. \A s \in Sids : Existed(s) => SidChar(s)' = SidChar(s)
    BY DEF IInv, RowInv, SidChar
<1>3. \A s \in Sids : Existed(s)' = Existed(s) /\ Open(s)' = Open(s)
                      /\ (Open(s) => Existed(s))
    BY DEF Existed, Open
<1>4. ASSUME NEW q \in P
      PROVE  /\ Fits(req[q]) /\ req'[q] = req[q]
             /\ req[q].pc \in ExchangePCs \cup OwnPCs =>
                   CharOf(req[q])' = CharOf(req[q])
    <2>1. Fits(req[q]) /\ req'[q] = req[q]
        BY DEF IInv, JobInv
    <2>2. CASE req[q].pc \in ExchangePCs
        BY <2>1, <2>2, ConstantsAssumption DEF Fits, CharOf
    <2>3. CASE req[q].pc \in OwnPCs
        BY <1>2, <2>1, <2>3 DEF Fits, CharOf
    <2> QED BY <2>1, <2>2, <2>3
<1>5. ASSUME NEW q \in P, req[q].pc \in ExchangePCs
      PROVE  OpenOf(CharOf(req[q]))' = OpenOf(CharOf(req[q]))
    BY <1>2, <1>3, <1>4, <1>5 DEF OpenOf
<1>6. ASSUME NEW q \in P
      PROVE  Fits(req[q])'
    <2>1. CASE req[q].pc \in CallbackPCs
        BY <1>4, <2>1 DEF Fits, CallbackPCs, ExchangePCs, OwnPCs, HoldsRow
    <2>2. CASE req[q].pc \in ExchangePCs
        <3>1. /\ OpenOf(CharOf(req[q]))' = OpenOf(CharOf(req[q]))
              /\ CharOf(req[q])' = CharOf(req[q])
              /\ req[q].seen \subseteq Sids
            BY <1>4, <1>5, <2>2 DEF IInv, TypeOK, Job
        <3> QED BY <1>2, <1>3, <1>4, <2>2, <3>1
                DEF Fits, CallbackPCs, ExchangePCs, OwnPCs, HoldsRow
    <2>3. CASE req[q].pc \in OwnPCs
        BY <1>3, <1>4, <2>3
           DEF Fits, CallbackPCs, ExchangePCs, OwnPCs, HoldsRow
    <2>4. CASE req[q].pc \notin CallbackPCs \cup ExchangePCs \cup OwnPCs
        BY <1>4, <2>4 DEF Fits, CallbackPCs, ExchangePCs, OwnPCs, HoldsRow
    <2> QED BY <2>1, <2>2, <2>3, <2>4
<1>7. ASSUME NEW q \in P, NEW k \in P, q # k
      PROVE  Apart(req[q], req[k])'
    <2>1. Apart(req[q], req[k]) /\ req'[q] = req[q] /\ req'[k] = req[k]
        BY <1>7 DEF IInv, JobInv
    <2>2. CharLockPCs \subseteq ExchangePCs \cup OwnPCs
        BY DEF CharLockPCs, ExchangePCs, OwnPCs
    <2> QED BY <1>4, <2>1, <2>2 DEF Apart, HoldsRow
<1> QED BY <1>1, <1>6, <1>7 DEF Keep

(* So does one that changes neither owner nor openness of a session.        *)
LEMMA SessionsTouched ==
    ASSUME IInv, NEW P \in SUBSET Procs, \A q \in P : req'[q] = req[q],
           UNCHANGED <<login, code, grant, nextSid>>,
           \A s \in Sids : /\ sess'[s].login = sess[s].login
                           /\ Open(s)' = Open(s) /\ Existed(s)' = Existed(s)
                           /\ (sess'[s].ver = 0) = (sess[s].ver = 0)
    PROVE  RowInv' /\ Keep(P)
<1>1. RowInv'
    BY DEF IInv, RowInv, RevokedHoldsNoToken
<1>2. \A s \in Sids : SidChar(s)' = SidChar(s)
    BY DEF SidChar
<1>3. ASSUME NEW q \in P
      PROVE  /\ Fits(req[q]) /\ req'[q] = req[q]
             /\ req[q].seen \subseteq Sids
             /\ req[q].pc \in ExchangePCs \cup OwnPCs =>
                   CharOf(req[q])' = CharOf(req[q])
    <2>1. Fits(req[q]) /\ req'[q] = req[q] /\ req[q].seen \subseteq Sids
        BY DEF IInv, JobInv, TypeOK, Job
    <2> QED BY <1>2, <2>1, ConstantsAssumption DEF Fits, CharOf
<1>4. ASSUME NEW q \in P, req[q].pc \in ExchangePCs
      PROVE  OpenOf(CharOf(req[q]))' = OpenOf(CharOf(req[q]))
    BY <1>2, <1>3, <1>4 DEF OpenOf
<1>5. ASSUME NEW q \in P
      PROVE  Fits(req[q])'
    BY <1>2, <1>3, <1>4 DEF Fits, CallbackPCs, ExchangePCs, OwnPCs, HoldsRow
<1>6. ASSUME NEW q \in P, NEW k \in P, q # k
      PROVE  Apart(req[q], req[k])'
    <2>1. Apart(req[q], req[k]) /\ req'[q] = req[q] /\ req'[k] = req[k]
        BY <1>6 DEF IInv, JobInv
    <2>2. CharLockPCs \subseteq ExchangePCs \cup OwnPCs
        BY DEF CharLockPCs, ExchangePCs, OwnPCs
    <2> QED BY <1>3, <2>1, <2>2 DEF Apart, HoldsRow
<1> QED BY <1>1, <1>5, <1>6 DEF Keep

(* And one that revokes open sessions whose rows such jobs do not hold.     *)
LEMMA SessionsRevoked ==
    ASSUME IInv, NEW P \in SUBSET Procs, \A q \in P : req'[q] = req[q],
           UNCHANGED <<login, code, grant, nextSid>>,
           NEW S \in SUBSET Sids, sess' = RevokeRows(S),
           \A s \in S : Open(s) /\ \A q \in P : ~HoldsRow(req[q], s)
    PROVE  RowInv' /\ Keep(P)
<1>1. \A s \in Sids : /\ sess'[s].login = sess[s].login
                      /\ Open(s)' = (Open(s) /\ s \notin S)
                      /\ Existed(s)' = Existed(s)
                      /\ (sess'[s].ver = 0) = ~Open(s)'
    <2> SUFFICES ASSUME NEW s \in Sids
                 PROVE  /\ sess'[s].login = sess[s].login
                        /\ Open(s)' = (Open(s) /\ s \notin S)
                        /\ Existed(s)' = Existed(s)
                        /\ (sess'[s].ver = 0) = ~Open(s)'
        OBVIOUS
    <2>1. sess[s] \in Row /\ (sess[s].ver = 0) = ~Open(s)
        BY DEF IInv, TypeOK, RowInv, RevokedHoldsNoToken
    <2>2. CASE s \in S
        <3>1. sess'[s] = [sess[s] EXCEPT !.state = "revoked", !.ver = 0]
            BY <2>2 DEF RevokeRows, Revoked
        <3>2. sess'[s].state = "revoked" /\ sess'[s].ver = 0
              /\ sess'[s].login = sess[s].login
            BY <2>1, <3>1 DEF Row
        <3> QED BY <2>2, <3>2 DEF Open, Existed
    <2>3. CASE s \notin S
        <3>1. sess'[s] = sess[s]
            BY <2>3 DEF RevokeRows
        <3> QED BY <2>1, <2>3, <3>1 DEF Open, Existed
    <2> QED BY <2>2, <2>3
<1>2. RowInv'
    BY <1>1 DEF IInv, RowInv, RevokedHoldsNoToken
<1>3. \A s \in Sids : SidChar(s)' = SidChar(s)
    BY <1>1 DEF SidChar
<1>4. ASSUME NEW q \in P
      PROVE  /\ Fits(req[q]) /\ req'[q] = req[q]
             /\ req[q].seen \subseteq Sids
             /\ req[q].pc \in ExchangePCs \cup OwnPCs =>
                   CharOf(req[q])' = CharOf(req[q])
    <2>1. Fits(req[q]) /\ req'[q] = req[q] /\ req[q].seen \subseteq Sids
        BY DEF IInv, JobInv, TypeOK, Job
    <2> QED BY <1>3, <2>1, ConstantsAssumption DEF Fits, CharOf
<1>5. ASSUME NEW q \in P, req[q].pc \in ExchangePCs
      PROVE  /\ OpenOf(CharOf(req[q]))' \subseteq OpenOf(CharOf(req[q]))
             /\ req[q].pc \in {"exCreate", "exCommit"} =>
                   OpenOf(CharOf(req[q]))' = OpenOf(CharOf(req[q]))
    <2>1. OpenOf(CharOf(req[q]))' = OpenOf(CharOf(req[q])) \ S
        BY <1>1, <1>3, <1>4, <1>5 DEF OpenOf
    <2>2. ASSUME req[q].pc \in {"exCreate", "exCommit"}
          PROVE  S \cap OpenOf(CharOf(req[q])) = {}
        BY <1>4, <2>2 DEF Fits, HoldsRow
    <2> QED BY <2>1, <2>2
<1>6. ASSUME NEW q \in P
      PROVE  Fits(req[q])'
    <2>1. \A s \in Sids : HoldsRow(req[q], s)' => Open(s)'
        <3>1. \A s \in Sids : HoldsRow(req[q], s)' = HoldsRow(req[q], s)
            BY <1>4 DEF HoldsRow
        <3>2. \A s \in Sids : HoldsRow(req[q], s) => Open(s) /\ s \notin S
            BY <1>4 DEF Fits
        <3> QED BY <1>1, <3>1, <3>2
    <2>2. CASE req[q].pc \in ExchangePCs
        <3>1. req[q].pc = "exDoom" =>
                 /\ (OpenOf(CharOf(req[q])) \subseteq req[q].seen)'
                 /\ (\A s \in req[q].seen : Existed(s) /\ SidChar(s) = CharOf(req[q]))'
            BY <1>1, <1>3, <1>4, <1>5, <2>2 DEF Fits
        <3>2. req[q].pc = "exCommit" =>
                 /\ ~Existed(req[q].sid)'
                 /\ (\A u \in Sids : Existed(u) /\ SidChar(u) = CharOf(req[q])
                                     => u < req[q].sid)'
            BY <1>1, <1>3, <1>4, <2>2 DEF Fits
        <3>3. req[q].pc \in {"exCreate", "exCommit"} =>
                 (OpenOf(CharOf(req[q])) = req[q].doomed)'
            BY <1>4, <1>5, <2>2 DEF Fits
        <3> QED BY <1>4, <2>1, <2>2, <3>1, <3>2, <3>3
                DEF Fits, CallbackPCs, ExchangePCs, OwnPCs
    <2>3. CASE req[q].pc \notin ExchangePCs
        BY <1>1, <1>4, <2>1, <2>3 DEF Fits, CallbackPCs, ExchangePCs, OwnPCs
    <2> QED BY <2>2, <2>3
<1>7. ASSUME NEW q \in P, NEW k \in P, q # k
      PROVE  Apart(req[q], req[k])'
    <2>1. Apart(req[q], req[k]) /\ req'[q] = req[q] /\ req'[k] = req[k]
        BY <1>7 DEF IInv, JobInv
    <2>2. CharLockPCs \subseteq ExchangePCs \cup OwnPCs
        BY DEF CharLockPCs, ExchangePCs, OwnPCs
    <2> QED BY <1>4, <2>1, <2>2 DEF Apart, HoldsRow
<1> QED BY <1>2, <1>6, <1>7 DEF Keep

-----------------------------------------------------------------------------

(* The moves that take no lock: what the job has already holds on.          *)
LEMMA PlainMoves ==
    ASSUME IInv, NEW r \in Requests,
           \/ CheckOwner(r) \/ UpsertCharacter(r)
           \/ CallTool(r) \/ CallLogout(r) \/ LogoutDelete(r) \/ RefreshAtCCP(r)
    PROVE  RowInv' /\ JobInv'
<1>1. /\ r \in Procs
      /\ req[r] \in Job /\ r \in DOMAIN req
      /\ Fits(req[r])
      /\ \A q \in Procs \ {r} : Apart(req[r], req[q])
    BY DEF Procs, IInv, TypeOK, JobInv
<1>2. /\ UNCHANGED <<login, code, grant, sess, nextSid>>
      /\ \A q \in Procs \ {r} : req'[q] = req[q]
    BY <1>1 DEF CheckOwner, UpsertCharacter, CallTool, CallLogout, LogoutDelete,
                RefreshAtCCP, Goto, Finish, rows, IInv, TypeOK
<1>3. RowInv' /\ Keep(Procs \ {r})
    BY <1>1, <1>2, RowsUnchanged
<1>4. CASE req'[r].pc \in FreePCs
    BY <1>1, <1>3, <1>4, FreeJob, Assemble
<1>5. CASE req'[r].pc \notin FreePCs
    <2>1. /\ req'[r].login = req[r].login /\ req'[r].sid = req[r].sid
          /\ req'[r].doomed = req[r].doomed
          /\ \/ req[r].pc \in CallbackPCs \ {"cbExchange"}
                /\ req'[r].pc \in CallbackPCs \ {"cbExchange"}
             \/ req[r].pc \in {"tool", "rfCall"}
                /\ req'[r].pc \in {"drift", "rfLock", "loLock", "rfRevoke"}
             \/ req[r].pc = "loDelete" /\ req'[r].pc = "loCommit"
             \/ req[r].pc = "rfCall" /\ req'[r].pc = "rfWrite" /\ req'[r].ver # 0
        <3>1. CASE CheckOwner(r)
            BY <1>1, <3>1 DEF CheckOwner, Goto, IInv, TypeOK, CallbackPCs, Job
        <3>2. CASE UpsertCharacter(r)
            BY <1>1, <3>2 DEF UpsertCharacter, Goto, IInv, TypeOK, CallbackPCs, Job
        <3>3. CASE CallTool(r)
            BY <1>1, <1>5, <3>3 DEF CallTool, Goto, Finish, Idle, FreePCs, IInv, TypeOK, Job
        <3>4. CASE CallLogout(r)
            BY <1>1, <3>4 DEF CallLogout, Goto, IInv, TypeOK, Job
        <3>5. CASE LogoutDelete(r)
            BY <1>1, <1>5, <3>5 DEF LogoutDelete, Goto, Finish, Idle, FreePCs, IInv, TypeOK, Job
        <3>6. CASE RefreshAtCCP(r)
            <4>1. req[r].ver \in Nat
                BY <1>1, ConstantsAssumption DEF Job, Vers
            <4>2. /\ req[r].pc = "rfCall"
                  /\ \/ Finish(r) \/ Goto(r, "rfRevoke")
                     \/ req' = [req EXCEPT ![r].pc = "rfWrite", ![r].ver = @ + 1]
                BY <3>6 DEF RefreshAtCCP
            <4>3. CASE Finish(r)
                BY <1>1, <1>5, <4>3 DEF Finish, Idle, FreePCs
            <4>4. CASE Goto(r, "rfRevoke")
                BY <1>1, <4>2, <4>4 DEF Goto, Job
            <4>5. CASE req' = [req EXCEPT ![r].pc = "rfWrite", ![r].ver = @ + 1]
                <5>1. req'[r] = [req[r] EXCEPT !.pc = "rfWrite", !.ver = req[r].ver + 1]
                    BY <1>1, <4>5
                <5>2. req'[r].pc = "rfWrite" /\ req'[r].ver = req[r].ver + 1
                    BY <1>1, <5>1 DEF Job
                <5>3. /\ req'[r].login = req[r].login /\ req'[r].sid = req[r].sid
                      /\ req'[r].doomed = req[r].doomed
                    BY <1>1, <5>1 DEF Job
                <5> QED BY <4>1, <4>2, <5>2, <5>3
            <4> QED BY <4>2, <4>3, <4>4, <4>5
        <3> QED BY <3>1, <3>2, <3>3, <3>4, <3>5, <3>6
    <2>2. Fits(req[r])'
        BY <1>1, <1>2, <2>1
           DEF Fits, CallbackPCs, ExchangePCs, OwnPCs, Existed, HoldsRow, Open
    <2>3. ASSUME NEW q \in Procs \ {r}
          PROVE  Apart(req[r], req[q])'
        BY <1>1, <1>2, <2>1
           DEF Apart, CallbackPCs, CharLockPCs, HoldsRow, CharOf, SidChar
    <2> QED BY <1>1, <1>3, <2>2, <2>3, Assemble DEF OwnKeeps
<1> QED BY <1>4, <1>5

(* The moves that leave every row alone and take a lock, read rows or begin.*)
LEMMA LockMoves ==
    ASSUME IInv, NEW r \in Requests,
           \/ SnapPredecessors(r) \/ LockCharacter(r) \/ TakeCode(r)
           \/ DoomPredecessors(r) \/ LogoutRevoke(r) \/ LockForRefresh(r)
           \/ \E l \in Logins : StartExchange(r, l)
           \/ \E s \in Sids : BearerCall(r, s)
    PROVE  RowInv' /\ JobInv'
<1>1. /\ r \in Procs
      /\ req[r] \in Job /\ r \in DOMAIN req
      /\ Fits(req[r])
      /\ \A q \in Procs \ {r} : Apart(req[r], req[q])
    BY DEF Procs, IInv, TypeOK, JobInv
<1>2. /\ UNCHANGED <<login, code, grant, sess, nextSid>>
      /\ \A q \in Procs \ {r} : req'[q] = req[q]
    BY <1>1 DEF SnapPredecessors, LockCharacter, TakeCode, DoomPredecessors,
                LogoutRevoke, LockForRefresh, StartExchange, BearerCall, Goto,
                Finish, rows, IInv, TypeOK
<1>3. RowInv' /\ Keep(Procs \ {r})
    BY <1>1, <1>2, RowsUnchanged
<1>4. CASE req'[r].pc \in FreePCs
    BY <1>1, <1>3, <1>4, FreeJob, Assemble
<1>5. ASSUME req'[r].pc \notin FreePCs
      PROVE  OwnKeeps(r)
    <2>1. CASE SnapPredecessors(r)
        <3>1. /\ req'[r].login = req[r].login /\ req'[r].sid = req[r].sid
              /\ req'[r].seen = OpenOf(CharOf(req[r]))
              /\ \/ req[r].pc = "cbSnap" /\ req'[r].pc = "cbDoom"
                 \/ req[r].pc = "exSnap" /\ req'[r].pc = "exDoom"
            BY <1>1, <2>1 DEF SnapPredecessors, Job
        <3>2. Fits(req[r])'
            BY <1>1, <1>2, <3>1
               DEF Fits, CallbackPCs, ExchangePCs, OwnPCs, HoldsRow, CharOf,
                   SidChar, OpenOf, Open, Existed
        <3>3. \A q \in Procs \ {r} : Apart(req[r], req[q])'
            BY <1>1, <1>2, <3>1
               DEF Apart, CallbackPCs, CharLockPCs, HoldsRow, CharOf, SidChar
        <3> QED BY <3>2, <3>3 DEF OwnKeeps
    <2>2. CASE LockCharacter(r)
        <3>1. /\ req'[r].login = req[r].login /\ req'[r].sid = req[r].sid
              /\ \/ req[r].pc = "exLock" /\ req'[r].pc = "exTake"
                 \/ req[r].pc = "loLock" /\ req'[r].pc = "loRevoke"
              /\ ~CharLocked(CharOf(req[r]))
            BY <1>1, <2>2 DEF LockCharacter, Goto, Job
        <3>2. Fits(req[r])'
            BY <1>1, <1>2, <3>1
               DEF Fits, CallbackPCs, ExchangePCs, OwnPCs, HoldsRow, Existed
        <3>3. \A q \in Procs \ {r} : Apart(req[r], req[q])'
            BY <1>1, <1>2, <3>1
               DEF Apart, CharLocked, CallbackPCs, CharLockPCs, HoldsRow, CharOf, SidChar
        <3> QED BY <3>2, <3>3 DEF OwnKeeps
    <2>3. CASE TakeCode(r)
        <3>1. /\ req'[r].login = req[r].login /\ req'[r].sid = req[r].sid
              /\ req[r].pc = "exTake" /\ req'[r].pc = "exSnap"
              /\ code[req[r].login] = "parked"
            BY <1>1, <1>5, <2>3 DEF TakeCode, Goto, Finish, Idle, FreePCs, Job
        <3>2. Fits(req[r])'
            BY <1>1, <1>2, <3>1
               DEF Fits, CallbackPCs, ExchangePCs, OwnPCs, HoldsRow
        <3>3. \A q \in Procs \ {r} : Apart(req[r], req[q])'
            BY <1>1, <1>2, <3>1
               DEF Apart, CallbackPCs, CharLockPCs, HoldsRow, CharOf, SidChar
        <3> QED BY <3>2, <3>3 DEF OwnKeeps
    <2>4. CASE DoomPredecessors(r)
        <3>1. /\ req'[r].login = req[r].login /\ req'[r].sid = req[r].sid
              /\ req[r].pc = "exDoom" /\ req'[r].pc = "exCreate"
              /\ req'[r].doomed = StillOpen(r)
              /\ RowsFree(req[r].seen) /\ req[r].seen \subseteq Sids
            BY <1>1, <2>4 DEF DoomPredecessors, Job
        <3>2. OpenOf(CharOf(req[r])) \subseteq StillOpen(r)
            BY <1>1, <3>1 DEF Fits, OpenOf, StillOpen
        <3>3. StillOpen(r) \subseteq OpenOf(CharOf(req[r]))
            BY <1>1, <3>1 DEF Fits, OpenOf, StillOpen
        <3>4. Fits(req[r])'
            BY <1>1, <1>2, <3>1, <3>2, <3>3
               DEF Fits, CallbackPCs, ExchangePCs, OwnPCs, HoldsRow, CharOf,
                   SidChar, OpenOf, Open
        <3>5. \A q \in Procs \ {r} : Apart(req[r], req[q])'
            BY <1>1, <1>2, <3>1
               DEF Apart, CallbackPCs, CharLockPCs, HoldsRow, RowsFree, StillOpen,
                   CharOf, SidChar
        <3> QED BY <3>4, <3>5 DEF OwnKeeps
    <2>5. CASE LogoutRevoke(r)
        <3>1. /\ req'[r].login = req[r].login /\ req'[r].sid = req[r].sid
              /\ req[r].pc = "loRevoke" /\ req'[r].pc = "loDelete"
              /\ req'[r].doomed = {t \in {req[r].sid} : Open(t)}
              /\ RowsFree({req[r].sid})
            BY <1>1, <2>5 DEF LogoutRevoke, Job
        <3>2. Fits(req[r])'
            BY <1>1, <1>2, <3>1
               DEF Fits, CallbackPCs, ExchangePCs, OwnPCs, HoldsRow, Existed, Open
        <3>3. \A q \in Procs \ {r} : Apart(req[r], req[q])'
            BY <1>1, <1>2, <3>1
               DEF Apart, CallbackPCs, CharLockPCs, HoldsRow, RowsFree, CharOf, SidChar
        <3> QED BY <3>2, <3>3 DEF OwnKeeps
    <2>6. CASE LockForRefresh(r)
        <3>1. /\ req[r].pc = "rfLock" /\ Open(req[r].sid) /\ RowsFree({req[r].sid})
              /\ req' = [req EXCEPT ![r].pc = "rfCall", ![r].ver = sess[req[r].sid].ver]
            BY <1>1, <1>5, <2>6 DEF LockForRefresh, Finish, Idle, FreePCs
        <3>2. /\ req'[r].login = req[r].login /\ req'[r].sid = req[r].sid
              /\ req'[r].pc = "rfCall" /\ req'[r].ver = sess[req[r].sid].ver
            BY <1>1, <3>1 DEF Job
        <3>3. req[r].sid \in Sids /\ sess[req[r].sid].ver # 0
            BY <1>1, <3>1
               DEF Fits, OwnPCs, IInv, RowInv, RevokedHoldsNoToken, Open
        <3>4. Fits(req[r])'
            BY <1>1, <1>2, <3>1, <3>2, <3>3
               DEF Fits, CallbackPCs, ExchangePCs, OwnPCs, HoldsRow, Existed, Open
        <3>5. \A q \in Procs \ {r} : Apart(req[r], req[q])'
            <4>1. RowsFree({req[r].sid})
                BY <3>1
            <4> QED BY <1>2, <3>2, <4>1
                    DEF Apart, CallbackPCs, CharLockPCs, HoldsRow, RowsFree
        <3> QED BY <3>4, <3>5 DEF OwnKeeps
    <2>7. CASE \E l \in Logins : StartExchange(r, l)
        <3>1. PICK l \in Logins : /\ code[l] = "parked"
                                 /\ req'[r].pc = "exLock" /\ req'[r].login = l
            BY <1>1, <2>7 DEF StartExchange, Idle
        <3>2. Fits(req[r])'
            BY <1>2, <3>1 DEF Fits, CallbackPCs, ExchangePCs, OwnPCs, HoldsRow
        <3>3. \A q \in Procs \ {r} : Apart(req[r], req[q])'
            BY <3>1 DEF Apart, CallbackPCs, CharLockPCs, HoldsRow
        <3> QED BY <3>2, <3>3 DEF OwnKeeps
    <2>8. CASE \E s \in Sids : BearerCall(r, s)
        <3>1. PICK s \in Sids : /\ Open(s) /\ req'[r].pc \in {"drift", "tool"}
                               /\ req'[r].sid = s /\ req'[r].login = None
            BY <1>1, <2>8 DEF BearerCall, Idle, Live
        <3>2. Fits(req[r])'
            BY <1>2, <3>1
               DEF Fits, CallbackPCs, ExchangePCs, OwnPCs, HoldsRow, Existed, Open
        <3>3. \A q \in Procs \ {r} : Apart(req[r], req[q])'
            BY <3>1 DEF Apart, CallbackPCs, CharLockPCs, HoldsRow
        <3> QED BY <3>2, <3>3 DEF OwnKeeps
    <2> QED BY <2>1, <2>2, <2>3, <2>4, <2>5, <2>6, <2>7, <2>8
<1> QED BY <1>1, <1>3, <1>4, <1>5, Assemble

(* Create: the new id is above every id there is.                           *)
LEMMA CreateKeeps ==
    ASSUME IInv, NEW r \in Requests, CreateSession(r)
    PROVE  RowInv' /\ JobInv'
<1>1. /\ r \in Procs
      /\ req[r] \in Job /\ r \in DOMAIN req
      /\ Fits(req[r]) /\ req[r].pc = "exCreate"
      /\ \A q \in Procs \ {r} : Apart(req[r], req[q])
      /\ nextSid \in Nat
    BY ConstantsAssumption DEF Procs, IInv, TypeOK, JobInv, CreateSession
<1>2. /\ UNCHANGED <<login, code, grant, sess>>
      /\ \A q \in Procs \ {r} : req'[q] = req[q]
      /\ nextSid' \in {nextSid, nextSid + 1}
    BY <1>1 DEF CreateSession, Finish, IInv, TypeOK
<1>3. RowInv'
    BY <1>1, <1>2 DEF IInv, RowInv, Existed, RevokedHoldsNoToken, Open, Sids
<1>4. ASSUME NEW q \in Procs \ {r}
      PROVE  Fits(req[q])'
    <2>1. Fits(req[q]) /\ req'[q] = req[q] /\ req[q] \in Job
        BY <1>2 DEF IInv, JobInv, TypeOK
    <2>2. req[q].sid < nextSid => req[q].sid < nextSid'
        BY <1>1, <1>2, <2>1, ConstantsAssumption DEF Job
    <2> QED BY <1>2, <2>1, <2>2
            DEF Fits, OpenOf, Open, CharOf, SidChar, Existed, HoldsRow
<1>5. ASSUME NEW q \in Procs \ {r}, NEW k \in Procs \ {r}, q # k
      PROVE  Apart(req[q], req[k])'
    <2>1. Apart(req[q], req[k]) /\ req'[q] = req[q] /\ req'[k] = req[k]
        BY <1>2, <1>5 DEF IInv, JobInv
    <2> QED BY <1>2, <2>1 DEF Apart, CharOf, SidChar, HoldsRow
<1>6. Keep(Procs \ {r})
    BY <1>4, <1>5 DEF Keep
<1>7. CASE req'[r].pc \in FreePCs
    BY <1>1, <1>3, <1>6, <1>7, FreeJob, Assemble
<1>8. CASE req'[r].pc \notin FreePCs
    <2>1. /\ nextSid \in Sids /\ nextSid' = nextSid + 1
          /\ req' = [req EXCEPT ![r].pc = "exCommit", ![r].sid = nextSid]
        BY <1>1, <1>8, ConstantsAssumption
           DEF CreateSession, Finish, Idle, FreePCs, Sids, IInv, TypeOK
    <2>2. /\ req'[r].login = req[r].login /\ req'[r].doomed = req[r].doomed
          /\ req'[r].pc = "exCommit" /\ req'[r].sid = nextSid
        BY <1>1, <2>1 DEF Job
    <2>3. \A u \in Sids : Existed(u) => u < nextSid
        BY DEF IInv, RowInv
    <2>4. ~Existed(nextSid) /\ nextSid < nextSid'
        BY <1>1, <2>1, <2>3
    <2>5. CharOf(req[r])' = CharOf(req[r]) /\ OpenOf(CharOf(req[r]))' = OpenOf(CharOf(req[r]))
        <3>1. req[r].login # None
            BY <1>1, ConstantsAssumption DEF Fits, ExchangePCs
        <3>2. CharOf(req[r])' = CharOf(req[r])
            BY <1>2, <2>2, <3>1 DEF CharOf
        <3> QED BY <1>2, <3>2 DEF OpenOf, Open, SidChar
    <2>6. Fits(req[r])'
        BY <1>1, <1>2, <2>1, <2>2, <2>3, <2>4, <2>5
           DEF Fits, CallbackPCs, ExchangePCs, OwnPCs, HoldsRow, Open, Existed
    <2>7. ASSUME NEW q \in Procs \ {r}
          PROVE  Apart(req[r], req[q])'
        <3>1. Fits(req[q]) /\ req'[q] = req[q] /\ req[q] \in Job
            BY <1>2 DEF IInv, JobInv, TypeOK
        <3>2. req[q].pc = "exCommit" => req[q].sid # nextSid
            BY <1>1, <3>1 DEF Fits, Sids
        <3> QED BY <1>1, <1>2, <2>2, <2>5, <3>1, <3>2
                DEF Apart, CallbackPCs, CharLockPCs, HoldsRow, CharOf, SidChar
    <2> QED BY <1>1, <1>3, <1>6, <2>6, <2>7, Assemble DEF OwnKeeps
<1> QED BY <1>7, <1>8

(* The callback: its handshake is its own until the code is parked.         *)
LEMMA CallbackKeeps ==
    ASSUME IInv, NEW r \in Requests,
           \/ \E l \in Logins : StartCallback(r, l)
           \/ ExchangeAtCCP(r) \/ ParkCode(r)
    PROVE  RowInv' /\ JobInv'
<1>1. /\ r \in Procs /\ Procs \ {r} \in SUBSET Procs
      /\ req[r] \in Job /\ r \in DOMAIN req /\ DOMAIN req = Procs
      /\ Fits(req[r])
      /\ \A q \in Procs : Fits(req[q])
      /\ \A q \in Procs \ {r} : Apart(req[r], req[q])
    BY DEF Procs, IInv, TypeOK, JobInv
<1>2. ASSUME NEW l \in Logins, StartCallback(r, l)
      PROVE  RowInv' /\ JobInv'
    <2>1. /\ login[l] # "gone" /\ code[l] = "none"
          /\ login' = [login EXCEPT ![l] = "gone"]
          /\ UNCHANGED <<code, grant, sess, nextSid>>
        BY <1>2 DEF StartCallback, IInv, RowInv
    <2>2. \A k \in Logins : login[k] = "gone" => login'[k] = "gone"
        BY <2>1 DEF IInv, TypeOK
    <2>3. \A q \in Procs : req[q].pc \in CallbackPCs =>
             req[q].login # l /\ code[req[q].login] = "none"
        BY <1>1, <2>1 DEF Fits
    <2>4. \A q \in Procs : req[q].pc \in {"exSnap", "exDoom", "exCreate", "exCommit"} =>
             code[req[q].login] \in {"parked", "expired"}
        BY <1>1 DEF Fits
    <2>5. \A k \in Logins : code[k] # "none" =>
             login'[k] = "gone" /\ grant[k].char \in Characters
        BY <2>2 DEF IInv, RowInv
    <2>6. CASE req' = req
        <3>1. RowInv' /\ Keep(Procs)
            BY <2>1, <2>2, <2>3, <2>4, <2>5, <2>6, HandshakesMove
        <3> QED BY <3>1 DEF Keep, JobInv
    <2>7. CASE req' = [req EXCEPT ![r] = [Idle EXCEPT !.pc = "cbExchange", !.login = l]]
        <3>1. /\ \A q \in Procs \ {r} : req'[q] = req[q]
              /\ req'[r].pc = "cbExchange" /\ req'[r].login = l
            BY <1>1, <2>7 DEF Idle
        <3>2. RowInv' /\ Keep(Procs \ {r})
            BY <1>1, <2>1, <2>2, <2>3, <2>4, <2>5, <3>1, HandshakesMove
        <3>3. Fits(req[r])'
            BY <2>1, <3>1
               DEF Fits, CallbackPCs, ExchangePCs, OwnPCs, HoldsRow, IInv, TypeOK
        <3>4. \A q \in Procs \ {r} : Apart(req[r], req[q])'
            BY <2>3, <3>1 DEF Apart, CharLockPCs, HoldsRow
        <3> QED BY <1>1, <3>2, <3>3, <3>4, Assemble DEF OwnKeeps
    <2> QED BY <1>2, <2>6, <2>7 DEF StartCallback
<1>3. ASSUME ExchangeAtCCP(r)
      PROVE  RowInv' /\ JobInv'
    <2> DEFINE l == req[r].login
    <2>1. /\ req[r].pc = "cbExchange" /\ l \in Logins
          /\ login[l] = "gone" /\ code[l] = "none"
          /\ UNCHANGED <<login, code, sess, nextSid>>
          /\ Finish(r) \/ Goto(r, "cbOwner")
        BY <1>1, <1>3 DEF ExchangeAtCCP, Fits, CallbackPCs
    <2>2. /\ grant'[l].char \in Characters
          /\ \A k \in Logins \ {l} : grant'[k].char = grant[k].char
        BY <1>3, <2>1 DEF ExchangeAtCCP, IInv, TypeOK
    <2>3. /\ \A q \in Procs \ {r} : req'[q] = req[q]
          /\ \/ req'[r].pc = "idle"
             \/ req'[r].pc = "cbOwner" /\ req'[r].login = l
        BY <1>1, <2>1 DEF Finish, Goto, Idle, Job
    <2>4. \A q \in Procs \ {r} : req[q].pc \in CallbackPCs =>
             /\ req[q].login \in Logins \ {l} /\ code[req[q].login] = "none"
        BY <1>1, <2>1 DEF Apart, Fits, CallbackPCs
    <2>5. \A q \in Procs : req[q].pc \in {"exSnap", "exDoom", "exCreate", "exCommit"} =>
             code[req[q].login] \in {"parked", "expired"}
        BY <1>1 DEF Fits
    <2>6. RowInv' /\ Keep(Procs \ {r})
        <3>1. \A k \in Logins :
                 /\ login[k] = "gone" => login'[k] = "gone"
                 /\ code[k] # "none" =>
                       code'[k] # "none" /\ grant'[k].char = grant[k].char
                 /\ code[k] = "gone" => code'[k] = "gone"
                 /\ code'[k] # "none" =>
                       login'[k] = "gone" /\ grant'[k].char \in Characters
            BY <2>1, <2>2 DEF IInv, RowInv
        <3>2. \A q \in Procs \ {r} :
                 /\ req[q].pc \in CallbackPCs =>
                       /\ code'[req[q].login] = "none"
                       /\ grant'[req[q].login].char = grant[req[q].login].char
                 /\ req[q].pc \in {"exSnap", "exDoom", "exCreate", "exCommit"} =>
                       code'[req[q].login] \in {"parked", "expired"}
            BY <2>1, <2>2, <2>4, <2>5
        <3> QED BY <1>1, <2>1, <2>3, <3>1, <3>2, HandshakesMove
    <2>7. CASE req'[r].pc = "idle"
        BY <1>1, <2>6, <2>7, FreeJob, Assemble DEF FreePCs
    <2>8. CASE req'[r].pc = "cbOwner" /\ req'[r].login = l
        <3>1. Fits(req[r])'
            BY <2>1, <2>2, <2>8 DEF Fits, CallbackPCs, ExchangePCs, OwnPCs, HoldsRow
        <3>2. \A q \in Procs \ {r} : Apart(req[r], req[q])'
            BY <2>3, <2>4, <2>8 DEF Apart, CharLockPCs, HoldsRow
        <3> QED BY <1>1, <2>6, <3>1, <3>2, Assemble DEF OwnKeeps
    <2> QED BY <2>3, <2>7, <2>8
<1>4. ASSUME ParkCode(r)
      PROVE  RowInv' /\ JobInv'
    <2> DEFINE l == req[r].login
    <2>1. /\ req[r].pc = "cbPut" /\ l \in Logins
          /\ login[l] = "gone" /\ code[l] = "none" /\ grant[l].char \in Characters
          /\ UNCHANGED <<login, grant, sess, nextSid>>
          /\ code' = [code EXCEPT ![l] = "parked"] /\ Finish(r)
        BY <1>1, <1>4 DEF ParkCode, Fits, CallbackPCs
    <2>2. code'[l] = "parked" /\ \A k \in Logins \ {l} : code'[k] = code[k]
        BY <2>1 DEF IInv, TypeOK
    <2>3. /\ \A q \in Procs \ {r} : req'[q] = req[q]
          /\ req'[r].pc = "idle"
        BY <1>1, <2>1 DEF Finish, Idle
    <2>4. \A q \in Procs \ {r} : req[q].pc \in CallbackPCs =>
             /\ req[q].login \in Logins \ {l} /\ code[req[q].login] = "none"
        BY <1>1, <2>1 DEF Apart, Fits, CallbackPCs
    <2>5. \A q \in Procs : req[q].pc \in {"exSnap", "exDoom", "exCreate", "exCommit"} =>
             req[q].login \in Logins \ {l} /\ code[req[q].login] \in {"parked", "expired"}
        BY <1>1, <2>1 DEF Fits, ExchangePCs
    <2>6. RowInv' /\ Keep(Procs \ {r})
        <3>1. \A k \in Logins :
                 /\ login[k] = "gone" => login'[k] = "gone"
                 /\ code[k] # "none" =>
                       code'[k] # "none" /\ grant'[k].char = grant[k].char
                 /\ code[k] = "gone" => code'[k] = "gone"
                 /\ code'[k] # "none" =>
                       login'[k] = "gone" /\ grant'[k].char \in Characters
            BY <2>1, <2>2 DEF IInv, RowInv
        <3>2. \A q \in Procs \ {r} :
                 /\ req[q].pc \in CallbackPCs =>
                       /\ code'[req[q].login] = "none"
                       /\ grant'[req[q].login].char = grant[req[q].login].char
                 /\ req[q].pc \in {"exSnap", "exDoom", "exCreate", "exCommit"} =>
                       code'[req[q].login] \in {"parked", "expired"}
            BY <2>1, <2>2, <2>4, <2>5
        <3> QED BY <1>1, <2>1, <2>3, <3>1, <3>2, HandshakesMove
    <2> QED BY <1>1, <2>3, <2>6, FreeJob, Assemble DEF FreePCs
<1> QED BY <1>2, <1>3, <1>4

(* Revocations outside the exchange: the rows are open and free, or held by *)
(* the logout that revokes them.                                            *)
LEMMA RevocationKeeps ==
    ASSUME IInv, NEW p \in Procs,
           \/ RevokeOnOwnerChange(p) \/ RevokeOwnSession(p) \/ CommitLogout(p)
           \/ SweepSessions(p)
    PROVE  RowInv' /\ JobInv'
<1>1. /\ Procs \ {p} \in SUBSET Procs
      /\ req[p] \in Job /\ p \in DOMAIN req /\ DOMAIN req = Procs
      /\ Fits(req[p])
      /\ \A q \in Procs \ {p} : Apart(req[p], req[q])
    BY DEF IInv, TypeOK, JobInv
<1>2. /\ UNCHANGED <<login, code, grant, nextSid>>
      /\ \A q \in Procs \ {p} : req'[q] = req[q]
    BY <1>1 DEF RevokeOnOwnerChange, RevokeOwnSession, CommitLogout, SweepSessions,
                Finish
<1>3. PICK S \in SUBSET Sids :
         /\ sess' = RevokeRows(S)
         /\ \A s \in S : Open(s) /\ \A q \in Procs \ {p} : ~HoldsRow(req[q], s)
    <2>1. CASE RevokeOnOwnerChange(p)
        BY <1>1, <2>1 DEF RevokeOnOwnerChange, StillOpen, RowsFree, Job
    <2>2. CASE RevokeOwnSession(p)
        <3>1. {t \in {req[p].sid} : Open(t)} \in SUBSET Sids
            BY <1>1, <2>2 DEF RevokeOwnSession, Fits, OwnPCs
        <3> QED BY <2>2, <3>1 DEF RevokeOwnSession, RowsFree
    <2>3. CASE CommitLogout(p)
        <3>1. req[p].doomed \in SUBSET Sids
            BY <1>1 DEF Job
        <3>2. \A s \in req[p].doomed : HoldsRow(req[p], s)
            BY <2>3 DEF CommitLogout, HoldsRow
        <3>3. \A s \in req[p].doomed : Open(s) /\ \A q \in Procs \ {p} : ~HoldsRow(req[q], s)
            BY <1>1, <3>1, <3>2 DEF Fits, Apart
        <3> QED BY <2>3, <3>1, <3>3 DEF CommitLogout
    <2>4. CASE SweepSessions(p)
        <3>1. PICK b \in SUBSET ExpiredSessions : RowsFree(b) /\ sess' = RevokeRows(b)
            BY <2>4 DEF SweepSessions
        <3> QED BY <3>1 DEF ExpiredSessions, RowsFree
    <2> QED BY <2>1, <2>2, <2>3, <2>4
<1>4. RowInv' /\ Keep(Procs \ {p})
    BY <1>1, <1>2, <1>3, SessionsRevoked
<1>5. CASE req'[p].pc \in FreePCs
    BY <1>4, <1>5, FreeJob, Assemble
<1>6. CASE req'[p].pc \notin FreePCs
    <2>1. /\ RevokeOnOwnerChange(p)
          /\ req[p].pc = "cbDoom" /\ req'[p].pc \in {"cbCCP", "cbUpsert"}
          /\ req'[p].login = req[p].login
        <3>1. CASE RevokeOnOwnerChange(p)
            BY <1>1, <1>6, <3>1 DEF RevokeOnOwnerChange, AfterRevoke, Then, Job
        <3>2. CASE RevokeOwnSession(p)
            BY <1>1, <1>6, <3>2 DEF RevokeOwnSession, Finish, Idle, FreePCs
        <3>3. CASE CommitLogout(p)
            BY <1>1, <1>6, <3>3 DEF CommitLogout, AfterRevoke, Then, Idle, FreePCs, Job
        <3>4. CASE SweepSessions(p)
            <4>1. PICK b \in SUBSET ExpiredSessions :
                     req' = [req EXCEPT ![p] = AfterRevoke(p, "swSessCCP", TokensOf(b))]
                BY <3>4 DEF SweepSessions
            <4> QED BY <1>1, <1>6, <4>1
                    DEF AfterRevoke, Then, Idle, FreePCs, SweepPCs, Job
        <3> QED BY <3>1, <3>2, <3>3, <3>4
    <2>2. Fits(req[p])'
        BY <1>1, <1>2, <2>1 DEF Fits, CallbackPCs, ExchangePCs, OwnPCs, HoldsRow
    <2>3. \A q \in Procs \ {p} : Apart(req[p], req[q])'
        BY <1>1, <1>2, <2>1 DEF Apart, CallbackPCs, CharLockPCs, HoldsRow
    <2> QED BY <1>4, <2>2, <2>3, Assemble DEF OwnKeeps
<1> QED BY <1>5, <1>6

(* Steps that leave openness and ownership of every session as they were.   *)
LEMMA TouchKeeps ==
    ASSUME IInv, NEW p \in Procs, WriteRefresh(p) \/ SweepPurge(p)
    PROVE  RowInv' /\ JobInv'
<1>1. /\ Procs \ {p} \in SUBSET Procs
      /\ p \in DOMAIN req /\ DOMAIN req = Procs /\ Fits(req[p]) /\ req[p] \in Job
    BY DEF IInv, TypeOK, JobInv
<1>2. /\ UNCHANGED <<login, code, grant, nextSid>>
      /\ \A q \in Procs \ {p} : req'[q] = req[q]
      /\ req'[p].pc \in FreePCs
    BY <1>1 DEF WriteRefresh, SweepPurge, Finish, Idle, FreePCs
<1>3. ASSUME NEW s \in Sids
      PROVE  /\ sess'[s].login = sess[s].login
             /\ Open(s)' = Open(s) /\ Existed(s)' = Existed(s)
             /\ (sess'[s].ver = 0) = (sess[s].ver = 0)
    <2>1. sess[s] \in Row /\ sess \in [Sids -> Row] /\ (sess[s].ver = 0) = ~Open(s)
        BY DEF IInv, TypeOK, RowInv, RevokedHoldsNoToken
    <2>2. CASE WriteRefresh(p)
        <3>1. /\ req[p].pc = "rfWrite" /\ req[p].sid \in Sids /\ req[p].ver # 0
              /\ sess' = [sess EXCEPT ![req[p].sid].ver = req[p].ver]
            BY <1>1, <2>2 DEF WriteRefresh, Fits, OwnPCs
        <3>2. Open(req[p].sid)
            BY <1>1, <3>1 DEF Fits, HoldsRow
        <3>3. /\ sess'[s].login = sess[s].login /\ sess'[s].state = sess[s].state
              /\ s # req[p].sid => sess'[s].ver = sess[s].ver
              /\ s = req[p].sid => sess'[s].ver = req[p].ver
            BY <2>1, <3>1 DEF Row
        <3> QED BY <2>1, <3>1, <3>2, <3>3 DEF Open, Existed
    <2>3. CASE SweepPurge(p)
        <3>1. PICK old \in SUBSET {t \in Sids : sess[t].state = "revoked"} :
                 sess' = [t \in Sids |-> IF t \in old
                             THEN [sess[t] EXCEPT !.state = "purged"] ELSE sess[t]]
            BY <2>3 DEF SweepPurge
        <3> QED BY <2>1, <3>1 DEF Row, Open, Existed
    <2> QED BY <2>2, <2>3
<1>4. RowInv' /\ Keep(Procs \ {p})
    BY <1>1, <1>2, <1>3, SessionsTouched
<1> QED BY <1>2, <1>4, FreeJob, Assemble

(* The commit of an exchange touches its own character only.                *)
LEMMA CommitKeeps ==
    ASSUME IInv, NEW r \in Requests, CommitExchange(r)
    PROVE  RowInv' /\ JobInv'
<1>0. PICK l, c, n, D : /\ l = req[r].login /\ c = CharOf(req[r])
                        /\ n = req[r].sid /\ D = req[r].doomed
    OBVIOUS
<1>1. /\ r \in Procs
      /\ req[r] \in Job /\ r \in DOMAIN req /\ DOMAIN req = Procs
      /\ Fits(req[r]) /\ req[r].pc = "exCommit"
      /\ \A q \in Procs \ {r} : Apart(req[r], req[q]) /\ Fits(req[q]) /\ req[q] \in Job
    BY DEF Procs, IInv, TypeOK, JobInv, CommitExchange
<1>2. /\ l \in Logins /\ code[l] \in {"parked", "expired"} /\ l # None
      /\ c = grant[l].char /\ D = OpenOf(c)
      /\ n \in Sids /\ n < nextSid /\ ~Existed(n)
      /\ \A u \in Sids : Existed(u) /\ SidChar(u) = c => u < n
    BY <1>0, <1>1, ConstantsAssumption DEF Fits, ExchangePCs, CharOf
<1>3. /\ UNCHANGED <<login, grant, nextSid>>
      /\ \A q \in Procs \ {r} : req'[q] = req[q]
      /\ req'[r].pc \in FreePCs
      /\ code' = [code EXCEPT ![l] = "gone"]
      /\ sess' = [RevokeRows(D) EXCEPT ![n] =
                     [state |-> "open", login |-> l, ver |-> 1, expired |-> FALSE]]
    BY <1>0, <1>1 DEF CommitExchange, AfterRevoke, Then, Idle, FreePCs, Job
<1>4. code'[l] = "gone" /\ \A k \in Logins \ {l} : code'[k] = code[k]
    BY <1>2, <1>3 DEF IInv, TypeOK
<1>5. /\ sess'[n].login = l /\ sess'[n].ver = 1 /\ sess'[n].state = "open"
      /\ n \notin D
    BY <1>2, <1>3 DEF RevokeRows, OpenOf, Open, Existed
<1>6. ASSUME NEW s \in Sids \ {n}
      PROVE  /\ sess'[s].login = sess[s].login
             /\ Open(s)' = (Open(s) /\ s \notin D)
             /\ Existed(s)' = Existed(s)
             /\ (sess'[s].ver = 0) = ~Open(s)'
    <2>1. sess[s] \in Row /\ (sess[s].ver = 0) = ~Open(s)
        BY DEF IInv, TypeOK, RowInv, RevokedHoldsNoToken
    <2>2. CASE s \in D
        <3>1. sess'[s] = [sess[s] EXCEPT !.state = "revoked", !.ver = 0]
            BY <1>2, <1>3, <2>2 DEF RevokeRows, Revoked
        <3>2. /\ sess'[s].state = "revoked" /\ sess'[s].ver = 0
              /\ sess'[s].login = sess[s].login
            BY <2>1, <3>1 DEF Row
        <3>3. Open(s)
            BY <1>2, <2>2 DEF OpenOf
        <3> QED BY <2>2, <3>2, <3>3 DEF Open, Existed
    <2>3. CASE s \notin D
        <3>1. sess'[s] = sess[s]
            BY <1>3, <2>3 DEF RevokeRows
        <3> QED BY <2>1, <2>3, <3>1 DEF Open, Existed
    <2> QED BY <2>2, <2>3
<1>7. /\ Open(n)' /\ Existed(n)' /\ SidChar(n)' = c
      /\ \A s \in Sids : Existed(s) => SidChar(s)' = SidChar(s)
    <2>1. Open(n)' /\ Existed(n)' /\ SidChar(n)' = c
        BY <1>2, <1>3, <1>5 DEF Open, Existed, SidChar
    <2>2. ASSUME NEW s \in Sids, Existed(s)
          PROVE  SidChar(s)' = SidChar(s)
        <3>1. s # n
            BY <1>2, <2>2
        <3>2. sess'[s].login = sess[s].login
            BY <1>6, <3>1
        <3> QED BY <1>3, <3>2 DEF SidChar
    <2> QED BY <2>1, <2>2
<1>8. RowInv'
    <2>1. \A k \in Logins : code'[k] # "none" =>
             login'[k] = "gone" /\ grant'[k].char \in Characters
        BY <1>2, <1>3, <1>4 DEF IInv, RowInv
    <2>2. \A s \in Sids : Existed(s)' =>
             s < nextSid' /\ sess'[s].login \in Logins /\ code'[sess'[s].login] = "gone"
        BY <1>2, <1>3, <1>4, <1>5, <1>6 DEF IInv, RowInv
    <2>3. \A s \in Sids \ {n} : Existed(s)' => sess'[s].login # l
        BY <1>2, <1>6 DEF IInv, RowInv
    <2>4. ASSUME NEW s \in Sids, NEW t \in Sids, Existed(s)', Existed(t)',
                 sess'[s].login = sess'[t].login
          PROVE  s = t
        <3>1. CASE s = n \/ t = n
            BY <1>5, <2>3, <2>4, <3>1
        <3>2. CASE s # n /\ t # n
            <4>1. Existed(s) /\ Existed(t) /\ sess[s].login = sess[t].login
                BY <1>6, <2>4, <3>2
            <4> QED BY <4>1 DEF IInv, RowInv
        <3> QED BY <3>1, <3>2
    <2>5. ASSUME NEW s \in Sids, ~Existed(s)'
          PROVE  sess'[s].login = None
        <3>1. s # n
            BY <1>7, <2>5
        <3>2. ~Existed(s) /\ sess'[s].login = sess[s].login
            BY <1>6, <2>5, <3>1
        <3> QED BY <3>2 DEF IInv, RowInv
    <2>6. RevokedHoldsNoToken'
        BY <1>5, <1>6, <1>7 DEF RevokedHoldsNoToken
    <2> QED BY <2>1, <2>2, <2>4, <2>5, <2>6 DEF RowInv
<1>9. ASSUME NEW q \in Procs \ {r}
      PROVE  Fits(req[q])'
    <2>1. /\ Fits(req[q]) /\ req'[q] = req[q] /\ Apart(req[r], req[q])
          /\ req[q].seen \subseteq Sids
        BY <1>1, <1>3 DEF Job
    <2>2. \A s \in Sids : HoldsRow(req[q], s)' => Open(s)'
        <3>1. \A s \in Sids : HoldsRow(req[q], s)' = HoldsRow(req[q], s)
            BY <2>1 DEF HoldsRow
        <3>2. \A s \in D : HoldsRow(req[r], s)
            BY <1>0, <1>1 DEF HoldsRow
        <3>3. \A s \in Sids : HoldsRow(req[q], s) => Open(s) /\ s \notin D
            BY <2>1, <3>2 DEF Fits, Apart
        <3> QED BY <1>6, <1>7, <3>1, <3>3
    <2>3. CASE req[q].pc \in ExchangePCs
        <3>1. /\ req[q].login \in Logins /\ req[q].login # None
              /\ CharOf(req[q]) = grant[req[q].login].char
              /\ CharOf(req[q])' = CharOf(req[q])
            BY <1>3, <2>1, <2>3, ConstantsAssumption DEF Fits, CharOf
        <3>2. CASE req[q].pc = "exLock"
            BY <1>4, <2>1, <2>2, <3>1, <3>2 DEF Fits, CallbackPCs, ExchangePCs, OwnPCs
        <3>3. CASE req[q].pc # "exLock"
            <4>1. CharOf(req[q]) # c
                BY <1>0, <1>1, <2>1, <2>3, <3>3 DEF Apart, CharLockPCs, ExchangePCs
            <4>2. req[q].login # l /\ code'[req[q].login] = code[req[q].login]
                BY <1>2, <1>4, <3>1, <4>1
            <4>3. OpenOf(CharOf(req[q]))' = OpenOf(CharOf(req[q]))
                <5>1. ASSUME NEW s \in Sids
                      PROVE  (Open(s)' /\ SidChar(s)' = CharOf(req[q]))
                             = (Open(s) /\ SidChar(s) = CharOf(req[q]))
                    <6>1. CASE s = n
                        <7>1. ~Open(s)
                            BY <1>2, <6>1 DEF Open, Existed
                        <7>2. SidChar(s)' # CharOf(req[q])
                            BY <1>7, <4>1, <6>1
                        <7> QED BY <7>1, <7>2
                    <6>2. CASE s # n
                        <7>1. Open(s) => Existed(s)
                            BY DEF Open, Existed
                        <7>2. s \in D => SidChar(s) = c
                            BY <1>2 DEF OpenOf
                        <7> QED BY <1>6, <1>7, <4>1, <6>2, <7>1, <7>2
                    <6> QED BY <6>1, <6>2
                <5> QED BY <3>1, <5>1 DEF OpenOf
            <4>4. req[q].pc = "exDoom" =>
                     \A s \in req[q].seen : Existed(s)' /\ SidChar(s)' = CharOf(req[q])
                <5>1. \A s \in Sids : Existed(s) => Existed(s)' /\ SidChar(s)' = SidChar(s)
                    BY <1>6, <1>7
                <5> QED BY <2>1, <5>1 DEF Fits
            <4>5. req[q].pc = "exCommit" =>
                     /\ req[q].sid # n /\ ~Existed(req[q].sid)'
                     /\ \A u \in Sids : Existed(u)' /\ SidChar(u)' = CharOf(req[q])
                                        => u < req[q].sid
                <5>1. \A u \in Sids \ {n} : /\ Existed(u)' = Existed(u)
                                            /\ Existed(u) => SidChar(u)' = SidChar(u)
                    BY <1>6, <1>7
                <5>2. req[q].pc = "exCommit" => req[q].sid # n /\ req[q].sid \in Sids
                    BY <1>0, <1>1, <2>1 DEF Apart, Fits
                <5>3. SidChar(n)' # CharOf(req[q])
                    BY <1>7, <4>1
                <5> QED BY <2>1, <5>1, <5>2, <5>3 DEF Fits
            <4> QED BY <1>3, <2>1, <2>2, <2>3, <3>1, <4>2, <4>3, <4>4, <4>5
                    DEF Fits, CallbackPCs, ExchangePCs, OwnPCs
        <3> QED BY <3>2, <3>3
    <2>4. CASE req[q].pc \notin ExchangePCs
        BY <1>2, <1>3, <1>4, <1>6, <1>7, <2>1, <2>2, <2>4
           DEF Fits, CallbackPCs, ExchangePCs, OwnPCs
    <2> QED BY <2>3, <2>4
<1>10. ASSUME NEW q \in Procs \ {r}, NEW k \in Procs \ {r}, q # k
       PROVE  Apart(req[q], req[k])'
    <2>1. /\ Apart(req[q], req[k]) /\ req'[q] = req[q] /\ req'[k] = req[k]
          /\ Fits(req[q]) /\ Fits(req[k])
        BY <1>1, <1>3, <1>10 DEF IInv, JobInv
    <2>2. \A i \in {q, k} : req[i].pc \in CharLockPCs => CharOf(req[i])' = CharOf(req[i])
        BY <1>3, <1>7, <2>1, ConstantsAssumption
           DEF Fits, CharOf, CharLockPCs, ExchangePCs, OwnPCs
    <2> QED BY <2>1, <2>2 DEF Apart, HoldsRow
<1>11. Keep(Procs \ {r})
    BY <1>9, <1>10 DEF Keep
<1> QED BY <1>1, <1>3, <1>8, <1>11, FreeJob, Assemble

(* Revocations at CCP, the sweep's other rules and faults.                  *)
LEMMA ReleaseKeeps ==
    ASSUME IInv, NEW p \in Procs,
           \/ RevokeAtCCP(p) \/ StartSweep(p) \/ SweepRuleFails(p) \/ Abort(p)
           \/ SweepLogins(p) \/ SweepCodes(p)
    PROVE  RowInv' /\ JobInv'
<1>1. /\ Procs \ {p} \in SUBSET Procs
      /\ req[p] \in Job /\ p \in DOMAIN req /\ DOMAIN req = Procs
      /\ Fits(req[p])
      /\ \A q \in Procs : Fits(req[q])
      /\ \A q \in Procs \ {p} : Apart(req[p], req[q])
    BY DEF IInv, TypeOK, JobInv
<1>2. CASE StartSweep(p) \/ SweepRuleFails(p) \/ Abort(p)
    <2>1. /\ UNCHANGED <<login, code, grant, sess, nextSid>>
          /\ \A q \in Procs \ {p} : req'[q] = req[q]
          /\ req'[p].pc \in FreePCs
        BY <1>1, <1>2
           DEF StartSweep, SweepRuleFails, Abort, Goto, Finish, Idle, FreePCs,
               SweepPCs, rows, Job
    <2> QED BY <1>1, <2>1, RowsUnchanged, FreeJob, Assemble
<1>3. CASE RevokeAtCCP(p)
    <2>1. PICK T \in SUBSET req[p].toks :
             /\ req[p].pc \in CCPRevokePCs
             /\ req' = [req EXCEPT ![p] = AfterRevoke(p, req[p].pc, T)]
        <3>1. PICK t \in req[p].toks :
                 req' = [req EXCEPT ![p] = AfterRevoke(p, req[p].pc, req[p].toks \ {t})]
            BY <1>1, <1>3 DEF RevokeAtCCP
        <3> QED BY <1>3, <3>1 DEF RevokeAtCCP
    <2>2. /\ UNCHANGED <<login, code, grant, sess, nextSid>>
          /\ \A q \in Procs \ {p} : req'[q] = req[q]
          /\ req'[p] = AfterRevoke(p, req[p].pc, T)
        BY <1>1, <1>3, <2>1 DEF RevokeAtCCP, rows
    <2>3. RowInv' /\ Keep(Procs \ {p})
        BY <1>1, <2>2, RowsUnchanged
    <2>4. \/ req'[p].pc \in FreePCs
          \/ /\ req[p].pc = "cbCCP" /\ req'[p].pc \in {"cbCCP", "cbUpsert"}
             /\ req'[p].login = req[p].login
        BY <1>1, <2>1, <2>2
           DEF AfterRevoke, Then, CCPRevokePCs, Idle, FreePCs, SweepPCs, Job
    <2>5. CASE req'[p].pc \in FreePCs
        BY <2>3, <2>5, FreeJob, Assemble
    <2>6. CASE /\ req[p].pc = "cbCCP" /\ req'[p].pc \in {"cbCCP", "cbUpsert"}
               /\ req'[p].login = req[p].login
        <3>1. Fits(req[p])'
            BY <1>1, <2>2, <2>6 DEF Fits, CallbackPCs, ExchangePCs, OwnPCs, HoldsRow
        <3>2. \A q \in Procs \ {p} : Apart(req[p], req[q])'
            BY <1>1, <2>2, <2>6 DEF Apart, CallbackPCs, CharLockPCs, HoldsRow
        <3> QED BY <2>3, <3>1, <3>2, Assemble DEF OwnKeeps
    <2> QED BY <2>4, <2>5, <2>6
<1>4. CASE SweepLogins(p) \/ SweepCodes(p)
    <2>1. /\ UNCHANGED <<grant, sess, nextSid>>
          /\ \A q \in Procs \ {p} : req'[q] = req[q]
          /\ req'[p].pc \in FreePCs
        <3>1. CASE SweepLogins(p)
            BY <1>1, <3>1 DEF SweepLogins, Goto, FreePCs, SweepPCs, Job
        <3>2. CASE SweepCodes(p)
            <4>1. PICK b \in SUBSET ExpiredCodes :
                     req' = [req EXCEPT ![p] = AfterRevoke(p, "swCodesCCP", b \X {1})]
                BY <3>2 DEF SweepCodes
            <4> QED BY <1>1, <3>2, <4>1
                    DEF SweepCodes, AfterRevoke, Then, FreePCs, SweepPCs, Job
        <3> QED BY <1>4, <3>1, <3>2
    <2>2. \A l \in Logins : /\ login[l] = "gone" => login'[l] = "gone"
                            /\ code'[l] # code[l] => code[l] = "expired" /\ code'[l] = "gone"
        BY <1>4 DEF SweepLogins, SweepCodes, ExpiredCodes, IInv, TypeOK
    <2>3. \A q \in Procs : req[q].pc \in {"exSnap", "exDoom", "exCreate", "exCommit"} =>
             code'[req[q].login] = code[req[q].login]
        <3>1. CASE SweepLogins(p)
            BY <3>1 DEF SweepLogins
        <3>2. CASE SweepCodes(p)
            <4>1. PICK b \in SUBSET ExpiredCodes :
                     /\ \A l \in b : ~CodeLocked(l)
                     /\ code' = [l \in Logins |-> IF l \in b THEN "gone" ELSE code[l]]
                BY <3>2 DEF SweepCodes
            <4>2. \A q \in Procs : req[q].pc \in {"exSnap", "exDoom", "exCreate", "exCommit"} =>
                     req[q].login \in Logins /\ CodeLocked(req[q].login)
                BY <1>1 DEF Fits, ExchangePCs, CodeLocked
            <4> QED BY <4>1, <4>2
        <3> QED BY <1>4, <3>1, <3>2
    <2>4. \A l \in Logins :
             /\ login[l] = "gone" => login'[l] = "gone"
             /\ code[l] # "none" => code'[l] # "none" /\ grant'[l].char = grant[l].char
             /\ code[l] = "gone" => code'[l] = "gone"
             /\ code'[l] # "none" =>
                   login'[l] = "gone" /\ grant'[l].char \in Characters
        BY <2>1, <2>2 DEF IInv, RowInv
    <2>5. \A q \in Procs \ {p} :
             /\ req[q].pc \in CallbackPCs =>
                   /\ code'[req[q].login] = "none"
                   /\ grant'[req[q].login].char = grant[req[q].login].char
             /\ req[q].pc \in {"exSnap", "exDoom", "exCreate", "exCommit"} =>
                   code'[req[q].login] \in {"parked", "expired"}
        BY <1>1, <2>1, <2>2, <2>3 DEF Fits
    <2>6. RowInv' /\ Keep(Procs \ {p})
        BY <1>1, <2>1, <2>4, <2>5, HandshakesMove
    <2> QED BY <2>1, <2>6, FreeJob, Assemble
<1> QED BY <1>2, <1>3, <1>4

(* Time, the player and deployments.                                        *)
LEMMA EnvironmentKeeps ==
    ASSUME IInv, Environment
    PROVE  RowInv' /\ JobInv'
<1>1. /\ Procs \in SUBSET Procs /\ req' = req /\ nextSid' = nextSid
      /\ \A q \in Procs : Fits(req[q])
    BY DEF Environment, Authorize, LoginGoesStale, CodeExpires, PlayerWithdraws,
           SessionExpires, Deploy, rows, IInv, JobInv
<1>2. CASE \E s \in Sids : SessionExpires(s)
    <2>1. PICK t \in Sids : Live(t) /\ sess' = [sess EXCEPT ![t].expired = TRUE]
        BY <1>2 DEF SessionExpires
    <2>2. ASSUME NEW s \in Sids
          PROVE  /\ sess'[s].login = sess[s].login
                 /\ Open(s)' = Open(s) /\ Existed(s)' = Existed(s)
                 /\ (sess'[s].ver = 0) = (sess[s].ver = 0)
        BY <2>1 DEF IInv, TypeOK, Row, Open, Existed
    <2>3. RowInv' /\ Keep(Procs)
        BY <1>1, <1>2, <2>2, SessionsTouched DEF SessionExpires
    <2> QED BY <2>3 DEF Keep, JobInv
<1>3. CASE Deploy \/ \E l \in Logins : PlayerWithdraws(l)
    <2>1. UNCHANGED <<login, code, grant, sess, nextSid>>
        BY <1>3 DEF Deploy, PlayerWithdraws, rows
    <2>2. RowInv' /\ Keep(Procs)
        BY <1>1, <2>1, RowsUnchanged
    <2> QED BY <2>2 DEF Keep, JobInv
<1>4. CASE \E l \in Logins : Authorize(l) \/ LoginGoesStale(l) \/ CodeExpires(l)
    <2>1. UNCHANGED <<sess, nextSid>>
        BY <1>4 DEF Authorize, LoginGoesStale, CodeExpires
    <2>2. \A l \in Logins :
             /\ login[l] = "gone" => login'[l] = "gone"
             /\ code'[l] # code[l] => code[l] = "parked" /\ code'[l] = "expired"
             /\ grant'[l].char = grant[l].char
        BY <1>4 DEF Authorize, LoginGoesStale, CodeExpires, IInv, TypeOK
    <2>3. \A l \in Logins :
             /\ login[l] = "gone" => login'[l] = "gone"
             /\ code[l] # "none" => code'[l] # "none" /\ grant'[l].char = grant[l].char
             /\ code[l] = "gone" => code'[l] = "gone"
             /\ code'[l] # "none" =>
                   login'[l] = "gone" /\ grant'[l].char \in Characters
        BY <2>2 DEF IInv, RowInv
    <2>4. \A q \in Procs :
             /\ req[q].pc \in CallbackPCs =>
                   /\ code'[req[q].login] = "none"
                   /\ grant'[req[q].login].char = grant[req[q].login].char
             /\ req[q].pc \in {"exSnap", "exDoom", "exCreate", "exCommit"} =>
                   code'[req[q].login] \in {"parked", "expired"}
        BY <1>1, <2>2 DEF Fits, ExchangePCs
    <2>5. RowInv' /\ Keep(Procs)
        BY <1>1, <2>1, <2>3, <2>4, HandshakesMove
    <2> QED BY <2>5 DEF Keep, JobInv
<1> QED BY <1>2, <1>3, <1>4 DEF Environment

-----------------------------------------------------------------------------
(* Types                                                                    *)

AllPCs == {"idle"} \cup RequestPCs \cup SweepPCs

LEMMA Bounds ==
    /\ MaxSessions \in Nat /\ MaxVer \in Nat \ {0}
    /\ 0 \in Vers /\ 1 \in Vers /\ 0 \in 0 .. MaxSessions
    /\ Sids \subseteq 0 .. MaxSessions
<1>1. MaxSessions \in Nat /\ MaxVer \in Nat \ {0}
    BY ConstantsAssumption
<1> QED BY <1>1 DEF Vers, Sids

(* The shapes an action gives to a job.                                     *)
LEMMA IdleType == Idle \in Job
    BY Bounds DEF Idle, Job

LEMMA JobType ==
    ASSUME NEW j \in Job, NEW x \in AllPCs
    PROVE  /\ [j EXCEPT !.pc = x] \in Job
           /\ \A l \in Logins : [j EXCEPT !.pc = x, !.login = l] \in Job
           /\ \A s \in 0 .. MaxSessions : [j EXCEPT !.sid = s, !.pc = x] \in Job
           /\ \A v \in Vers : [j EXCEPT !.pc = x, !.ver = v] \in Job
           /\ \A S, D \in SUBSET Sids :
                 [j EXCEPT !.pc = x, !.seen = S, !.doomed = D] \in Job
           /\ \A T \in SUBSET (Logins \X Vers) :
                 [j EXCEPT !.pc = x, !.seen = {}, !.doomed = {}, !.toks = T] \in Job
<1>1. [j EXCEPT !.pc = x] \in Job
    BY DEF Job, AllPCs
<1>2. ASSUME NEW l \in Logins PROVE [j EXCEPT !.pc = x, !.login = l] \in Job
    BY DEF Job, AllPCs
<1>3. ASSUME NEW s \in 0 .. MaxSessions PROVE [j EXCEPT !.sid = s, !.pc = x] \in Job
    BY DEF Job, AllPCs
<1>4. ASSUME NEW v \in Vers PROVE [j EXCEPT !.pc = x, !.ver = v] \in Job
    BY DEF Job, AllPCs
<1>5. ASSUME NEW S \in SUBSET Sids, NEW D \in SUBSET Sids
      PROVE  [j EXCEPT !.pc = x, !.seen = S, !.doomed = D] \in Job
    BY DEF Job, AllPCs
<1>6. ASSUME NEW T \in SUBSET (Logins \X Vers)
      PROVE  [j EXCEPT !.pc = x, !.seen = {}, !.doomed = {}, !.toks = T] \in Job
    BY DEF Job, AllPCs
<1> QED BY <1>1, <1>2, <1>3, <1>4, <1>5, <1>6

LEMMA MoveType ==
    ASSUME TypeOK, NEW p \in Procs,
           \/ \E j \in Job : req' = [req EXCEPT ![p] = j]
           \/ Finish(p)
           \/ \E x \in AllPCs : Goto(p, x)
    PROVE  req' \in [Procs -> Job]
<1>1. req \in [Procs -> Job] /\ req[p] \in Job
    BY DEF TypeOK
<1>2. CASE Finish(p)
    BY <1>1, <1>2, IdleType DEF Finish
<1>3. ASSUME NEW x \in AllPCs, Goto(p, x)
      PROVE  req' \in [Procs -> Job]
    <2>1. req' = [req EXCEPT ![p] = [req[p] EXCEPT !.pc = x]]
        BY <1>1, <1>3 DEF Goto
    <2> QED BY <1>1, <2>1, JobType
<1>4. CASE \E j \in Job : req' = [req EXCEPT ![p] = j]
    BY <1>1, <1>4
<1> QED BY <1>2, <1>3, <1>4

LEMMA AfterRevokeType ==
    ASSUME TypeOK, NEW p \in Procs, NEW w \in CCPRevokePCs,
           NEW T \in SUBSET (Logins \X Vers)
    PROVE  AfterRevoke(p, w, T) \in Job
<1>1. Then[w] \in AllPCs /\ w \in AllPCs
    BY DEF CCPRevokePCs, Then, AllPCs, RequestPCs, SweepPCs
<1>2. req[p] \in Job
    BY DEF TypeOK
<1> QED BY <1>1, <1>2, IdleType, JobType DEF AfterRevoke

LEMMA RevokeRowsType ==
    ASSUME TypeOK, NEW S \in SUBSET Sids
    PROVE  RevokeRows(S) \in [Sids -> Row]
<1>1. ASSUME NEW s \in Sids
      PROVE  Revoked(sess[s]) \in Row /\ sess[s] \in Row
    <2>1. sess[s] \in Row
        BY DEF TypeOK
    <2> QED BY <2>1, Bounds DEF Revoked, Row
<1> QED BY <1>1 DEF RevokeRows

(* The tokens of open sessions are typed.                                   *)
LEMMA OpenTokens ==
    ASSUME IInv, NEW S \in SUBSET Sids, \A s \in S : Open(s)
    PROVE  TokensOf(S) \in SUBSET (Logins \X Vers)
<1>1. \A s \in S : sess[s].login \in Logins /\ sess[s].ver \in Vers
    BY DEF IInv, TypeOK, Row, RowInv, Existed, Open
<1> QED BY <1>1 DEF TokensOf

(* Every step of a process leaves it with a job.                            *)
LEMMA RequestJobs ==
    ASSUME IInv, NEW r \in Requests, Start(r) \/ Step(r), ~RevokeAtCCP(r)
    PROVE  req' \in [Procs -> Job]
<1>1. /\ r \in Procs /\ TypeOK /\ req \in [Procs -> Job] /\ req[r] \in Job
      /\ Fits(req[r]) /\ sess \in [Sids -> Row]
    BY DEF Procs, IInv, TypeOK, JobInv
<1>2. \/ req' = req \/ Finish(r) \/ (\E x \in AllPCs : Goto(r, x))
      \/ \E j \in Job : req' = [req EXCEPT ![r] = j]
    <2>1. CASE \/ ExchangeAtCCP(r) \/ CheckOwner(r) \/ UpsertCharacter(r)
               \/ ParkCode(r) \/ LockCharacter(r) \/ TakeCode(r) \/ CallTool(r)
               \/ RevokeOwnSession(r) \/ LogoutDelete(r) \/ WriteRefresh(r)
               \/ CallLogout(r)
        BY <2>1 DEF ExchangeAtCCP, CheckOwner, UpsertCharacter, ParkCode,
                    LockCharacter, TakeCode, CallTool, RevokeOwnSession,
                    LogoutDelete, WriteRefresh, CallLogout, AllPCs, RequestPCs
    <2>2. CASE SnapPredecessors(r)
        <3> DEFINE x == IF req[r].pc = "cbSnap" THEN "cbDoom" ELSE "exDoom"
                   S == OpenOf(CharOf(req[r]))
        <3>1. req' = [req EXCEPT ![r] = [req[r] EXCEPT !.seen = S, !.pc = x]]
            BY <1>1, <2>2 DEF SnapPredecessors, Job
        <3>2. [req[r] EXCEPT !.seen = S, !.pc = x] \in Job
            <4>1. x \in AllPCs /\ S \in SUBSET Sids
                BY DEF AllPCs, RequestPCs, OpenOf
            <4> QED BY <1>1, <4>1 DEF Job, AllPCs
        <3> QED BY <3>1, <3>2
    <2>3. CASE RevokeOnOwnerChange(r)
        <3>1. StillOpen(r) \in SUBSET Sids /\ \A s \in StillOpen(r) : Open(s)
            BY <1>1 DEF StillOpen, Job
        <3>2. AfterRevoke(r, "cbCCP", TokensOf(StillOpen(r))) \in Job
            BY <1>1, <3>1, OpenTokens, AfterRevokeType DEF CCPRevokePCs
        <3> QED BY <2>3, <3>2 DEF RevokeOnOwnerChange
    <2>4. CASE DoomPredecessors(r) \/ LogoutRevoke(r)
        <3> DEFINE D == IF DoomPredecessors(r) THEN StillOpen(r)
                        ELSE {t \in {req[r].sid} : Open(t)}
                   x == IF DoomPredecessors(r) THEN "exCreate" ELSE "loDelete"
                   S == IF DoomPredecessors(r) THEN {} ELSE req[r].seen
        <3>1. req' = [req EXCEPT ![r] = [req[r] EXCEPT !.pc = x, !.seen = S, !.doomed = D]]
            <4>1. CASE DoomPredecessors(r)
                BY <1>1, <4>1 DEF DoomPredecessors
            <4>2. CASE ~DoomPredecessors(r)
                <5>1. req' = [req EXCEPT ![r].pc = "loDelete",
                                 ![r].doomed = {t \in {req[r].sid} : Open(t)}]
                    BY <2>4, <4>2 DEF LogoutRevoke
                <5>2. [req[r] EXCEPT !.pc = x, !.seen = S, !.doomed = D]
                        = [req[r] EXCEPT !.pc = x, !.doomed = D]
                    BY <1>1, <4>2 DEF Job
                <5> QED BY <1>1, <4>2, <5>1, <5>2
            <4> QED BY <4>1, <4>2
        <3>2. [req[r] EXCEPT !.pc = x, !.seen = S, !.doomed = D] \in Job
            <4>1. D \in SUBSET Sids
                BY <1>1, <2>4 DEF LogoutRevoke, StillOpen, Job, Fits, OwnPCs
            <4>2. x \in AllPCs /\ S \in SUBSET Sids
                BY <1>1 DEF AllPCs, RequestPCs, Job
            <4> QED BY <1>1, <4>1, <4>2, JobType
        <3> QED BY <3>1, <3>2
    <2>5. CASE CreateSession(r)
        <3>1. CASE Finish(r)
            BY <3>1
        <3>2. CASE ~Finish(r)
            <4>1. /\ req' = [req EXCEPT ![r].pc = "exCommit", ![r].sid = nextSid]
                  /\ ~(nextSid > MaxSessions)
                BY <2>5, <3>2 DEF CreateSession
            <4>2. nextSid \in 0 .. MaxSessions
                BY <1>1, <4>1, Bounds DEF TypeOK
            <4>3. req' = [req EXCEPT ![r] = [req[r] EXCEPT !.pc = "exCommit", !.sid = nextSid]]
                BY <1>1, <4>1
            <4>4. [req[r] EXCEPT !.pc = "exCommit", !.sid = nextSid] \in Job
                BY <1>1, <4>2 DEF Job, RequestPCs
            <4> QED BY <4>3, <4>4
        <3> QED BY <3>1, <3>2
    <2>6. CASE CommitExchange(r) \/ CommitLogout(r)
        <3>1. /\ req[r].doomed \in SUBSET Sids
              /\ \A s \in req[r].doomed : Open(s)
            BY <1>1, <2>6 DEF CommitExchange, CommitLogout, Fits, HoldsRow, Job
        <3>2. \A w \in CCPRevokePCs : AfterRevoke(r, w, TokensOf(req[r].doomed)) \in Job
            BY <1>1, <3>1, OpenTokens, AfterRevokeType
        <3> QED BY <2>6, <3>2 DEF CommitExchange, CommitLogout, CCPRevokePCs
    <2>7. CASE LockForRefresh(r)
        <3>1. CASE Finish(r)
            BY <3>1
        <3>2. CASE req' = [req EXCEPT ![r].pc = "rfCall", ![r].ver = sess[req[r].sid].ver]
            <4>1. sess[req[r].sid].ver \in Vers
                BY <1>1, <2>7 DEF LockForRefresh, Fits, OwnPCs, Row
            <4>2. req' = [req EXCEPT ![r] = [req[r] EXCEPT !.pc = "rfCall", !.ver = sess[req[r].sid].ver]]
                BY <1>1, <3>2
            <4>3. [req[r] EXCEPT !.pc = "rfCall", !.ver = sess[req[r].sid].ver] \in Job
                BY <1>1, <4>1, JobType DEF AllPCs, RequestPCs
            <4> QED BY <4>2, <4>3
        <3> QED BY <2>7, <3>1, <3>2 DEF LockForRefresh
    <2>8. CASE RefreshAtCCP(r)
        <3>1. CASE Finish(r) \/ Goto(r, "rfRevoke")
            BY <3>1 DEF AllPCs, RequestPCs
        <3>2. CASE ~(Finish(r) \/ Goto(r, "rfRevoke"))
            <4>1. /\ req' = [req EXCEPT ![r].pc = "rfWrite", ![r].ver = @ + 1]
                  /\ \E l \in Logins : ccp[l].ver = req[r].ver /\ ccp[l].ver < MaxVer
                <5>1. sess[req[r].sid].login \in Logins
                    BY <1>1, <2>8 DEF RefreshAtCCP, Fits, OwnPCs, IInv, RowInv
                <5> QED BY <2>8, <3>2, <5>1 DEF RefreshAtCCP
            <4>2. req[r].ver \in Vers /\ req[r].ver < MaxVer
                BY <1>1, <4>1 DEF Job
            <4>3. req[r].ver + 1 \in Vers
                BY <4>2, Bounds DEF Vers
            <4>4. req' = [req EXCEPT ![r] = [req[r] EXCEPT !.pc = "rfWrite", !.ver = req[r].ver + 1]]
                BY <1>1, <4>1
            <4>5. [req[r] EXCEPT !.pc = "rfWrite", !.ver = req[r].ver + 1] \in Job
                BY <1>1, <4>3, JobType DEF AllPCs, RequestPCs
            <4> QED BY <4>4, <4>5
        <3> QED BY <3>1, <3>2
    <2>9. CASE \E l \in Logins : StartCallback(r, l) \/ StartExchange(r, l)
        <3>1. \A l \in Logins, x \in AllPCs : [Idle EXCEPT !.pc = x, !.login = l] \in Job
            BY IdleType, JobType
        <3>2. "cbExchange" \in AllPCs /\ "exLock" \in AllPCs
            BY DEF AllPCs, RequestPCs
        <3> QED BY <2>9, <3>1, <3>2 DEF StartCallback, StartExchange
    <2>10. CASE \E s \in Sids : BearerCall(r, s)
        <3>1. \A s \in Sids, x \in AllPCs : [Idle EXCEPT !.sid = s, !.pc = x] \in Job
            BY IdleType, JobType, Bounds
        <3>2. "drift" \in AllPCs /\ "tool" \in AllPCs
            BY DEF AllPCs, RequestPCs
        <3>3. PICK s \in Sids, x \in AllPCs :
                 req' = [req EXCEPT ![r] = [Idle EXCEPT !.sid = s, !.pc = x]]
            BY <2>10, <3>2 DEF BearerCall
        <3> QED BY <3>1, <3>3
    <2> QED BY <2>1, <2>2, <2>3, <2>4, <2>5, <2>6, <2>7, <2>8, <2>9, <2>10
            DEF Start, Step
<1> QED BY <1>1, <1>2, MoveType

LEMMA OtherJobs ==
    ASSUME IInv, NEW p \in Procs,
           SweepStep(p) \/ SweepRuleFails(p) \/ Abort(p) \/ RevokeAtCCP(p)
    PROVE  req' \in [Procs -> Job]
<1>1. TypeOK /\ req \in [Procs -> Job] /\ req[p] \in Job
    BY DEF IInv, TypeOK
<1>2. \/ Finish(p) \/ \E x \in AllPCs : Goto(p, x)
      \/ \E j \in Job : req' = [req EXCEPT ![p] = j]
    <2>1. CASE \/ StartSweep(p) \/ SweepLogins(p) \/ SweepPurge(p)
               \/ SweepRuleFails(p) \/ Abort(p)
        BY <2>1 DEF StartSweep, SweepLogins, SweepPurge, SweepRuleFails, Abort,
                    AllPCs, SweepPCs
    <2>2. CASE SweepCodes(p)
        <3>1. PICK b \in SUBSET ExpiredCodes :
                 req' = [req EXCEPT ![p] = AfterRevoke(p, "swCodesCCP", b \X {1})]
            BY <2>2 DEF SweepCodes
        <3>2. b \X {1} \in SUBSET (Logins \X Vers)
            BY Bounds DEF ExpiredCodes
        <3>3. AfterRevoke(p, "swCodesCCP", b \X {1}) \in Job
            BY <1>1, <3>2, AfterRevokeType DEF CCPRevokePCs
        <3> QED BY <3>1, <3>3
    <2>3. CASE SweepSessions(p)
        <3>1. PICK b \in SUBSET ExpiredSessions :
                 req' = [req EXCEPT ![p] = AfterRevoke(p, "swSessCCP", TokensOf(b))]
            BY <2>3 DEF SweepSessions
        <3>2. TokensOf(b) \in SUBSET (Logins \X Vers)
            BY OpenTokens DEF ExpiredSessions
        <3>3. AfterRevoke(p, "swSessCCP", TokensOf(b)) \in Job
            BY <1>1, <3>2, AfterRevokeType DEF CCPRevokePCs
        <3> QED BY <3>1, <3>3
    <2>4. CASE RevokeAtCCP(p)
        <3>1. PICK t \in req[p].toks :
                 req' = [req EXCEPT ![p] = AfterRevoke(p, req[p].pc, req[p].toks \ {t})]
            BY <1>1, <2>4 DEF RevokeAtCCP
        <3>2. req[p].toks \ {t} \in SUBSET (Logins \X Vers) /\ req[p].pc \in CCPRevokePCs
            BY <1>1, <2>4 DEF Job, RevokeAtCCP
        <3>3. AfterRevoke(p, req[p].pc, req[p].toks \ {t}) \in Job
            BY <1>1, <3>2, AfterRevokeType
        <3> QED BY <3>1, <3>3
    <2> QED BY <2>1, <2>2, <2>3, <2>4 DEF SweepStep
<1> QED BY <1>1, <1>2, MoveType

(* Session rows and the sequence keep their types.                          *)
LEMMA SessionTypes ==
    ASSUME IInv, Next
    PROVE  sess' \in [Sids -> Row] /\ nextSid' \in 1 .. MaxSessions + 1
<1>1. /\ sess \in [Sids -> Row] /\ nextSid \in 1 .. MaxSessions + 1 /\ TypeOK
      /\ \A p \in Procs : Fits(req[p]) /\ req[p] \in Job
    BY DEF IInv, TypeOK, JobInv
<1>2. CASE UNCHANGED <<sess, nextSid>>
    BY <1>1, <1>2
<1>3. ASSUME NEW r \in Requests, CreateSession(r)
      PROVE  sess' \in [Sids -> Row] /\ nextSid' \in 1 .. MaxSessions + 1
    <2>1. sess' = sess /\ (nextSid' = nextSid \/ (nextSid' = nextSid + 1 /\ ~(nextSid > MaxSessions)))
        BY <1>3 DEF CreateSession
    <2> QED BY <1>1, <2>1, Bounds
<1>4. ASSUME NEW r \in Requests, RevokeOnOwnerChange(r) \/ RevokeOwnSession(r) \/ CommitLogout(r)
      PROVE  sess' \in [Sids -> Row] /\ nextSid' = nextSid
    <2>1. r \in Procs
        BY DEF Procs
    <2>2. PICK S \in SUBSET Sids : sess' = RevokeRows(S)
        <3>1. CASE RevokeOnOwnerChange(r)
            BY <1>1, <2>1, <3>1 DEF RevokeOnOwnerChange, StillOpen, Job
        <3>2. CASE RevokeOwnSession(r)
            <4>1. {t \in {req[r].sid} : Open(t)} \in SUBSET Sids
                BY <1>1, <2>1, <3>2 DEF RevokeOwnSession, Fits, OwnPCs
            <4> QED BY <3>2, <4>1 DEF RevokeOwnSession
        <3>3. CASE CommitLogout(r)
            BY <1>1, <2>1, <3>3 DEF CommitLogout, Job
        <3> QED BY <1>4, <3>1, <3>2, <3>3
    <2> QED BY <1>1, <1>4, <2>2, RevokeRowsType
            DEF RevokeOnOwnerChange, RevokeOwnSession, CommitLogout
<1>5. ASSUME NEW r \in Requests, CommitExchange(r)
      PROVE  sess' \in [Sids -> Row] /\ nextSid' = nextSid
    <2>1. /\ r \in Procs /\ req[r].doomed \in SUBSET Sids
          /\ req[r].login \in Logins /\ nextSid' = nextSid
        BY <1>1, <1>5 DEF Procs, CommitExchange, Fits, ExchangePCs, Job
    <2>2. [state |-> "open", login |-> req[r].login, ver |-> 1, expired |-> FALSE] \in Row
        BY <2>1, Bounds DEF Row
    <2>3. RevokeRows(req[r].doomed) \in [Sids -> Row]
        BY <1>1, <2>1, RevokeRowsType
    <2> QED BY <1>5, <2>1, <2>2, <2>3 DEF CommitExchange
<1>6. ASSUME NEW r \in Requests, WriteRefresh(r)
      PROVE  sess' \in [Sids -> Row] /\ nextSid' = nextSid
    <2>1. r \in Procs /\ req[r].ver \in Vers /\ nextSid' = nextSid
          /\ sess' = [sess EXCEPT ![req[r].sid].ver = req[r].ver]
        BY <1>1, <1>6 DEF Procs, WriteRefresh, Job
    <2> QED BY <1>1, <2>1 DEF Row
<1>7. ASSUME NEW w \in Sweepers, SweepSessions(w)
      PROVE  sess' \in [Sids -> Row] /\ nextSid' = nextSid
    <2>1. PICK b \in SUBSET ExpiredSessions : sess' = RevokeRows(b)
        BY <1>7 DEF SweepSessions
    <2> QED BY <1>1, <1>7, <2>1, RevokeRowsType DEF SweepSessions, ExpiredSessions
<1>8. ASSUME NEW w \in Sweepers, SweepPurge(w)
      PROVE  sess' \in [Sids -> Row] /\ nextSid' = nextSid
    <2>1. PICK old \in SUBSET Sids :
             sess' = [t \in Sids |-> IF t \in old
                         THEN [sess[t] EXCEPT !.state = "purged"] ELSE sess[t]]
        BY <1>8 DEF SweepPurge
    <2> QED BY <1>1, <1>8, <2>1 DEF Row, SweepPurge
<1>9. ASSUME NEW s \in Sids, SessionExpires(s)
      PROVE  sess' \in [Sids -> Row] /\ nextSid' = nextSid
    BY <1>1, <1>9 DEF SessionExpires, Row
<1>10. CASE \/ \E r \in Requests : Start(r)
            \/ \E p \in Procs : Abort(p)
            \/ \E w \in Sweepers : SweepRuleFails(w)
    BY <1>2, <1>10 DEF Start, StartCallback, StartExchange, BearerCall, CallLogout,
                       Abort, SweepRuleFails, rows
<1>11. ASSUME NEW r \in Requests, Step(r)
       PROVE  sess' \in [Sids -> Row] /\ nextSid' \in 1 .. MaxSessions + 1
    BY <1>1, <1>2, <1>3, <1>4, <1>5, <1>6, <1>11
       DEF Step, ExchangeAtCCP, CheckOwner, SnapPredecessors, UpsertCharacter,
           ParkCode, LockCharacter, TakeCode, DoomPredecessors, CallTool,
           LogoutRevoke, LogoutDelete, LockForRefresh, RefreshAtCCP, RevokeAtCCP, rows
<1>12. ASSUME NEW w \in Sweepers, SweepStep(w)
       PROVE  sess' \in [Sids -> Row] /\ nextSid' \in 1 .. MaxSessions + 1
    BY <1>1, <1>2, <1>7, <1>8, <1>12
       DEF SweepStep, StartSweep, SweepLogins, SweepCodes, RevokeAtCCP, rows
<1>13. CASE Environment
    BY <1>1, <1>2, <1>9, <1>13
       DEF Environment, Authorize, LoginGoesStale, CodeExpires, PlayerWithdraws,
           Deploy, rows
<1> QED BY <1>10, <1>11, <1>12, <1>13 DEF Next

(* So do the handshakes, the codes, the grants and the characters.          *)
LEMMA HandshakeTypes ==
    ASSUME IInv, Next
    PROVE  /\ login' \in [Logins -> {"new", "pending", "stale", "gone"}]
           /\ code' \in [Logins -> {"none", "parked", "expired", "gone"}]
           /\ grant' \in [Logins -> [char : Characters \cup {None},
                             owner : Owners \cup {None}, scopes : 0 .. MaxBuild]]
           /\ character' \in [Characters -> [row : BOOLEAN, owner : Owners \cup {None},
                                             deleted : BOOLEAN]]
<1> DEFINE L(x) == x \in [Logins -> {"new", "pending", "stale", "gone"}]
           C(x) == x \in [Logins -> {"none", "parked", "expired", "gone"}]
           G(x) == x \in [Logins -> [char : Characters \cup {None},
                             owner : Owners \cup {None}, scopes : 0 .. MaxBuild]]
           H(x) == x \in [Characters -> [row : BOOLEAN, owner : Owners \cup {None},
                                         deleted : BOOLEAN]]
           Good == L(login') /\ C(code') /\ G(grant') /\ H(character')
<1>1. /\ L(login) /\ C(code) /\ G(grant) /\ H(character)
      /\ \A p \in Procs : Fits(req[p]) /\ req[p] \in Job
      /\ build \in 1 .. MaxBuild /\ build \in 0 .. MaxBuild
    <2>1. MaxBuild \in Nat /\ build \in 1 .. MaxBuild
        BY ConstantsAssumption DEF IInv, TypeOK
    <2> QED BY <2>1 DEF IInv, TypeOK, JobInv
<1>2. CASE UNCHANGED <<login, code, grant, character>>
    BY <1>1, <1>2
<1>3. ASSUME NEW r \in Requests, NEW l \in Logins, StartCallback(r, l)
      PROVE  Good
    BY <1>1, <1>3 DEF StartCallback
<1>4. ASSUME NEW r \in Requests, ExchangeAtCCP(r)
      PROVE  Good
    <2>1. PICK c \in Characters, o \in Owners :
             grant' = [grant EXCEPT ![req[r].login].char = c, ![req[r].login].owner = o]
        BY <1>4 DEF ExchangeAtCCP
    <2>2. G(grant')
        <3>1. req[r].login \in Logins
            BY <1>1, <1>4 DEF ExchangeAtCCP, Fits, CallbackPCs, Procs
        <3>2. grant' = [grant EXCEPT ![req[r].login] =
                           [grant[req[r].login] EXCEPT !.char = c, !.owner = o]]
            BY <1>1, <2>1, <3>1
        <3>3. [grant[req[r].login] EXCEPT !.char = c, !.owner = o]
                \in [char : Characters \cup {None}, owner : Owners \cup {None},
                     scopes : 0 .. MaxBuild]
            <4>1. PICK g : g = grant[req[r].login]
                OBVIOUS
            <4>2. g \in [char : Characters \cup {None}, owner : Owners \cup {None},
                         scopes : 0 .. MaxBuild]
                BY <1>1, <3>1, <4>1
            <4>3. [g EXCEPT !.char = c, !.owner = o]
                    \in [char : Characters \cup {None}, owner : Owners \cup {None},
                         scopes : 0 .. MaxBuild]
                BY <4>2
            <4> QED BY <4>1, <4>3
        <3> QED BY <1>1, <3>2, <3>3
    <2> QED BY <1>1, <1>4, <2>2 DEF ExchangeAtCCP
<1>5. ASSUME NEW r \in Requests, UpsertCharacter(r)
      PROVE  Good
    <2>1. grant[req[r].login].owner \in Owners \cup {None}
        <3>1. req[r].login \in Logins
            BY <1>1, <1>5 DEF UpsertCharacter, Fits, CallbackPCs, Procs
        <3> QED BY <1>1, <3>1
    <2>2. H(character')
        BY <1>1, <1>5, <2>1 DEF UpsertCharacter
    <2> QED BY <1>1, <1>5, <2>2 DEF UpsertCharacter
<1>6. ASSUME NEW r \in Requests, ParkCode(r) \/ CommitExchange(r)
      PROVE  Good
    BY <1>1, <1>6 DEF ParkCode, CommitExchange
<1>7. ASSUME NEW r \in Requests, CommitLogout(r)
      PROVE  Good
    BY <1>1, <1>7 DEF CommitLogout
<1>8. ASSUME NEW w \in Sweepers, SweepLogins(w) \/ SweepCodes(w)
      PROVE  Good
    BY <1>1, <1>8 DEF SweepLogins, SweepCodes
<1>9. ASSUME NEW l \in Logins, Authorize(l)
      PROVE  Good
    <2>1. G(grant')
        BY <1>1, <1>9 DEF Authorize
    <2> QED BY <1>1, <1>9, <2>1 DEF Authorize
<1>10. ASSUME NEW l \in Logins, LoginGoesStale(l) \/ CodeExpires(l)
       PROVE  Good
    BY <1>1, <1>10 DEF LoginGoesStale, CodeExpires
<1>11. ASSUME NEW r \in Requests, Start(r)
       PROVE  Good
    BY <1>2, <1>3, <1>11 DEF Start, StartExchange, BearerCall, CallLogout, rows
<1>12. ASSUME NEW r \in Requests, Step(r)
       PROVE  Good
    BY <1>2, <1>4, <1>5, <1>6, <1>7, <1>12
       DEF Step, CheckOwner, SnapPredecessors, RevokeOnOwnerChange, LockCharacter,
           TakeCode, DoomPredecessors, CreateSession, CallTool, RevokeOwnSession,
           LogoutRevoke, LogoutDelete, LockForRefresh, RefreshAtCCP, WriteRefresh,
           RevokeAtCCP, rows
<1>13. ASSUME NEW w \in Sweepers, SweepStep(w) \/ SweepRuleFails(w)
       PROVE  Good
    BY <1>2, <1>8, <1>13
       DEF SweepStep, SweepRuleFails, StartSweep, SweepSessions, SweepPurge,
           RevokeAtCCP, rows
<1>14. ASSUME NEW p \in Procs, Abort(p)
       PROVE  Good
    BY <1>2, <1>14 DEF Abort, rows
<1>15. CASE Environment
    BY <1>2, <1>9, <1>10, <1>15 DEF Environment, PlayerWithdraws, SessionExpires, Deploy, rows
<1> QED BY <1>11, <1>12, <1>13, <1>14, <1>15 DEF Next

(* And so does the world outside the database.                              *)
LEMMA WorldTypes ==
    ASSUME IInv, Next
    PROVE  /\ ccp' \in [Logins -> [live : BOOLEAN, ver : Vers]]
           /\ build' \in 1 .. MaxBuild
           /\ faults' \in 0 .. MaxFaults
           /\ lost' \subseteq Logins
<1> DEFINE P(x) == x \in [Logins -> [live : BOOLEAN, ver : Vers]]
           Good == P(ccp') /\ build' \in 1 .. MaxBuild /\ faults' \in 0 .. MaxFaults
                   /\ lost' \subseteq Logins
<1>1. /\ P(ccp) /\ build \in 1 .. MaxBuild /\ faults \in 0 .. MaxFaults
      /\ lost \subseteq Logins
      /\ MaxBuild \in Nat /\ MaxFaults \in Nat
      /\ \A p \in Procs : req[p] \in Job /\ Fits(req[p])
    BY ConstantsAssumption DEF IInv, TypeOK, JobInv
<1>2. CASE UNCHANGED world
    BY <1>1, <1>2 DEF world
<1>3. ASSUME NEW r \in Requests, ExchangeAtCCP(r)
      PROVE  Good
    <2>1. P(ccp')
        BY <1>1, <1>3, Bounds DEF ExchangeAtCCP
    <2> QED BY <1>1, <1>3, <2>1 DEF ExchangeAtCCP
<1>4. ASSUME NEW r \in Requests, RefreshAtCCP(r)
      PROVE  Good
    <2>1. P(ccp')
        <3>1. CASE UNCHANGED ccp
            BY <1>1, <3>1
        <3>2. CASE ~UNCHANGED ccp
            <4>1. PICK l : /\ ccp[l].ver < MaxVer
                           /\ ccp' = [ccp EXCEPT ![l].ver = @ + 1]
                BY <1>4, <3>2 DEF RefreshAtCCP
            <4>2. CASE l \in Logins
                <5>1. ccp[l].ver + 1 \in Vers /\ ccp[l] \in [live : BOOLEAN, ver : Vers]
                    BY <1>1, <4>1, <4>2, Bounds DEF Vers
                <5>2. ccp' = [ccp EXCEPT ![l] = [ccp[l] EXCEPT !.ver = ccp[l].ver + 1]]
                    BY <1>1, <4>1, <4>2
                <5>3. [ccp[l] EXCEPT !.ver = ccp[l].ver + 1] \in [live : BOOLEAN, ver : Vers]
                    BY <5>1
                <5> QED BY <1>1, <5>2, <5>3
            <4>3. CASE l \notin Logins
                BY <1>1, <4>1, <4>3
            <4> QED BY <4>2, <4>3
        <3> QED BY <3>1, <3>2
    <2> QED BY <1>1, <1>4, <2>1 DEF RefreshAtCCP
<1>5. ASSUME NEW p \in Procs, RevokeAtCCP(p)
      PROVE  Good
    <2>1. PICK t \in req[p].toks :
             \/ /\ ccp' = [ccp EXCEPT ![t[1]].live = @ /\ ccp[t[1]].ver # t[2]]
                /\ UNCHANGED <<faults, lost>>
             \/ /\ faults < MaxFaults
                /\ faults' = faults + 1
                /\ lost' = lost \cup {t[1]}
                /\ UNCHANGED ccp
        BY <1>5 DEF RevokeAtCCP
    <2>2. t[1] \in Logins
        BY <1>1 DEF Job
    <2>3. P(ccp')
        BY <1>1, <2>1, <2>2, Zenon
    <2>4. faults' \in 0 .. MaxFaults
        BY <1>1, <2>1
    <2>5. lost' \subseteq Logins
        BY <1>1, <2>1, <2>2
    <2> QED BY <1>1, <1>5, <2>3, <2>4, <2>5 DEF RevokeAtCCP
<1>6. ASSUME NEW w \in Sweepers, SweepRuleFails(w)
      PROVE  Good
    BY <1>1, <1>6 DEF SweepRuleFails
<1>7. ASSUME NEW p \in Procs, Abort(p)
      PROVE  Good
    <2>1. faults < MaxFaults /\ faults' = faults + 1
          /\ lost' = lost \cup Carried(p) /\ UNCHANGED <<ccp, build>>
        BY <1>7 DEF Abort
    <2>2. Carried(p) \subseteq Logins
        BY DEF Carried
    <2> QED BY <1>1, <2>1, <2>2
<1>8. ASSUME NEW l \in Logins, PlayerWithdraws(l)
      PROVE  Good
    BY <1>1, <1>8 DEF PlayerWithdraws
<1>9. ASSUME Deploy
      PROVE  Good
    BY <1>1, <1>9 DEF Deploy
<1>10. CASE Environment
    BY <1>2, <1>8, <1>9, <1>10
       DEF Environment, Authorize, LoginGoesStale, CodeExpires, SessionExpires
<1>11. ASSUME NEW r \in Requests, Start(r) \/ Step(r)
       PROVE  Good
    <2>1. CASE ExchangeAtCCP(r) \/ RefreshAtCCP(r) \/ RevokeAtCCP(r)
        BY <1>3, <1>4, <1>5, <2>1 DEF Procs
    <2>2. CASE ~(ExchangeAtCCP(r) \/ RefreshAtCCP(r) \/ RevokeAtCCP(r))
        BY <1>2, <1>11, <2>2
           DEF Start, Step, StartCallback, StartExchange, BearerCall, CallLogout,
               CheckOwner, SnapPredecessors, RevokeOnOwnerChange, UpsertCharacter,
               ParkCode, LockCharacter, TakeCode, DoomPredecessors, CreateSession,
               CommitExchange, CallTool, RevokeOwnSession, LogoutRevoke,
               LogoutDelete, CommitLogout, LockForRefresh, WriteRefresh
    <2> QED BY <2>1, <2>2
<1>12. ASSUME NEW w \in Sweepers, SweepStep(w)
       PROVE  Good
    BY <1>2, <1>5, <1>12
       DEF SweepStep, StartSweep, SweepLogins, SweepCodes, SweepSessions,
           SweepPurge, Procs
<1> QED BY <1>6, <1>7, <1>10, <1>11, <1>12 DEF Next

-----------------------------------------------------------------------------
(* The invariant is inductive                                               *)

LEMMA InitIInv == Init => IInv
<1> SUFFICES ASSUME Init PROVE IInv
    OBVIOUS
<1>1. TypeOK
    <2>1. /\ NoSession \in Row
          /\ MaxBuild \in Nat /\ 1 \in 1 .. MaxBuild /\ 0 \in 0 .. MaxBuild
          /\ 0 \in 0 .. MaxFaults /\ 1 \in 1 .. MaxSessions + 1
        <3>1. MaxBuild \in Nat /\ MaxBuild >= 1 /\ MaxFaults \in Nat
            BY ConstantsAssumption
        <3> QED BY <3>1, Bounds DEF NoSession, Row
    <2> QED BY <2>1, IdleType, Bounds DEF Init, TypeOK
<1>2. \A s \in Sids : sess[s].state = "none" /\ sess[s].login = None /\ sess[s].ver = 0
    BY DEF Init, NoSession
<1>3. RowInv
    BY <1>2 DEF Init, RowInv, Existed, RevokedHoldsNoToken, Open
<1>4. \A p \in Procs : req[p].pc = "idle"
    BY DEF Init, Idle
<1>5. JobInv
    BY <1>4 DEF JobInv, Fits, Apart, CallbackPCs, ExchangePCs, OwnPCs,
                CharLockPCs, HoldsRow
<1> QED BY <1>1, <1>3, <1>5 DEF IInv

LEMMA TypeStep ==
    ASSUME IInv, Next
    PROVE  TypeOK'
<1>1. req' \in [Procs -> Job]
    <2>1. ASSUME NEW r \in Requests, Start(r) \/ Step(r)
          PROVE  req' \in [Procs -> Job]
        BY <2>1, RequestJobs, OtherJobs DEF Procs
    <2>2. ASSUME NEW w \in Sweepers, SweepStep(w) \/ SweepRuleFails(w)
          PROVE  req' \in [Procs -> Job]
        BY <2>2, OtherJobs DEF Procs
    <2>3. CASE Environment
        BY <2>3 DEF Environment, Authorize, LoginGoesStale, CodeExpires,
                    PlayerWithdraws, SessionExpires, Deploy, IInv, TypeOK
    <2> QED BY <2>1, <2>2, <2>3, OtherJobs DEF Next
<1> QED BY <1>1, SessionTypes, HandshakeTypes, WorldTypes DEF TypeOK

LEMMA NextIInv == IInv /\ [Next]_vars => IInv'
<1> SUFFICES ASSUME IInv, [Next]_vars PROVE IInv'
    OBVIOUS
<1>1. CASE UNCHANGED vars
    <2>1. /\ UNCHANGED <<login, code, grant, character, sess, nextSid>>
          /\ UNCHANGED <<ccp, build, faults, lost>> /\ req' = req
        BY <1>1 DEF vars, rows, world
    <2>2. TypeOK'
        BY <2>1 DEF IInv, TypeOK
    <2>3. RowInv' /\ Keep(Procs)
        BY <2>1, RowsUnchanged
    <2> QED BY <2>2, <2>3 DEF IInv, Keep, JobInv
<1>2. ASSUME NEW r \in Requests, Start(r) \/ Step(r)
      PROVE  RowInv' /\ JobInv'
    BY <1>2, PlainMoves, LockMoves, CreateKeeps, CallbackKeeps, RevocationKeeps,
       TouchKeeps, CommitKeeps, ReleaseKeeps
       DEF Start, Step, Procs
<1>3. ASSUME NEW w \in Sweepers, SweepStep(w) \/ SweepRuleFails(w)
      PROVE  RowInv' /\ JobInv'
    BY <1>3, RevocationKeeps, TouchKeeps, ReleaseKeeps DEF SweepStep, Procs
<1>4. CASE Next
    BY <1>2, <1>3, <1>4, ReleaseKeeps, EnvironmentKeeps, TypeStep DEF Next, IInv
<1> QED BY <1>1, <1>4

(* The invariant that carries every theorem: what a process has read under  *)
(* its locks is still true, and no two processes hold the same thing.       *)
THEOREM Inductive == Spec => []IInv
    BY InitIInv, NextIInv, PTL DEF Spec

(* The rows and jobs of the sign-in subsystem keep their types.             *)
THEOREM TypeCorrect == Spec => []TypeOK
<1>1. IInv => TypeOK
    BY DEF IInv
<1> QED BY <1>1, Inductive, PTL

(* Redeem's INSERT never meets the unique index, for any number of          *)
(* exchanges, logouts, refreshes, owner changes and sweeps beside it.       *)
THEOREM NeverCollides == Spec => []ExchangeNeverCollides
<1>1. IInv => ExchangeNeverCollides
    <2>1. ASSUME IInv, NEW r \in Requests, req[r].pc = "exCreate"
          PROVE  OpenOf(CharOf(req[r])) = req[r].doomed
        BY <2>1 DEF IInv, JobInv, Fits, Procs
    <2> QED BY <2>1 DEF ExchangeNeverCollides, Collides
<1> QED BY <1>1, Inductive, PTL

(* An ended session keeps no refresh token, a live one always has one.      *)
THEOREM TokensCleared == Spec => []RevokedHoldsNoToken
<1>1. IInv => RevokedHoldsNoToken
    BY DEF IInv, RowInv
<1> QED BY <1>1, Inductive, PTL

(* An authorization code buys at most one session.                          *)
THEOREM SingleUse == Spec => []CodeSingleUse
<1>1. IInv => CodeSingleUse
    <2>1. ASSUME IInv, NEW s \in Sids, Existed(s)
          PROVE  /\ sess[s].login \in Logins /\ code[sess[s].login] = "gone"
                 /\ \A t \in Sids \ {s} : Existed(t) => sess[t].login # sess[s].login
                 /\ \A t \in Sids : ~Existed(t) => sess[t].login = None
        BY <2>1 DEF IInv, RowInv
    <2> QED BY <2>1, ConstantsAssumption DEF CodeSingleUse, Existed
<1> QED BY <1>1, Inductive, PTL

-----------------------------------------------------------------------------
(* Refinement                                                               *)

(* A step that only ends the sessions in S (perhaps none) is an End.        *)
LEMMA OnlyEnds ==
    ASSUME NEW S \in SUBSET Sids,
           \A s \in Sids : /\ Existed(s)' = Existed(s)
                           /\ Open(s)' = (Open(s) /\ s \notin S)
                           /\ Existed(s) => SidChar(s)' = SidChar(s)
    PROVE  [Conn!Next]_Conn!vars
<1>1. \A s \in Sids : Open(s) => Existed(s)
    BY DEF Open, Existed
<1>2. \A c \in Characters : OpenOf(c)' = OpenOf(c) \ S
    BY <1>1 DEF OpenOf
<1>3. \A c \in Characters :
         {s \in Sids : sess[s].state # "none" /\ SidChar(s) = c}'
           = {s \in Sids : sess[s].state # "none" /\ SidChar(s) = c}
    BY DEF Existed
<1>4. Conn!End(S)
    BY <1>2, <1>3 DEF Conn!End
<1> QED BY <1>4 DEF Conn!Next

LEMMA RevocationEnds ==
    ASSUME IInv, NEW S \in SUBSET Sids, sess' = RevokeRows(S), grant' = grant,
           \A s \in S : Open(s)
    PROVE  [Conn!Next]_Conn!vars
<1>1. ASSUME NEW s \in Sids
      PROVE  /\ Existed(s)' = Existed(s)
             /\ Open(s)' = (Open(s) /\ s \notin S)
             /\ Existed(s) => SidChar(s)' = SidChar(s)
    <2>1. sess[s] \in Row
        BY DEF IInv, TypeOK
    <2>2. CASE s \in S
        <3>1. sess'[s] = [sess[s] EXCEPT !.state = "revoked", !.ver = 0] /\ Open(s)
            BY <2>2 DEF RevokeRows, Revoked
        <3>2. sess'[s].state = "revoked" /\ sess'[s].login = sess[s].login
            BY <2>1, <3>1 DEF Row
        <3> QED BY <2>2, <3>1, <3>2 DEF Existed, Open, SidChar
    <2>3. CASE s \notin S
        BY <2>3 DEF RevokeRows, Existed, Open, SidChar
    <2> QED BY <2>2, <2>3
<1> QED BY <1>1, OnlyEnds

LEMMA CommitConnects ==
    ASSUME IInv, NEW r \in Requests, CommitExchange(r)
    PROVE  [Conn!Next]_Conn!vars
<1>1. PICK l, n, D : l = req[r].login /\ n = req[r].sid /\ D = req[r].doomed
    OBVIOUS
<1>2. PICK c : c = grant[l].char
    OBVIOUS
<1>3. req[r].pc = "exCommit" /\ Fits(req[r]) /\ grant' = grant
    BY DEF CommitExchange, IInv, JobInv, Procs
<1>4. /\ l \in Logins /\ n \in Sids /\ ~Existed(n) /\ c \in Characters
      /\ CharOf(req[r]) = c /\ OpenOf(c) = D
      /\ \A u \in Sids : Existed(u) /\ SidChar(u) = c => u < n
    <2>1. l \in Logins /\ code[l] # "none" /\ n \in Sids /\ ~Existed(n)
        BY <1>1, <1>3 DEF Fits, ExchangePCs
    <2>2. c \in Characters
        BY <1>2, <2>1 DEF IInv, RowInv
    <2>3. CharOf(req[r]) = c
        BY <1>1, <1>2, <2>1, ConstantsAssumption DEF CharOf
    <2> QED BY <1>1, <1>3, <2>1, <2>2, <2>3 DEF Fits
<1>5. /\ sess'[n].state = "open" /\ sess'[n].login = l
      /\ \A s \in Sids \ {n} : sess'[s] = IF s \in D THEN Revoked(sess[s]) ELSE sess[s]
    BY <1>1, <1>4 DEF CommitExchange, RevokeRows
<1>6. ASSUME NEW s \in Sids \ {n}
      PROVE  /\ Existed(s)' = Existed(s) /\ SidChar(s)' = SidChar(s)
             /\ Open(s)' = (Open(s) /\ s \notin D)
    <2>1. sess[s] \in Row
        BY DEF IInv, TypeOK
    <2>2. CASE s \in D
        <3>1. sess'[s] = [sess[s] EXCEPT !.state = "revoked", !.ver = 0] /\ Open(s)
            BY <1>4, <1>5, <2>2 DEF Revoked, OpenOf
        <3>2. sess'[s].state = "revoked" /\ sess'[s].login = sess[s].login
            BY <2>1, <3>1 DEF Row
        <3> QED BY <1>3, <2>2, <3>1, <3>2 DEF Existed, Open, SidChar
    <2>3. CASE s \notin D
        BY <1>3, <1>5, <2>3 DEF Existed, Open, SidChar
    <2> QED BY <2>2, <2>3
<1>7. Existed(n)' /\ Open(n)' /\ SidChar(n)' = c /\ ~Open(n)
    BY <1>2, <1>3, <1>4, <1>5 DEF Existed, Open, SidChar
<1>8. OpenOf(c)' = {n}
    BY <1>4, <1>6, <1>7 DEF OpenOf
<1>9. \A d \in Characters \ {c} : OpenOf(d)' = OpenOf(d)
    BY <1>4, <1>6, <1>7 DEF OpenOf
<1>10. \A d \in Characters :
         {s \in Sids : sess[s].state # "none" /\ SidChar(s) = d}'
           = {s \in Sids : sess[s].state # "none" /\ SidChar(s) = d}
             \cup (IF d = c THEN {n} ELSE {})
    BY <1>4, <1>6, <1>7 DEF Existed
<1>11. Conn!Connect(c, n)
    <2>1. [d \in Characters |-> OpenOf(d)]'
            = [[d \in Characters |-> OpenOf(d)] EXCEPT ![c] = {n}]
        BY <1>4, <1>8, <1>9
    <2>2. [d \in Characters |->
             {s \in Sids : sess[s].state # "none" /\ SidChar(s) = d}]'
            = [[d \in Characters |->
                 {s \in Sids : sess[s].state # "none" /\ SidChar(s) = d}]
               EXCEPT ![c] = @ \cup {n}]
        BY <1>4, <1>10
    <2>3. \A u \in [d \in Characters |->
             {s \in Sids : sess[s].state # "none" /\ SidChar(s) = d}][c] : u < n
        BY <1>4 DEF Existed
    <2> QED BY <2>1, <2>2, <2>3 DEF Conn!Connect
<1> QED BY <1>4, <1>11 DEF Conn!Next

LEMMA NothingEnds ==
    ASSUME \A s \in Sids : /\ Existed(s)' = Existed(s)
                           /\ Open(s)' = Open(s)
                           /\ Existed(s) => SidChar(s)' = SidChar(s)
    PROVE  [Conn!Next]_Conn!vars
<1>1. PICK S \in SUBSET Sids : S = {}
    OBVIOUS
<1>2. \A s \in Sids : Open(s)' = (Open(s) /\ s \notin S)
    BY <1>1 DEF Open
<1> QED BY <1>2, OnlyEnds

LEMMA StepConnects ==
    ASSUME IInv, [Next]_vars
    PROVE  [Conn!Next]_Conn!vars
<1>1. \A p \in Procs : Fits(req[p]) /\ req[p] \in Job
    BY DEF IInv, JobInv, TypeOK
<1>2. CASE UNCHANGED <<sess, grant>>
    <2>1. \A s \in Sids : /\ Existed(s)' = Existed(s)
                          /\ Open(s)' = Open(s)
                          /\ Existed(s) => SidChar(s)' = SidChar(s)
        BY <1>2 DEF Existed, Open, SidChar
    <2> QED BY <2>1, NothingEnds
<1>3. ASSUME NEW p \in Procs,
             \/ RevokeOnOwnerChange(p) \/ RevokeOwnSession(p) \/ CommitLogout(p)
             \/ SweepSessions(p)
      PROVE  [Conn!Next]_Conn!vars
    <2>1. PICK S \in SUBSET Sids : sess' = RevokeRows(S) /\ \A s \in S : Open(s)
        <3>1. CASE RevokeOnOwnerChange(p)
            BY <1>1, <3>1 DEF RevokeOnOwnerChange, StillOpen, Job
        <3>2. CASE RevokeOwnSession(p)
            <4>1. {t \in {req[p].sid} : Open(t)} \in SUBSET Sids
                BY <1>1, <3>2 DEF RevokeOwnSession, Fits, OwnPCs
            <4> QED BY <3>2, <4>1 DEF RevokeOwnSession
        <3>3. CASE CommitLogout(p)
            BY <1>1, <3>3 DEF CommitLogout, Job, Fits, HoldsRow
        <3>4. CASE SweepSessions(p)
            BY <3>4 DEF SweepSessions, ExpiredSessions
        <3> QED BY <1>3, <3>1, <3>2, <3>3, <3>4
    <2>2. grant' = grant
        BY <1>3 DEF RevokeOnOwnerChange, RevokeOwnSession, CommitLogout, SweepSessions
    <2> QED BY <2>1, <2>2, RevocationEnds
<1>4. ASSUME NEW r \in Requests, ExchangeAtCCP(r)
      PROVE  [Conn!Next]_Conn!vars
    <2>1. /\ req[r].login \in Logins /\ code[req[r].login] = "none" /\ sess' = sess
          /\ \E c, o : grant' = [grant EXCEPT ![req[r].login].char = c,
                                              ![req[r].login].owner = o]
        BY <1>1, <1>4 DEF ExchangeAtCCP, Fits, CallbackPCs, Procs
    <2>2. \A l \in Logins : code[l] = "gone" => grant'[l] = grant[l]
        BY <2>1 DEF IInv, TypeOK
    <2>3. \A s \in Sids : Existed(s) => SidChar(s)' = SidChar(s)
        BY <2>1, <2>2 DEF IInv, RowInv, SidChar
    <2>4. \A s \in Sids : Existed(s)' = Existed(s) /\ Open(s)' = Open(s)
        BY <2>1 DEF Existed, Open
    <2> QED BY <2>3, <2>4, NothingEnds
<1>5. ASSUME NEW l \in Logins, Authorize(l)
      PROVE  [Conn!Next]_Conn!vars
    <2>1. sess' = sess /\ \A k \in Logins : grant'[k].char = grant[k].char
        BY <1>5 DEF Authorize, IInv, TypeOK
    <2>2. \A s \in Sids : Existed(s) => SidChar(s)' = SidChar(s)
        BY <2>1 DEF IInv, RowInv, SidChar
    <2>3. \A s \in Sids : Existed(s)' = Existed(s) /\ Open(s)' = Open(s)
        BY <2>1 DEF Existed, Open
    <2> QED BY <2>2, <2>3, NothingEnds
<1>6. ASSUME NEW p \in Procs, WriteRefresh(p) \/ SweepPurge(p)
      PROVE  [Conn!Next]_Conn!vars
    <2>1. ASSUME NEW s \in Sids
          PROVE  /\ sess'[s].login = sess[s].login
                 /\ \/ sess'[s].state = sess[s].state
                    \/ sess[s].state = "revoked" /\ sess'[s].state = "purged"
        <3>1. sess[s] \in Row /\ sess \in [Sids -> Row]
            BY DEF IInv, TypeOK
        <3>2. CASE WriteRefresh(p)
            BY <3>1, <3>2 DEF WriteRefresh, Row
        <3>3. CASE SweepPurge(p)
            BY <3>1, <3>3 DEF SweepPurge, Row
        <3> QED BY <1>6, <3>2, <3>3
    <2>2. grant' = grant
        BY <1>6 DEF WriteRefresh, SweepPurge
    <2>3. \A s \in Sids : /\ Existed(s)' = Existed(s)
                          /\ Open(s)' = Open(s)
                          /\ Existed(s) => SidChar(s)' = SidChar(s)
        BY <2>1, <2>2 DEF Existed, Open, SidChar
    <2> QED BY <2>3, NothingEnds
<1>7. ASSUME NEW s \in Sids, SessionExpires(s)
      PROVE  [Conn!Next]_Conn!vars
    <2>1. grant' = grant /\ sess' = [sess EXCEPT ![s].expired = TRUE]
        BY <1>7 DEF SessionExpires
    <2>2. \A t \in Sids : sess'[t].state = sess[t].state /\ sess'[t].login = sess[t].login
        BY <2>1 DEF IInv, TypeOK, Row
    <2>3. \A t \in Sids : /\ Existed(t)' = Existed(t)
                          /\ Open(t)' = Open(t)
                          /\ Existed(t) => SidChar(t)' = SidChar(t)
        BY <2>1, <2>2 DEF Existed, Open, SidChar
    <2> QED BY <2>3, NothingEnds
<1>8. ASSUME NEW r \in Requests, Start(r) \/ Step(r)
      PROVE  [Conn!Next]_Conn!vars
    <2>1. CASE \/ ExchangeAtCCP(r) \/ RevokeOnOwnerChange(r) \/ RevokeOwnSession(r)
               \/ CommitLogout(r) \/ CommitExchange(r) \/ WriteRefresh(r)
        BY <1>3, <1>4, <1>6, <2>1, CommitConnects DEF Procs
    <2>2. CASE ~(\/ ExchangeAtCCP(r) \/ RevokeOnOwnerChange(r) \/ RevokeOwnSession(r)
                 \/ CommitLogout(r) \/ CommitExchange(r) \/ WriteRefresh(r))
        <3>1. UNCHANGED <<sess, grant>>
            BY <1>8, <2>2
               DEF Start, Step, StartCallback, StartExchange, BearerCall, CallLogout,
                   CheckOwner, SnapPredecessors, UpsertCharacter, ParkCode,
                   LockCharacter, TakeCode, DoomPredecessors, CreateSession, CallTool,
                   LogoutRevoke, LogoutDelete, LockForRefresh, RefreshAtCCP,
                   RevokeAtCCP, rows
        <3> QED BY <1>2, <3>1
    <2> QED BY <2>1, <2>2
<1>9. ASSUME NEW w \in Sweepers, SweepStep(w) \/ SweepRuleFails(w)
      PROVE  [Conn!Next]_Conn!vars
    <2>1. CASE SweepSessions(w) \/ SweepPurge(w)
        BY <1>3, <1>6, <2>1 DEF Procs
    <2>2. CASE ~(SweepSessions(w) \/ SweepPurge(w))
        <3>1. UNCHANGED <<sess, grant>>
            BY <1>9, <2>2 DEF SweepStep, SweepRuleFails, StartSweep, SweepLogins,
                              SweepCodes, RevokeAtCCP, rows
        <3> QED BY <1>2, <3>1
    <2> QED BY <2>1, <2>2
<1>10. CASE Environment
    <2>1. CASE UNCHANGED <<sess, grant>>
        BY <1>2, <2>1
    <2>2. CASE ~UNCHANGED <<sess, grant>>
        <3>1. (\E l \in Logins : Authorize(l)) \/ \E s \in Sids : SessionExpires(s)
            BY <1>10, <2>2 DEF Environment, LoginGoesStale, CodeExpires,
                               PlayerWithdraws, Deploy, rows
        <3> QED BY <1>5, <1>7, <3>1
    <2> QED BY <2>1, <2>2
<1>11. CASE \E p \in Procs : Abort(p)
    BY <1>2, <1>11 DEF Abort, rows
<1>12. CASE UNCHANGED vars
    BY <1>2, <1>12 DEF vars, rows
<1> QED BY <1>8, <1>9, <1>10, <1>11, <1>12 DEF Next

(* The sign-in subsystem implements the abstract connection: a sign-in      *)
(* replaces its predecessors in one step, an ended session never comes back *)
(* and a character's session ids only grow, whatever runs beside it.        *)
THEOREM Refinement == Spec => ImplementsConnection
<1>1. Init => Conn!Init
    <2> SUFFICES ASSUME Init PROVE Conn!Init
        OBVIOUS
    <2>1. \A s \in Sids : sess[s].state = "none"
        BY DEF Init, NoSession
    <2> QED BY <2>1 DEF Conn!Init, OpenOf, Open
<1>2. IInv /\ [Next]_vars => [Conn!Next]_Conn!vars
    BY StepConnects
<1> QED BY <1>1, <1>2, Inductive, PTL DEF Spec, ImplementsConnection, Conn!Spec

(* A character's one unrevoked session is the newest it ever had.           *)
THEOREM NewestOpen == Spec => []OnlyNewestOpen
<1>1. Conn!Init => Conn!NewestOnly
    BY DEF Conn!Init, Conn!NewestOnly
<1>2. Conn!NewestOnly /\ [Conn!Next]_Conn!vars => Conn!NewestOnly'
    <2> SUFFICES ASSUME Conn!NewestOnly, [Conn!Next]_Conn!vars
                 PROVE  Conn!NewestOnly'
        OBVIOUS
    <2>1. \A s \in Sids : s \in Nat
        BY Bounds DEF Sids
    <2>2. CASE UNCHANGED Conn!vars
        BY <2>2 DEF Conn!vars, Conn!NewestOnly
    <2>3. ASSUME NEW S \in SUBSET Sids, Conn!End(S)
          PROVE  Conn!NewestOnly'
        BY <2>3 DEF Conn!End, Conn!NewestOnly
    <2>4. ASSUME NEW c \in Characters, NEW s \in Sids, Conn!Connect(c, s)
          PROVE  Conn!NewestOnly'
        <3>1. PICK o, o2, u, u2 :
                 /\ o = [d \in Characters |-> OpenOf(d)]
                 /\ o2 = [d \in Characters |-> OpenOf(d)]'
                 /\ u = [d \in Characters |->
                           {t \in Sids : sess[t].state # "none" /\ SidChar(t) = d}]
                 /\ u2 = [d \in Characters |->
                           {t \in Sids : sess[t].state # "none" /\ SidChar(t) = d}]'
            OBVIOUS
        <3>2. /\ o2 = [o EXCEPT ![c] = {s}] /\ u2 = [u EXCEPT ![c] = u[c] \cup {s}]
              /\ \A t \in u[c] : t < s
            BY <2>4, <3>1, Zenon DEF Conn!Connect
        <3>3. /\ o \in [Characters -> SUBSET Sids] /\ u \in [Characters -> SUBSET Sids]
              /\ \A d \in Characters : o[d] \subseteq u[d] /\ \A x \in o[d], t \in u[d] : t <= x
            <4>1. o \in [Characters -> SUBSET Sids]
                BY <3>1 DEF OpenOf
            <4>2. u \in [Characters -> SUBSET Sids]
                BY <3>1
            <4>3. \A d \in Characters : o[d] \subseteq u[d] /\ \A x \in o[d], t \in u[d] : t <= x
                BY <3>1, Zenon DEF Conn!NewestOnly
            <4> QED BY <4>1, <4>2, <4>3
        <3>4. \A d \in Characters : o2[d] \subseteq u2[d] /\ \A x \in o2[d], t \in u2[d] : t <= x
            <4>1. o2[c] = {s} /\ u2[c] = u[c] \cup {s}
                BY <3>2, <3>3
            <4>2. \A d \in Characters \ {c} : o2[d] = o[d] /\ u2[d] = u[d]
                BY <3>2, <3>3
            <4>3. \A x \in o2[c], t \in u2[c] : t <= x
                BY <2>1, <3>2, <3>3, <4>1
            <4> QED BY <3>3, <4>1, <4>2, <4>3
        <3> QED BY <3>1, <3>4, Zenon DEF Conn!NewestOnly
    <2> QED BY <2>2, <2>3, <2>4 DEF Conn!Next
<1>3. ImplementsConnection => []Conn!NewestOnly
    BY <1>1, <1>2, PTL DEF ImplementsConnection, Conn!Spec
<1> QED BY <1>3, Refinement, PTL DEF OnlyNewestOpen


(* Runner.Once runs the steps of a sweep, which take none of the locks of a *)
(* request over more than one statement.                                    *)
SweepersSweep == \A w \in Sweepers : req[w].pc \in {"idle"} \cup SweepPCs

LEMMA SweepersOnlySweep == Spec => []SweepersSweep
<1>1. Init => SweepersSweep
    BY DEF Init, Idle, SweepersSweep, Procs
<1>2. ASSUME IInv, SweepersSweep, [Next]_vars
      PROVE  SweepersSweep'
    <2>1. req \in [Procs -> Job] /\ Requests \cap Sweepers = {}
        BY <1>2, ConstantsAssumption DEF IInv, TypeOK
    <2>2. ASSUME NEW r \in Requests, Start(r)
          PROVE  SweepersSweep'
        BY <1>2, <2>1, <2>2
           DEF Start, StartCallback, StartExchange, BearerCall, CallLogout, Goto,
               SweepersSweep, Procs
    <2>3. ASSUME NEW r \in Requests, Step(r)
          PROVE  SweepersSweep'
        <3>1. \A p \in Procs \ {r} : req'[p] = req[p]
            BY <2>1, <2>3
               DEF Step, ExchangeAtCCP, CheckOwner, SnapPredecessors, RevokeOnOwnerChange,
                   UpsertCharacter, ParkCode, LockCharacter, TakeCode, DoomPredecessors,
                   CreateSession, CommitExchange, CallTool, RevokeOwnSession,
                   LogoutRevoke, LogoutDelete, CommitLogout, LockForRefresh,
                   RefreshAtCCP, WriteRefresh, RevokeAtCCP, Goto, Finish
        <3>2. QED
            BY <1>2, <2>1, <3>1 DEF SweepersSweep, Procs
    <2>4. ASSUME NEW w \in Sweepers, SweepStep(w) \/ SweepRuleFails(w)
          PROVE  SweepersSweep'
        <3>1. req[w].pc \in {"idle"} \cup SweepPCs
            BY <1>2 DEF SweepersSweep
        <3>2. \A p \in Procs \ {w} : req'[p] = req[p]
            BY <2>1, <2>4
               DEF SweepStep, StartSweep, SweepLogins, SweepCodes, SweepSessions,
                   SweepPurge, RevokeAtCCP, SweepRuleFails, Goto, Finish
        <3>3. req'[w].pc \in {"idle"} \cup SweepPCs
            <4>1. ASSUME NEW l \in {"swCodesCCP", "swSessCCP"}, NEW T
                  PROVE  AfterRevoke(w, l, T).pc \in {"idle"} \cup SweepPCs
                <5>1. Then[l] \in SweepPCs \ {"idle"} /\ l # "idle" /\ l \in SweepPCs
                    BY <4>1 DEF Then, SweepPCs
                <5>2. req[w] \in Job
                    BY <2>1 DEF Procs
                <5>3. QED
                    BY <5>1, <5>2 DEF AfterRevoke, Job
            <4>2. CASE \E T : \E l \in {"swCodesCCP", "swSessCCP"} :
                           req' = [req EXCEPT ![w] = AfterRevoke(w, l, T)]
                BY <2>1, <4>1, <4>2 DEF Procs
            <4>3. CASE RevokeAtCCP(w)
                <5>1. req[w].pc \in {"swCodesCCP", "swSessCCP"}
                    BY <3>1, <4>3 DEF RevokeAtCCP, CCPRevokePCs, SweepPCs
                <5>2. PICK t : req' = [req EXCEPT ![w] =
                                         AfterRevoke(w, req[w].pc, req[w].toks \ {t})]
                    BY <4>3 DEF RevokeAtCCP
                <5>3. QED
                    BY <4>2, <5>1, <5>2
            <4>4. CASE SweepCodes(w) \/ SweepSessions(w)
                BY <4>2, <4>4 DEF SweepCodes, SweepSessions
            <4>5. CASE \/ StartSweep(w) \/ SweepLogins(w) \/ SweepPurge(w)
                       \/ SweepRuleFails(w)
                BY <2>1, <4>5 DEF StartSweep, SweepLogins, SweepPurge, SweepRuleFails,
                                  Goto, Finish, Idle, SweepPCs, Procs, Job
            <4>6. QED
                BY <2>4, <4>3, <4>4, <4>5 DEF SweepStep
        <3>4. QED
            BY <1>2, <2>1, <3>2, <3>3 DEF SweepersSweep, Procs
    <2>5. ASSUME NEW p \in Procs, Abort(p)
          PROVE  SweepersSweep'
        BY <1>2, <2>1, <2>5 DEF Abort, Finish, Idle, SweepersSweep, Procs
    <2>6. CASE Environment \/ UNCHANGED vars
        BY <1>2, <2>6 DEF Environment, Authorize, LoginGoesStale, CodeExpires,
           PlayerWithdraws, SessionExpires, Deploy, SweepersSweep, vars
    <2>7. QED
        BY <1>2, <2>2, <2>3, <2>4, <2>5, <2>6 DEF Next
<1>3. QED
    BY <1>1, <1>2, Inductive, PTL DEF Spec

(* Advisory locks, session rows, code rows, characters rows and the unique  *)
(* index: waits go down a ladder of five rungs.  Who waits for a character  *)
(* waits for a process with its lock, which may wait for a code; who waits  *)
(* for a code or a session row waits for a process that may wait for a row, *)
(* an INSERT or a characters row; and those are at their commit.            *)
THEOREM LocksNeverCircular == Spec => []NoCircularWait
<1> DEFINE Going == \E r \in Requests : UnderWay(r) /\ ~Waits(r)
<1>1. ASSUME SweepersSweep, NEW p \in Procs, req[p].pc \in RequestPCs
      PROVE  p \in Requests
    BY <1>1 DEF SweepersSweep, SweepPCs, RequestPCs, Procs
<1>2. ASSUME SweepersSweep, NEW p \in Procs,
             req[p].pc \in {"exCommit", "loCommit", "rfCall", "rfWrite", "exSnap"}
      PROVE  Going
    BY <1>1, <1>2 DEF UnderWay, Waits, RequestPCs
<1>3. ASSUME SweepersSweep, NEW p \in Procs, req[p].pc \in {"exCreate", "loDelete"}
      PROVE  Going
    BY <1>1, <1>2, <1>3 DEF UnderWay, Waits, RequestPCs, Inserting, CharRowLocked, Procs
<1>4. ASSUME SweepersSweep, NEW S, ~RowsFree(S)
      PROVE  Going
    BY <1>2, <1>3, <1>4 DEF RowsFree, HoldsRow
<1>5. ASSUME SweepersSweep, NEW p \in Procs, req[p].pc \in {"exDoom", "loRevoke"}
      PROVE  Going
    BY <1>1, <1>4, <1>5 DEF UnderWay, Waits, RequestPCs
<1>6. ASSUME SweepersSweep, NEW l, CodeLocked(l)
      PROVE  Going
    BY <1>2, <1>3, <1>5, <1>6 DEF CodeLocked
<1>7. ASSUME SweepersSweep, NEW p \in Procs, req[p].pc = "exTake"
      PROVE  Going
    BY <1>1, <1>6, <1>7 DEF UnderWay, Waits, RequestPCs
<1>8. ASSUME SweepersSweep, NEW c, CharLocked(c)
      PROVE  Going
    BY <1>2, <1>3, <1>5, <1>7, <1>8 DEF CharLocked, CharLockPCs
<1>9. ASSUME SweepersSweep, NEW c, CharRowLocked(c)
      PROVE  Going
    BY <1>2, <1>9 DEF CharRowLocked
<1>10. ASSUME SweepersSweep, NEW r \in Requests, Waits(r)
       PROVE  Going
    BY <1>3, <1>4, <1>6, <1>8, <1>9, <1>10 DEF Waits, Procs
<1>11. SweepersSweep => NoCircularWait
    BY <1>10 DEF NoCircularWait
<1>12. QED
    BY <1>11, SweepersOnlySweep, PTL
=============================================================================
