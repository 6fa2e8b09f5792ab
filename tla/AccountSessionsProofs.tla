---------------------- MODULE AccountSessionsProofs ----------------------
(***************************************************************************)
(* No credential survives a change of the account that should end it: for  *)
(* any number of logins, requests, download sessions and changes, and      *)
(* whatever the password pool does with the calls it holds.  Of the pool   *)
(* itself: every call whose promise is open is held, in one place, and     *)
(* nobody waits beside a worker that could take it.                        *)
(***************************************************************************)
EXTENDS AccountSessions, SequenceProofs, FiniteSetTheorems

Versions == Nat \cup {NoToken}

(* What the arguments need of the types: versions are numbers, and what is *)
(* read, signed or carried is never ahead of the account.                  *)
Read ==
    /\ version \in Nat
    /\ pc \in [Tasks -> {"idle", "hashing", "done"}]
    /\ seen \in [Tasks -> [status : Statuses \cup {"NONE"}, version : Nat]]
    /\ status \in Statuses \cup {"NONE"}
    /\ \A t \in Tasks : seen[t].version <= version

Signing ==
    /\ token \in [Tasks -> Versions]
    /\ \A t \in Tasks : token[t] <= version
    /\ \A t \in Tasks : token[t] # NoToken => pc[t] = "done"

(* A login that read the account before its last change has, or will sign, *)
(* an older version; one that had not begun by then is not among them.     *)
Behind ==
    /\ old \subseteq Tasks
    /\ old # {} => status # "NONE"
    /\ \A t \in old :
          /\ pc[t] # "idle"
          /\ token[t] # NoToken => token[t] < version
          /\ pc[t] = "hashing" => seen[t].version < version

LoginInv == Read /\ Signing /\ Behind

LEMMA LoginInit == Init => LoginInv
<1> SUFFICES ASSUME Init PROVE LoginInv
  OBVIOUS
<1>1. Read
  BY DEF Init, Read, Unread, Statuses
<1>2. Signing
  BY DEF Init, Signing, Versions, NoToken
<1>3. Behind
  BY DEF Init, Behind
<1> QED
  BY <1>1, <1>2, <1>3 DEF LoginInv

(* A step that leaves the account and the logins' own state alone.         *)
LEMMA LoginKept ==
    ASSUME LoginInv, UNCHANGED <<status, version, pc, seen, token, old>>
    PROVE  LoginInv'
  BY DEF LoginInv, Read, Signing, Behind

(* A change of the account puts every login before it behind.              *)
LEMMA LoginChanged ==
    ASSUME LoginInv, NEW s \in Statuses, Changed(s),
           UNCHANGED <<pc, seen, token>>
    PROVE  LoginInv'
<1> USE DEF LoginInv
<1>1. /\ version \in Nat /\ version' = version + 1 /\ status' = s
      /\ old' = {t \in Tasks : pc[t] = "hashing" \/ token[t] # NoToken}
  BY DEF Changed, Read
<1>2. Read'
  BY <1>1 DEF Read
<1>3. Signing'
  <2>1. \A t \in Tasks : token[t] \in Versions /\ token[t] <= version
    BY DEF Signing
  <2>2. \A t \in Tasks : token[t] <= version'
    BY <1>1, <2>1 DEF Versions, NoToken
  <2> QED
    BY <2>2 DEF Signing
<1>4. Behind'
  <2>1. s # "NONE"
    BY DEF Statuses
  <2>2. ASSUME NEW t \in old'
        PROVE  /\ pc[t] # "idle"
               /\ token[t] # NoToken => token[t] < version'
               /\ pc[t] = "hashing" => seen[t].version < version'
    <3>1. t \in Tasks /\ (pc[t] = "hashing" \/ token[t] # NoToken)
      BY <1>1, <2>2
    <3>2. pc[t] # "idle"
      BY <3>1 DEF Signing
    <3>3. token[t] \in Versions /\ token[t] <= version
      BY <3>1 DEF Signing
    <3>4. seen[t].version \in Nat /\ seen[t].version <= version
      BY <3>1 DEF Read
    <3> QED
      BY <1>1, <3>2, <3>3, <3>4 DEF Versions, NoToken
  <2> QED
    BY <1>1, <2>1, <2>2 DEF Behind
<1> QED
  BY <1>2, <1>3, <1>4

LEMMA LoginBegin ==
    ASSUME LoginInv, NEW t \in Tasks, Begin(t)
    PROVE  LoginInv'
<1> USE DEF LoginInv
<1>1. /\ pc[t] = "idle"
      /\ seen' = [seen EXCEPT ![t] = [status |-> status, version |-> version]]
      /\ UNCHANGED <<status, version, token, old>>
  BY DEF Begin, account
<1>2. pc' \in [Tasks -> {"idle", "hashing", "done"}]
      /\ \A u \in Tasks : u # t => pc'[u] = pc[u]
  BY DEF Begin, Read
<1>3. Read'
  <2>1. [status |-> status, version |-> version]
          \in [status : Statuses \cup {"NONE"}, version : Nat]
    BY DEF Read
  <2>2. seen' \in [Tasks -> [status : Statuses \cup {"NONE"}, version : Nat]]
    BY <1>1, <2>1 DEF Read
  <2>3. \A u \in Tasks : seen'[u] = seen[u] \/ seen'[u].version = version
    BY <1>1 DEF Read
  <2>4. \A u \in Tasks : seen'[u].version <= version
    BY <2>3 DEF Read
  <2> QED
    BY <1>1, <1>2, <2>2, <2>4 DEF Read
<1>4. t \notin old /\ token[t] = NoToken
  BY <1>1 DEF Behind, Signing
<1>5. Signing'
  BY <1>1, <1>2, <1>4 DEF Signing
<1>6. Behind'
  <2>1. \A u \in old : u \in Tasks /\ u # t
    BY <1>4 DEF Behind
  <2>2. \A u \in old : pc'[u] = pc[u] /\ seen'[u] = seen[u]
    BY <1>1, <1>2, <2>1 DEF Read
  <2> QED
    BY <1>1, <2>2 DEF Behind
<1> QED
  BY <1>3, <1>5, <1>6

LEMMA LoginAnswer ==
    ASSUME LoginInv, NEW t \in Tasks, Answer(t)
    PROVE  LoginInv'
<1> USE DEF LoginInv
<1>1. /\ pc[t] = "hashing" /\ old' = old
      /\ pc' = [pc EXCEPT ![t] = "done"]
      /\ seen' = [seen EXCEPT ![t] = Unread]
      /\ LogIn(t) \/ Register(t) \/ Refused(t)
  BY DEF Answer
<1>2. /\ version' = version
      /\ status' \in Statuses \cup {"NONE"}
      /\ old # {} => status' # "NONE"
  BY <1>1 DEF LogIn, Register, Refused, account, Read, Behind, Statuses
<1>3. Read'
  BY <1>1, <1>2 DEF Read, Unread
<1>4. \/ token' = token
      \/ token' = [token EXCEPT ![t] = seen[t].version]
      \/ t \notin old /\ token' = [token EXCEPT ![t] = version]
  BY <1>1 DEF LogIn, Register, Refused, account, Signed, Behind
<1>5. Signing'
  <2>1. token' \in [Tasks -> Versions]
    BY <1>4 DEF Signing, Read, Versions
  <2>2. \A u \in Tasks : token'[u] <= version
    BY <1>4 DEF Signing, Read, Versions
  <2>3. \A u \in Tasks : token'[u] # NoToken => pc'[u] = "done"
    BY <1>1, <1>4 DEF Signing, Read
  <2> QED
    BY <1>2, <2>1, <2>2, <2>3 DEF Signing
<1>6. Behind'
  <2>1. \A u \in old : u \in Tasks /\ pc'[u] # "idle"
    BY <1>1 DEF Behind, Read
  <2>2. \A u \in old : token'[u] # NoToken => token'[u] < version
    BY <1>1, <1>4 DEF Behind, Signing
  <2>3. \A u \in old : pc'[u] = "hashing" => u # t
    BY <1>1, <2>1 DEF Read
  <2>4. \A u \in old : pc'[u] = "hashing" => seen'[u].version < version
    BY <1>1, <2>1, <2>3 DEF Behind, Read
  <2> QED
    BY <1>1, <1>2, <2>1, <2>2, <2>4 DEF Behind
<1> QED
  BY <1>3, <1>5, <1>6

LEMMA LoginStep == LoginInv /\ [Next]_vars => LoginInv'
<1> SUFFICES ASSUME LoginInv, [Next]_vars PROVE LoginInv'
  OBVIOUS
<1>1. ASSUME NEW t \in Tasks, Begin(t) PROVE LoginInv'
  BY <1>1, LoginBegin
<1>2. ASSUME NEW t \in Tasks, Answer(t) PROVE LoginInv'
  BY <1>2, LoginAnswer
<1>3. ASSUME NEW t \in Tasks, WaitEnds(t) PROVE LoginInv'
  BY <1>3, LoginKept DEF WaitEnds, PoolStep, account
<1>4. ASSUME NEW w \in Workers, WorkerAnswers(w) PROVE LoginInv'
  BY <1>4, LoginKept DEF WorkerAnswers, PoolStep, account
<1>5. ASSUME NEW w \in Workers, WorkerLost(w) PROVE LoginInv'
  BY <1>5, LoginKept DEF WorkerLost, PoolStep, account
<1>6. ASSUME ClosePool PROVE LoginInv'
  BY <1>6, LoginKept DEF ClosePool, PoolStep, account
<1>7. ASSUME NEW s \in Statuses, SetStatus(s) PROVE LoginInv'
  BY <1>7, LoginChanged DEF SetStatus, logins
<1>8. ASSUME SetRole PROVE LoginInv'
  <2>1. status \in Statuses
    BY <1>8 DEF SetRole, Changed, LoginInv, Read
  <2> QED
    BY <1>8, <2>1, LoginChanged DEF SetRole, logins
<1>9. ASSUME RevokeSessions PROVE LoginInv'
  <2>1. status \in Statuses
    BY <1>9 DEF RevokeSessions, Changed, LoginInv, Read
  <2> QED
    BY <1>9, <2>1, LoginChanged DEF RevokeSessions, logins
<1>10. ASSUME NEW v \in Visits, NEW t \in Tasks, Authenticate(v, t) PROVE LoginInv'
  BY <1>10, LoginKept DEF Authenticate, account, logins
<1>11. ASSUME NEW v \in Visits, FailPayment(v) PROVE LoginInv'
  <2>1. "SUSPENDED" \in Statuses
    BY DEF Statuses
  <2> QED
    BY <1>11, <2>1, LoginChanged DEF FailPayment, logins
<1>12. ASSUME NEW v \in Creators, CreateSession(v) PROVE LoginInv'
  BY <1>12, LoginKept DEF CreateSession, account, logins
<1>13. ASSUME NEW v \in Creators, Expire(v) PROVE LoginInv'
  BY <1>13, LoginKept DEF Expire, account, logins
<1>14. ASSUME NEW v \in Visits, NEW ds \in {Creators} \cup {{d} : d \in Creators},
              RevokeDownloads(v, ds)
       PROVE  LoginInv'
  BY <1>14, LoginKept DEF RevokeDownloads, account, logins
<1>15. ASSUME NEW g \in Gets, BeginGet(g) \/ RecordFirst(g) \/ RecordFails(g)
       PROVE  LoginInv'
  BY <1>15, LoginKept DEF BeginGet, RecordFirst, RecordFails, account, logins
<1>16. CASE UNCHANGED vars
  BY <1>16, LoginKept DEF vars, account, logins
<1> QED
  BY <1>1, <1>2, <1>3, <1>4, <1>5, <1>6, <1>7, <1>8, <1>9, <1>10, <1>11,
     <1>12, <1>13, <1>14, <1>15, <1>16 DEF Next

(* A login that read the account before its last change, however long it   *)
(* waited for the pool, has no token that requireAuth accepts.             *)
THEOREM SessionsNoStaleLogin == Spec => []NoStaleLogin
<1>1. LoginInv => NoStaleLogin
  <2> SUFFICES ASSUME LoginInv, NEW t \in old
               PROVE  token[t] = NoToken \/ ~Accepted(token[t])
    BY DEF NoStaleLogin
  <2>1. token[t] # NoToken => token[t] < version
    BY DEF LoginInv, Behind
  <2>2. token[t] \in Versions /\ version \in Nat
    BY DEF LoginInv, Behind, Signing, Read
  <2> QED
    BY <2>1, <2>2 DEF Accepted, Versions
<1> QED
  BY <1>1, LoginInit, LoginStep, PTL DEF Spec

-----------------------------------------------------------------------------
(* Download sessions.                                                      *)

Visiting ==
    /\ visit \in [Visits -> {"idle", "in", "done"}]
    /\ carried \in [Visits -> Versions]
    /\ \A v \in Visits : carried[v] <= version
    /\ session \in [Creators -> {"none", "live", "over"}]
    /\ \A d \in Creators : visit[d] # "done" => session[d] = "none"

(* A request cut off by a change carries an older version, so the share    *)
(* lock will show it that it is too late.                                  *)
Cut ==
    /\ cut \subseteq Creators
    /\ \A d \in cut :
          /\ session[d] # "live"
          /\ visit[d] # "idle"
          /\ visit[d] = "in" => carried[d] < version

DownloadInv == LoginInv /\ Visiting /\ Cut

LEMMA DownloadInit == Init => DownloadInv
<1> SUFFICES ASSUME Init PROVE DownloadInv
  OBVIOUS
<1>1. Visiting
  BY DEF Init, Visiting, Versions, NoToken
<1>2. Cut
  BY DEF Init, Cut
<1> QED
  BY <1>1, <1>2, LoginInit DEF DownloadInv

LEMMA DownloadKept ==
    ASSUME Visiting, Cut, UNCHANGED <<version, visit, carried, session, cut>>
    PROVE  Visiting' /\ Cut'
  BY DEF Visiting, Cut

(* A change with which nobody leaves.                                      *)
LEMMA DownloadChanged ==
    ASSUME LoginInv, Visiting, Cut,
           version' = version + 1, UNCHANGED <<visit, carried>>,
           NEW ds \in SUBSET Creators,
           \A d \in ds : session[d] = "live",
           session' = [d \in Creators |->
                          IF d \in ds THEN "over" ELSE session[d]],
           cut' = cut \cup Asking \cup ds
    PROVE  Visiting' /\ Cut'
<1>1. version \in Nat
  BY DEF LoginInv, Read
<1>2. \A v \in Visits : carried[v] \in Versions /\ carried[v] < version'
  BY <1>1 DEF Visiting, Versions, NoToken
<1>3. \A d \in Creators : d \in Visits
  BY AccountAssumption
<1>4. Visiting'
  <2>1. session' \in [Creators -> {"none", "live", "over"}]
    BY DEF Visiting
  <2>2. \A d \in Creators : visit[d] # "done" => session'[d] = "none"
    BY DEF Visiting
  <2>3. \A v \in Visits : carried[v] <= version'
    BY <1>1, <1>2 DEF Versions, NoToken
  <2> QED
    BY <2>1, <2>2, <2>3 DEF Visiting
<1>5. ASSUME NEW d \in cut'
      PROVE  /\ d \in Creators
             /\ session'[d] # "live"
             /\ visit[d] # "idle"
             /\ visit[d] = "in" => carried[d] < version'
  <2>1. d \in Creators
    BY <1>5 DEF Cut, Asking
  <2>2. session'[d] # "live" /\ visit[d] # "idle"
    <3>1. CASE d \in ds
      BY <2>1, <3>1 DEF Visiting
    <3>2. CASE d \in cut /\ d \notin ds
      BY <2>1, <3>2 DEF Cut
    <3>3. CASE d \in Asking /\ d \notin ds
      BY <2>1, <3>3 DEF Asking, Visiting
    <3> QED
      BY <1>5, <3>1, <3>2, <3>3
  <2> QED
    BY <1>2, <1>3, <2>1, <2>2
<1> QED
  BY <1>4, <1>5 DEF Cut

LEMMA DownloadAuthenticate ==
    ASSUME LoginInv, Visiting, Cut, NEW v \in Visits, NEW t \in Tasks,
           Authenticate(v, t)
    PROVE  Visiting' /\ Cut'
<1>1. /\ visit[v] = "idle" /\ token[t] \in Versions /\ token[t] <= version
      /\ visit' = [visit EXCEPT ![v] = "in"]
      /\ carried' = [carried EXCEPT ![v] = token[t]]
      /\ UNCHANGED <<version, session, cut>>
  BY DEF Authenticate, LoginInv, Signing, account, downloads
<1>2. \A d \in Creators : d \in Visits
  BY AccountAssumption
<1>3. Visiting'
  BY <1>1, <1>2 DEF Visiting
<1>4. \A d \in cut : d \in Visits /\ d # v
  BY <1>1, <1>2 DEF Cut
<1>5. \A d \in cut : visit'[d] = visit[d] /\ carried'[d] = carried[d]
  BY <1>1, <1>4 DEF Visiting
<1> QED
  BY <1>1, <1>3, <1>5 DEF Cut

(* A request that ends, with no new session but perhaps some over.         *)
LEMMA DownloadLeave ==
    ASSUME LoginInv, Visiting, Cut, NEW v \in Visits, Leave(v),
           version' = version, cut' = cut,
           session' \in [Creators -> {"none", "live", "over"}],
           \A d \in Creators :
              \/ session'[d] = session[d]
              \/ session[d] = "live" /\ session'[d] = "over"
              \/ d = v /\ d \notin cut
    PROVE  Visiting' /\ Cut'
<1>1. /\ visit' = [visit EXCEPT ![v] = "done"]
      /\ carried' = [carried EXCEPT ![v] = NoToken]
      /\ version \in Nat
      /\ \A d \in Creators : d \in Visits
  BY AccountAssumption DEF Leave, LoginInv, Read
<1>2. /\ visit'[v] = "done" /\ carried'[v] = NoToken
      /\ \A u \in Visits : u # v => visit'[u] = visit[u] /\ carried'[u] = carried[u]
  BY <1>1 DEF Visiting
<1>3. Visiting'
  <2>1. /\ visit' \in [Visits -> {"idle", "in", "done"}]
        /\ carried' \in [Visits -> Versions]
    BY <1>1 DEF Visiting, Versions
  <2>2. \A u \in Visits : carried'[u] <= version
    BY <1>1, <1>2 DEF Visiting, NoToken
  <2>3. \A d \in Creators : visit'[d] # "done" => session'[d] = "none"
    BY <1>1, <1>2 DEF Visiting
  <2> QED
    BY <2>1, <2>2, <2>3 DEF Visiting
<1>4. Cut'
  <2>1. \A d \in cut : d \in Creators /\ d \in Visits /\ session'[d] # "live"
    BY <1>1 DEF Cut
  <2>2. \A d \in cut : visit'[d] # "idle"
    BY <1>2, <2>1 DEF Cut
  <2>3. \A d \in cut : visit'[d] = "in" => carried'[d] < version
    BY <1>2, <2>1 DEF Cut
  <2> QED
    BY <2>1, <2>2, <2>3 DEF Cut
<1> QED
  BY <1>3, <1>4

LEMMA DownloadCreate ==
    ASSUME LoginInv, Visiting, Cut, NEW v \in Creators, CreateSession(v)
    PROVE  Visiting' /\ Cut'
<1>1. /\ visit[v] = "in" /\ Leave(v) /\ v \in Visits
      /\ session' = [session EXCEPT ![v] = IF MayCreate(v) THEN "live" ELSE @]
      /\ version' = version /\ cut' = cut
  BY AccountAssumption DEF CreateSession, account
<1>2. session' \in [Creators -> {"none", "live", "over"}]
  BY <1>1 DEF Visiting
<1>3. v \in cut => ~MayCreate(v)
  <2>1. carried[v] \in Versions /\ version \in Nat
    BY <1>1 DEF Visiting, LoginInv, Read
  <2> QED
    BY <1>1, <2>1 DEF Cut, MayCreate, Versions, NoToken
<1>4. \A d \in Creators : session'[d] = session[d] \/ (d = v /\ d \notin cut)
  BY <1>1, <1>3 DEF Visiting
<1> QED
  BY <1>1, <1>2, <1>4, DownloadLeave

LEMMA DownloadRevoke ==
    ASSUME LoginInv, Visiting, Cut, NEW v \in Visits, NEW ds,
           RevokeDownloads(v, ds)
    PROVE  Visiting' /\ Cut'
<1>1. /\ Leave(v) /\ session' = Revoked(ds)
      /\ version' = version /\ cut' = cut
  BY DEF RevokeDownloads, account
<1>2. session' \in [Creators -> {"none", "live", "over"}]
  BY <1>1 DEF Visiting, Revoked
<1>3. \A d \in Creators : \/ session'[d] = session[d]
                          \/ session[d] = "live" /\ session'[d] = "over"
  BY <1>1 DEF Revoked
<1> QED
  BY <1>1, <1>2, <1>3, DownloadLeave

(* A failed payment is a change and the end of the request that made it.   *)
LEMMA DownloadFailPayment ==
    ASSUME LoginInv, Visiting, Cut, NEW v \in Visits, FailPayment(v)
    PROVE  Visiting' /\ Cut'
<1>1. /\ visit[v] = "in"
      /\ visit' = [visit EXCEPT ![v] = "done"]
      /\ carried' = [carried EXCEPT ![v] = NoToken]
      /\ version \in Nat /\ version' = version + 1
      /\ cut' = cut \cup (Asking \ {v}) /\ session' = session
      /\ \A d \in Creators : d \in Visits
  BY AccountAssumption
  DEF FailPayment, Leave, Changed, downloads, LoginInv, Read
<1>2. /\ visit'[v] = "done" /\ carried'[v] = NoToken
      /\ \A u \in Visits : u # v => visit'[u] = visit[u] /\ carried'[u] = carried[u]
  BY <1>1 DEF Visiting
<1>3. \A u \in Visits : carried'[u] \in Versions /\ carried'[u] < version'
  BY <1>1, <1>2 DEF Visiting, Versions, NoToken
<1>4. Visiting'
  <2>1. /\ visit' \in [Visits -> {"idle", "in", "done"}]
        /\ carried' \in [Visits -> Versions]
    BY <1>1 DEF Visiting, Versions
  <2>2. \A u \in Visits : carried'[u] <= version'
    BY <1>1, <1>3 DEF Versions, NoToken
  <2>3. \A d \in Creators : visit'[d] # "done" => session'[d] = "none"
    BY <1>1, <1>2 DEF Visiting
  <2> QED
    BY <1>1, <2>1, <2>2, <2>3 DEF Visiting
<1>5. Cut'
  <2>1. \A d \in cut' : d \in Creators /\ d \in Visits
    BY <1>1 DEF Cut, Asking
  <2>2. \A d \in cut' : visit'[d] # "idle"
    BY <1>1, <1>2, <2>1 DEF Cut, Asking
  <2>3. \A d \in cut' : session'[d] # "live"
    BY <1>1, <2>1 DEF Cut, Asking, Visiting
  <2> QED
    BY <1>3, <2>1, <2>2, <2>3 DEF Cut
<1> QED
  BY <1>4, <1>5

LEMMA DownloadStep == DownloadInv /\ [Next]_vars => DownloadInv'
<1> SUFFICES ASSUME DownloadInv, [Next]_vars PROVE DownloadInv'
  OBVIOUS
<1>0. /\ LoginInv /\ Visiting /\ Cut
      /\ LoginInv'
  BY LoginStep DEF DownloadInv
<1> SUFFICES Visiting' /\ Cut'
  BY <1>0 DEF DownloadInv
<1> USE <1>0
<1>1. ASSUME NEW t \in Tasks, Begin(t) \/ Answer(t) \/ WaitEnds(t)
      PROVE  Visiting' /\ Cut'
  <2>1. UNCHANGED <<version, visit, carried, session, cut>>
    BY <1>1 DEF Begin, Answer, WaitEnds, PoolStep, LogIn, Register, Refused,
                account, downloads
  <2> QED
    BY <2>1, DownloadKept
<1>2. ASSUME NEW w \in Workers, WorkerAnswers(w) \/ WorkerLost(w)
      PROVE  Visiting' /\ Cut'
  BY <1>2, DownloadKept DEF WorkerAnswers, WorkerLost, PoolStep, account, downloads
<1>3. ASSUME ClosePool PROVE Visiting' /\ Cut'
  BY <1>3, DownloadKept DEF ClosePool, PoolStep, account, downloads
<1>4. ASSUME NEW s \in Statuses, SetStatus(s) \/ SetRole
      PROVE  Visiting' /\ Cut'
  <2>1. /\ version' = version + 1 /\ UNCHANGED <<visit, carried, session>>
        /\ cut' = cut \cup Asking \cup {}
    BY <1>4 DEF SetStatus, SetRole, Changed, downloads
  <2> DEFINE ds == {}
  <2>2. /\ cut' = cut \cup Asking \cup ds
        /\ ds \in SUBSET Creators /\ \A d \in ds : session[d] = "live"
    BY <2>1
  <2>3. session' = [d \in Creators |-> IF d \in ds THEN "over" ELSE session[d]]
    BY <2>1 DEF Visiting
  <2> HIDE DEF ds
  <2> QED
    BY <2>1, <2>2, <2>3, DownloadChanged
<1>5. ASSUME RevokeSessions PROVE Visiting' /\ Cut'
  <2> DEFINE ds == {v \in Creators : session[v] = "live"}
  <2>1. /\ version' = version + 1 /\ UNCHANGED <<visit, carried>>
        /\ cut' = cut \cup Asking \cup ds
        /\ session' = [v \in Creators |->
                          IF session[v] = "live" THEN "over" ELSE session[v]]
    BY <1>5 DEF RevokeSessions, Changed
  <2>2. session' = [d \in Creators |-> IF d \in ds THEN "over" ELSE session[d]]
    BY <2>1
  <2>3. ds \in SUBSET Creators /\ \A d \in ds : session[d] = "live"
    OBVIOUS
  <2> HIDE DEF ds
  <2> QED
    BY <2>1, <2>2, <2>3, DownloadChanged
<1>6. ASSUME NEW v \in Visits, NEW t \in Tasks, Authenticate(v, t)
      PROVE  Visiting' /\ Cut'
  BY <1>6, DownloadAuthenticate
<1>7. ASSUME NEW v \in Visits, FailPayment(v) PROVE Visiting' /\ Cut'
  BY <1>7, DownloadFailPayment
<1>8. ASSUME NEW v \in Creators, CreateSession(v) PROVE Visiting' /\ Cut'
  BY <1>8, DownloadCreate
<1>9. ASSUME NEW v \in Creators, Expire(v) PROVE Visiting' /\ Cut'
  <2>1. /\ session[v] = "live" /\ session' = [session EXCEPT ![v] = "over"]
        /\ UNCHANGED <<version, visit, carried, cut>>
    BY <1>9 DEF Expire, account
  <2>2. Visiting'
    BY <2>1 DEF Visiting
  <2>3. Cut'
    BY <2>1 DEF Cut, Visiting
  <2> QED
    BY <2>2, <2>3
<1>10. ASSUME NEW v \in Visits, NEW ds \in {Creators} \cup {{d} : d \in Creators},
              RevokeDownloads(v, ds)
       PROVE  Visiting' /\ Cut'
  BY <1>10, DownloadRevoke
<1>11. ASSUME NEW g \in Gets, BeginGet(g) \/ RecordFirst(g) \/ RecordFails(g)
       PROVE  Visiting' /\ Cut'
  BY <1>11, DownloadKept DEF BeginGet, RecordFirst, RecordFails, account
<1>12. CASE UNCHANGED vars
  BY <1>12, DownloadKept DEF vars, account, downloads
<1> QED
  BY <1>1, <1>2, <1>3, <1>4, <1>5, <1>6, <1>7, <1>8, <1>9, <1>10, <1>11, <1>12
  DEF Next, Statuses

(* A download URL does not work when the request that obtained it was      *)
(* authenticated before a change of the account and created it after, or   *)
(* when sessions were revoked while it was live.                           *)
THEOREM SessionsNoStaleDownload == Spec => []NoStaleDownload
<1>1. DownloadInv => NoStaleDownload
  BY DEF DownloadInv, Cut, NoStaleDownload, Usable
<1> QED
  BY <1>1, DownloadInit, DownloadStep, PTL DEF Spec

-----------------------------------------------------------------------------
(* The first download.                                                     *)

Marked ==
    /\ used \in [Creators -> BOOLEAN]
    /\ starts \in [Creators -> Nat]
    /\ OneStartPerSession

LEMMA MarkedKept == Marked /\ UNCHANGED <<used, starts>> => Marked'
  BY DEF Marked, OneStartPerSession

LEMMA MarkedStep == Marked /\ [Next]_vars => Marked'
<1> SUFFICES ASSUME Marked, [Next]_vars PROVE Marked'
  OBVIOUS
<1>1. ASSUME NEW g \in Gets, RecordFirst(g) PROVE Marked'
  <2>1. GetOf[g] \in Creators
    BY AccountAssumption
  <2>2. CASE ~IsFirst(g)
    BY <1>1, <2>2, MarkedKept DEF RecordFirst
  <2>3. CASE IsFirst(g)
    <3>1. /\ starts[GetOf[g]] = 0
          /\ used' = [used EXCEPT ![GetOf[g]] = TRUE]
          /\ starts' = [starts EXCEPT ![GetOf[g]] = starts[GetOf[g]] + 1]
      BY <1>1, <2>1, <2>3 DEF RecordFirst, IsFirst, Marked, OneStartPerSession
    <3>2. /\ used' \in [Creators -> BOOLEAN] /\ starts' \in [Creators -> Nat]
          /\ used'[GetOf[g]] = TRUE /\ starts'[GetOf[g]] = 1
          /\ \A d \in Creators : d # GetOf[g] =>
                used'[d] = used[d] /\ starts'[d] = starts[d]
      BY <2>1, <3>1 DEF Marked
    <3>3. ASSUME NEW d \in Creators
          PROVE  starts'[d] = IF used'[d] THEN 1 ELSE 0
      BY <3>2 DEF Marked, OneStartPerSession
    <3> QED
      BY <3>2, <3>3 DEF Marked, OneStartPerSession
  <2> QED
    BY <2>2, <2>3
<1>2. ASSUME NEW t \in Tasks, Begin(t) \/ Answer(t) \/ WaitEnds(t) PROVE Marked'
  BY <1>2, MarkedKept DEF Begin, Answer, WaitEnds, PoolStep, downloads
<1>3. ASSUME NEW w \in Workers, WorkerAnswers(w) \/ WorkerLost(w) PROVE Marked'
  BY <1>3, MarkedKept DEF WorkerAnswers, WorkerLost, PoolStep, downloads
<1>4. ASSUME \/ ClosePool \/ SetRole \/ RevokeSessions
             \/ \E s \in Statuses : SetStatus(s)
      PROVE  Marked'
  BY <1>4, MarkedKept
  DEF ClosePool, SetRole, RevokeSessions, SetStatus, PoolStep, downloads
<1>5. ASSUME NEW v \in Visits, NEW t \in Tasks, Authenticate(v, t) PROVE Marked'
  BY <1>5, MarkedKept DEF Authenticate, downloads
<1>6. ASSUME NEW v, FailPayment(v) \/ CreateSession(v) \/ Expire(v) PROVE Marked'
  BY <1>6, MarkedKept DEF FailPayment, CreateSession, Expire, downloads
<1>7. ASSUME NEW v, NEW ds, RevokeDownloads(v, ds) PROVE Marked'
  BY <1>7, MarkedKept DEF RevokeDownloads
<1>8. ASSUME NEW g \in Gets, BeginGet(g) \/ RecordFails(g) PROVE Marked'
  BY <1>8, MarkedKept DEF BeginGet, RecordFails
<1>9. CASE UNCHANGED vars
  BY <1>9, MarkedKept DEF vars, downloads
<1> QED
  BY <1>1, <1>2, <1>3, <1>4, <1>5, <1>6, <1>7, <1>8, <1>9 DEF Next

(* However many first requests of a download session overlap, and however  *)
(* often recording fails, one event is recorded, with the mark.            *)
THEOREM SessionsOneStart == Spec => []OneStartPerSession
<1>1. Init => Marked
  BY DEF Init, Marked, OneStartPerSession
<1>2. Marked => OneStartPerSession
  BY DEF Marked
<1> QED
  BY <1>1, <1>2, MarkedStep, PTL DEF Spec

-----------------------------------------------------------------------------
(* The pool.                                                               *)

Assignments == UNION {[L -> Tasks \cup {Idle}] : L \in SUBSET Workers}

Pools ==
    [task : Assignments,
     queue : Seq(Tasks), timed : SUBSET Tasks, closed : BOOLEAN,
     answer : [Tasks -> {"none", "match", "refused"}], made : SUBSET Workers]

Held(p) == Waiting(p) \cup Running(p)

(* A call is in one place, and workers can be made as long as fewer live   *)
(* than may.                                                               *)
Sound(p) ==
    /\ p \in Pools
    /\ IsInjective(p.queue)
    /\ Live(p) \subseteq p.made
    /\ \A v, w \in Live(p) : p.task[v] = p.task[w] => p.task[v] = Idle \/ v = w
    /\ Waiting(p) \cap Running(p) = {}
    /\ Cardinality(Live(p)) <= Size
    /\ p.closed => p.queue = <<>> /\ Live(p) = {}
    /\ ~p.closed => Cardinality(Workers \ p.made) + Cardinality(Live(p)) >= Size

(* The parts of a pool, and what is counted.                               *)
LEMMA PoolFields ==
    ASSUME NEW p \in Pools
    PROVE  /\ p.queue \in Seq(Tasks) /\ p.timed \in SUBSET Tasks
           /\ p.closed \in BOOLEAN /\ p.made \in SUBSET Workers
           /\ p.answer \in [Tasks -> {"none", "match", "refused"}]
           /\ Live(p) \in SUBSET Workers
           /\ p.task \in [Live(p) -> Tasks \cup {Idle}]
           /\ Waiting(p) \subseteq Tasks /\ Running(p) \subseteq Tasks
           /\ Cardinality(Live(p)) \in Nat /\ IsFiniteSet(Live(p))
           /\ Cardinality(Workers \ p.made) \in Nat
           /\ Len(p.queue) \in Nat
<1>1. /\ p.queue \in Seq(Tasks) /\ p.timed \in SUBSET Tasks
      /\ p.closed \in BOOLEAN /\ p.made \in SUBSET Workers
      /\ p.answer \in [Tasks -> {"none", "match", "refused"}]
  BY DEF Pools
<1>2. PICK L \in SUBSET Workers : p.task \in [L -> Tasks \cup {Idle}]
  BY DEF Pools, Assignments
<1>3. Live(p) = L
  BY <1>2 DEF Live
<1>4. Waiting(p) \subseteq Tasks /\ Running(p) \subseteq Tasks
  <2>1. Waiting(p) \subseteq Tasks
    BY <1>1, LenProperties DEF Waiting, ToSet
  <2>2. Running(p) \subseteq Tasks
    BY <1>2, <1>3 DEF Running
  <2> QED
    BY <2>1, <2>2
<1>5. IsFiniteSet(L) /\ IsFiniteSet(Workers \ p.made)
  BY HasherAssumption, FS_Subset
<1>6. Cardinality(L) \in Nat /\ Cardinality(Workers \ p.made) \in Nat
  BY <1>5, FS_CardinalityType
<1> QED
  BY <1>1, <1>2, <1>3, <1>4, <1>5, <1>6, LenProperties

(* A worker is free or can be made.                                        *)
LEMMA PoolSlot ==
    ASSUME NEW p, Sound(p), ~p.closed, HasSlot(p)
    PROVE  LET h == WithSlot(p)
           IN  /\ Sound(h) /\ \E w \in Live(h) : h.task[w] = Idle
               /\ Running(h) = Running(p)
               /\ h.queue = p.queue /\ h.timed = p.timed
               /\ h.closed = p.closed /\ h.answer = p.answer
<1>0. /\ p \in Pools /\ Size \in Nat
      /\ Live(p) \in SUBSET Workers /\ p.made \in SUBSET Workers
      /\ p.task \in [Live(p) -> Tasks \cup {Idle}]
      /\ IsFiniteSet(Live(p)) /\ Cardinality(Live(p)) \in Nat
      /\ Cardinality(Workers \ p.made) \in Nat
      /\ Live(p) \subseteq p.made
      /\ Cardinality(Workers \ p.made) + Cardinality(Live(p)) >= Size
  BY PoolFields, HasherAssumption DEF Sound
<1>1. CASE \E w \in Live(p) : p.task[w] = Idle
  BY <1>1 DEF WithSlot
<1>2. CASE ~\E w \in Live(p) : p.task[w] = Idle
  <2> DEFINE w == CHOOSE w \in Workers : w \notin p.made
             h == WithSlot(p)
             f == [v \in Live(p) \cup {w} |-> IF v = w THEN Idle ELSE p.task[v]]
  <2>1. Cardinality(Live(p)) < Size
    BY <1>2 DEF HasSlot
  <2>2. w \in Workers \ p.made
    <3>1. Workers \ p.made # {}
      BY <1>0, <2>1, FS_EmptySet
    <3> QED
      BY <3>1
  <2> HIDE DEF w
  <2>3. h = [p EXCEPT !.made = p.made \cup {w}, !.task = f]
    BY <1>0, <1>2 DEF WithSlot, w, Pools
  <2>4. DOMAIN f = Live(p) \cup {w} /\ f \in Assignments
    <3>1. f \in [Live(p) \cup {w} -> Tasks \cup {Idle}]
      BY <1>0
    <3>2. Live(p) \cup {w} \in SUBSET Workers
      BY <1>0, <2>2
    <3> QED
      BY <3>1, <3>2 DEF Assignments
  <2> HIDE DEF h, f
  <2>5. /\ h \in Pools
        /\ h.made = p.made \cup {w} /\ h.task = f
        /\ h.queue = p.queue /\ h.timed = p.timed
        /\ h.closed = p.closed /\ h.answer = p.answer
    BY <1>0, <2>2, <2>3, <2>4 DEF Pools
  <2>6. Live(h) = Live(p) \cup {w} /\ w \notin Live(p)
    BY <1>0, <2>2, <2>4, <2>5 DEF Live
  <2>7. h.task[w] = Idle /\ \A v \in Live(p) : h.task[v] = p.task[v]
    BY <1>0, <2>2, <2>5, <2>6 DEF f
  <2>8. Running(h) = Running(p)
    BY <2>6, <2>7 DEF Running
  <2>9. /\ Cardinality(Live(h)) = Cardinality(Live(p)) + 1
        /\ Cardinality(Workers \ h.made) = Cardinality(Workers \ p.made) - 1
    <3>1. Cardinality(Live(h)) = Cardinality(Live(p)) + 1
      BY <1>0, <2>6, FS_AddElement
    <3> DEFINE S == Workers \ p.made
    <3>2. IsFiniteSet(S) /\ w \in S /\ Workers \ h.made = S \ {w}
      BY <2>2, <2>5, HasherAssumption, FS_Subset
    <3> HIDE DEF S
    <3>3. Cardinality(S \ {w}) = Cardinality(S) - 1
      BY <3>2, FS_RemoveElement
    <3> QED
      BY <3>1, <3>2, <3>3 DEF S
  <2>10. Sound(h)
    <3>1. \A u, v \in Live(h) : h.task[u] = h.task[v] => h.task[u] = Idle \/ u = v
      BY <2>6, <2>7 DEF Sound
    <3>2. Waiting(h) \cap Running(h) = {}
      BY <2>5, <2>8 DEF Sound, Waiting
    <3>3. /\ Cardinality(Live(h)) <= Size
          /\ Cardinality(Workers \ h.made) + Cardinality(Live(h)) >= Size
      BY <1>0, <2>1, <2>9
    <3> QED
      BY <2>5, <2>6, <3>1, <3>2, <3>3 DEF Sound
  <2> QED
    BY <2>5, <2>6, <2>7, <2>8, <2>10 DEF h
<1> QED
  BY <1>1, <1>2

(* The one who waits longest is given to the free worker.                  *)
LEMMA PoolStarts ==
    ASSUME NEW p, Sound(p), ~p.closed, HasSlot(p), p.queue # <<>>
    PROVE  LET h == StartHead(p)
               t == Head(p.queue)
           IN  /\ Sound(h) /\ h.queue = Tail(p.queue)
               /\ t \in Waiting(p) /\ Waiting(h) = Waiting(p) \ {t}
               /\ Running(h) = Running(p) \cup {t}
               /\ h.timed = p.timed \ {t}
               /\ h.closed = p.closed /\ h.answer = p.answer
<1> DEFINE q == WithSlot(p)
           w == CHOOSE w \in Live(q) : q.task[w] = Idle
           t == Head(p.queue)
           h == StartHead(p)
<1>1. /\ Sound(q) /\ \E v \in Live(q) : q.task[v] = Idle
      /\ Running(q) = Running(p)
      /\ q.queue = p.queue /\ q.timed = p.timed
      /\ q.closed = p.closed /\ q.answer = p.answer
  BY PoolSlot
<1>2. h = [q EXCEPT !.task[w] = t, !.queue = Tail(@), !.timed = @ \ {t}]
  BY <1>1 DEF StartHead
<1> HIDE DEF q, h
<1>3. w \in Live(q) /\ q.task[w] = Idle
  BY <1>1
<1> HIDE DEF w
<1>4. /\ p.queue \in Seq(Tasks) /\ IsInjective(p.queue)
      /\ q \in Pools
      /\ Live(q) \in SUBSET Workers /\ q.made \in SUBSET Workers
      /\ q.task \in [Live(q) -> Tasks \cup {Idle}]
      /\ Len(p.queue) \in Nat /\ Len(p.queue) > 0
  BY <1>1, PoolFields, EmptySeq, LenProperties DEF Sound
<1>5. /\ t \in Tasks /\ t # Idle /\ t \in Waiting(p)
      /\ Tail(p.queue) \in Seq(Tasks) /\ IsInjective(Tail(p.queue))
      /\ ToSet(Tail(p.queue)) = Waiting(p) \ {t}
  BY <1>4, Headed, HasherAssumption DEF Waiting
<1>6. /\ h \in Pools
      /\ h.task = [q.task EXCEPT ![w] = t] /\ h.made = q.made
      /\ h.queue = Tail(p.queue) /\ h.timed = p.timed \ {t}
      /\ h.closed = p.closed /\ h.answer = p.answer
  <2>1. h = [q EXCEPT !.task = [q.task EXCEPT ![w] = t],
                      !.queue = Tail(p.queue), !.timed = p.timed \ {t}]
    BY <1>1, <1>2, <1>4 DEF Pools
  <2>2. [q.task EXCEPT ![w] = t] \in Assignments
    <3>1. [q.task EXCEPT ![w] = t] \in [Live(q) -> Tasks \cup {Idle}]
      BY <1>4, <1>5
    <3> QED
      BY <1>4, <3>1 DEF Assignments
  <2>3. q.timed \in SUBSET Tasks
    BY <1>4, PoolFields
  <2> QED
    BY <1>1, <1>4, <1>5, <2>1, <2>2, <2>3 DEF Pools
<1>7. /\ Live(h) = Live(q) /\ h.task[w] = t
      /\ \A v \in Live(q) : v # w => h.task[v] = q.task[v]
  BY <1>3, <1>4, <1>6 DEF Live
<1>8. Running(h) = Running(p) \cup {t}
  <2>1. Running(h) = Running(q) \cup {t}
    BY <1>3, <1>5, <1>7 DEF Running
  <2> QED
    BY <1>1, <2>1
<1>9. Waiting(h) = Waiting(p) \ {t}
  BY <1>5, <1>6 DEF Waiting
<1>10. Sound(h)
  <2>1. t \notin Running(q)
    BY <1>1, <1>5 DEF Sound, Waiting
  <2>2. \A v \in Live(q) : q.task[v] # t
    BY <1>5, <2>1 DEF Running
  <2>3. \A u, v \in Live(h) : h.task[u] = h.task[v] => h.task[u] = Idle \/ u = v
    BY <1>1, <1>7, <2>2 DEF Sound
  <2>4. Waiting(h) \cap Running(h) = {}
    BY <1>8, <1>9 DEF Sound
  <2> QED
    BY <1>1, <1>5, <1>6, <1>7, <2>3, <2>4 DEF Sound
<1> QED
  BY <1>5, <1>6, <1>8, <1>9, <1>10 DEF h

(* One turn of the pump, and what the turns compute, place by place.       *)
PumpOnce(p) == IF ~p.closed /\ HasSlot(p) THEN StartHead(p) ELSE p

PumpAt(p, it, D) ==
    IF D = {} THEN p ELSE PumpOnce(it[D \ {Max(D)}])

(* The definition of FoldLeft, for the pump: each place is computed from   *)
(* the places before it.                                                   *)
LEMMA Pumping ==
    ASSUME NEW p, NEW n \in Nat
    PROVE  \E it : it = [D \in SUBSET (1 .. n) |-> PumpAt(p, it, D)]
<1> DEFINE S == {m \in Nat :
                   \E it : it = [D \in SUBSET (1 .. m) |-> PumpAt(p, it, D)]}
<1>1. 0 \in S
  <2> DEFINE it == [D \in SUBSET (1 .. 0) |-> p]
  <2>1. it = [D \in SUBSET (1 .. 0) |-> PumpAt(p, it, D)]
    BY DEF PumpAt
  <2> QED
    BY <2>1
<1>2. ASSUME NEW m \in Nat, m \in S PROVE m + 1 \in S
  <2>1. PICK it : it = [D \in SUBSET (1 .. m) |-> PumpAt(p, it, D)]
    BY <1>2
  <2> DEFINE P(D) == D \ {m + 1}
             jt == [D \in SUBSET (1 .. m + 1) |->
                       IF m + 1 \in D THEN PumpOnce(it[P(D)]) ELSE it[D]]
  <2>2. \A D \in SUBSET (1 .. m + 1) :
           P(D) \in SUBSET (1 .. m) /\ (m + 1 \notin D => D \in SUBSET (1 .. m))
    OBVIOUS
  <2>3. ASSUME NEW D \in SUBSET (1 .. m + 1), m + 1 \in D PROVE Max(D) = m + 1
    BY <2>3, Greatest
  <2>4. ASSUME NEW D \in SUBSET (1 .. m + 1)
        PROVE  jt[D] = PumpAt(p, jt, D)
    <3>1. CASE m + 1 \in D
      <4>1. jt[P(D)] = it[P(D)]
        BY <2>2
      <4> QED
        BY <2>3, <3>1, <4>1 DEF PumpAt
    <3>2. CASE m + 1 \notin D
      <4>1. it[D] = PumpAt(p, it, D)
        BY <2>1, <2>2, <3>2
      <4>2. D # {} => jt[D \ {Max(D)}] = it[D \ {Max(D)}]
        BY <2>2, <3>2
      <4> QED
        BY <3>2, <4>1, <4>2 DEF PumpAt
    <3> QED
      BY <3>1, <3>2
  <2>5. jt = [D \in SUBSET (1 .. m + 1) |-> PumpAt(p, jt, D)]
    BY <2>4
  <2> HIDE DEF jt
  <2>6. \E kt : kt = [D \in SUBSET (1 .. m + 1) |-> PumpAt(p, kt, D)]
    BY <2>5
  <2> QED
    BY <2>6
<1> HIDE DEF S
<1>3. n \in S
  BY <1>1, <1>2, Inductive
<1> QED
  BY <1>3 DEF S

(* The pump, place by place of the queue.                                  *)
LEMMA Pumped ==
    ASSUME NEW p, NEW n \in Nat, DOMAIN p.queue = 1 .. n
    PROVE  \E tr : /\ tr[0] = p /\ tr[n] = Pump(p)
                   /\ \A i \in 1 .. n : tr[i] = PumpOnce(tr[i - 1])
<1> DEFINE it == CHOOSE it : it = [D \in SUBSET (1 .. n) |-> PumpAt(p, it, D)]
           tr == [i \in 0 .. n |-> it[1 .. i]]
<1>1. it = [D \in SUBSET (1 .. n) |-> PumpAt(p, it, D)]
  BY Pumping
<1>2. Pump(p) = it[1 .. n]
  BY DEF Pump, FoldLeft, MapThenFoldSet, PumpAt, PumpOnce
<1> HIDE DEF it
<1>3. \A i \in 1 .. n : tr[i] = PumpOnce(tr[i - 1])
  <2> TAKE i \in 1 .. n
  <2>1. /\ 1 .. i \in SUBSET (1 .. n) /\ i - 1 \in 0 .. n /\ i \in 0 .. n
        /\ i \in 1 .. i /\ \A k \in 1 .. i : k <= i
        /\ 1 .. i \in SUBSET Nat
    OBVIOUS
  <2>2. Max(1 .. i) = i
    BY <2>1, Greatest
  <2>3. (1 .. i) \ {i} = 1 .. (i - 1) /\ 1 .. i # {}
    OBVIOUS
  <2>4. it[1 .. i] = PumpAt(p, it, 1 .. i)
    BY <1>1, <2>1
  <2>5. PumpAt(p, it, 1 .. i) = PumpOnce(it[1 .. (i - 1)])
    BY <2>2, <2>3 DEF PumpAt
  <2>6. tr[i] = it[1 .. i] /\ tr[i - 1] = it[1 .. (i - 1)]
    BY <2>1
  <2> QED
    BY <2>4, <2>5, <2>6
<1>4. tr[0] = p
  <2>1. it[{}] = p /\ 1 .. 0 = {}
    BY <1>1 DEF PumpAt
  <2>2. tr[0] = it[1 .. 0]
    OBVIOUS
  <2> QED
    BY <2>1, <2>2
<1>5. tr[n] = Pump(p)
  BY <1>2
<1> HIDE DEF tr
<1> QED
  BY <1>3, <1>4, <1>5

(* Every call is still held after the pump, by a worker or in the queue,   *)
(* and the queue is empty or no worker can take its head.                  *)
LEMMA PoolPumps ==
    ASSUME NEW p, Sound(p), Waiting(p) = p.timed
    PROVE  LET h == Pump(p)
           IN  /\ Sound(h) /\ Waiting(h) = h.timed
               /\ h.queue # <<>> => ~HasSlot(h)
               /\ Len(h.queue) <= Len(p.queue)
               /\ Held(h) = Held(p) /\ h.answer = p.answer
<1> DEFINE n == Len(p.queue)
<1>1. n \in Nat /\ DOMAIN p.queue = 1 .. n
  BY PoolFields, LenProperties DEF Sound
<1> HIDE DEF n
<1>0. \A m \in Nat : DOMAIN p.queue = 1 .. m =>
         \E tr : /\ tr[0] = p /\ tr[m] = Pump(p)
                 /\ \A i \in 1 .. m : tr[i] = PumpOnce(tr[i - 1])
  BY Pumped
<1>2. PICK tr : /\ tr[0] = p /\ tr[n] = Pump(p)
                /\ \A i \in 1 .. n : tr[i] = PumpOnce(tr[i - 1])
  BY <1>0, <1>1
<1> DEFINE Good(q, i) ==
             /\ Sound(q) /\ Waiting(q) = q.timed
             /\ Held(q) = Held(p) /\ q.answer = p.answer
             /\ Len(q.queue) <= n
             /\ Len(q.queue) = n - i \/ q.closed \/ ~HasSlot(q)
           S == {i \in Nat : i <= n => Good(tr[i], i)}
<1>3. 0 \in S
  <2>1. Good(p, 0)
    BY <1>1 DEF n
  <2> QED
    BY <1>2, <2>1
<1>4. ASSUME NEW i \in Nat, i \in S PROVE i + 1 \in S
  <2> SUFFICES ASSUME i + 1 <= n PROVE Good(tr[i + 1], i + 1)
    OBVIOUS
  <2> DEFINE q == tr[i]
  <2>1. Good(q, i) /\ i + 1 <= n
    <3>1. i <= n => Good(tr[i], i)
      BY <1>4
    <3>2. n \in Nat
      BY <1>1
    <3> HIDE DEF Good
    <3>3. i <= n
      BY <3>2
    <3> QED
      BY <3>1, <3>3
  <2>2. tr[i + 1] = PumpOnce(q)
    <3>1. n \in Nat
      BY <1>1
    <3> HIDE DEF Good, q, S
    <3>2. i + 1 \in 1 .. n /\ (i + 1) - 1 = i
      BY <3>1
    <3> QED
      BY <1>2, <3>2 DEF q
  <2> HIDE DEF q
  <2>3. CASE ~(~q.closed /\ HasSlot(q))
    BY <2>1, <2>2, <2>3 DEF PumpOnce
  <2>4. CASE ~q.closed /\ HasSlot(q)
    <3> DEFINE h == StartHead(q)
    <3>1. tr[i + 1] = h
      BY <2>2, <2>4 DEF PumpOnce
    <3>2. /\ Len(q.queue) = n - i /\ Len(q.queue) > 0 /\ q.queue # <<>>
          /\ q.queue \in Seq(Tasks) /\ IsInjective(q.queue)
      BY <1>1, <2>1, <2>4, PoolFields, EmptySeq DEF Sound
    <3>3. /\ Sound(h) /\ h.queue = Tail(q.queue)
          /\ Head(q.queue) \in Waiting(q)
          /\ Waiting(h) = Waiting(q) \ {Head(q.queue)}
          /\ Running(h) = Running(q) \cup {Head(q.queue)}
          /\ h.timed = q.timed \ {Head(q.queue)}
          /\ h.answer = q.answer
      BY <2>1, <2>4, <3>2, PoolStarts
    <3> HIDE DEF h
    <3>4. Len(h.queue) = n - (i + 1) /\ Len(h.queue) <= n
      <4>1. Len(h.queue) = Len(q.queue) - 1
        BY <3>2, <3>3, Headed
      <4> QED
        BY <1>1, <3>2, <4>1
    <3>5. Held(h) = Held(p) /\ Waiting(h) = h.timed
      BY <2>1, <3>3 DEF Held
    <3> QED
      BY <2>1, <3>1, <3>3, <3>4, <3>5
  <2> QED
    BY <2>3, <2>4
<1> HIDE DEF S
<1>5. n \in S
  BY <1>1, <1>3, <1>4, Inductive
<1>6. Good(Pump(p), n)
  BY <1>1, <1>2, <1>5 DEF S
<1>7. Pump(p).queue # <<>> => ~HasSlot(Pump(p))
  <2>1. CASE Len(Pump(p).queue) = n - n
    <3>1. Len(Pump(p).queue) = 0
      <4>1. n \in Nat
        BY <1>1
      <4> QED
        BY <2>1, <4>1
    <3>2. Pump(p).queue \in Seq(Tasks)
      BY <1>6, PoolFields DEF Sound
    <3> QED
      BY <3>1, <3>2, EmptySeq
  <2>2. CASE Pump(p).closed
    BY <1>6, <2>2 DEF Sound
  <2> QED
    BY <1>6, <2>1, <2>2
<1> QED
  BY <1>6, <1>7 DEF n

(* Promises are settled: no call moves.                                    *)
LEMMA PoolSettles ==
    ASSUME NEW p, Sound(p), NEW ts, NEW a \in {"none", "match", "refused"}
    PROVE  LET h == Settle(p, ts, a)
           IN  /\ Sound(h) /\ h.queue = p.queue /\ h.timed = p.timed
               /\ h.closed = p.closed /\ h.made = p.made /\ h.task = p.task
               /\ Live(h) = Live(p) /\ Waiting(h) = Waiting(p)
               /\ Running(h) = Running(p) /\ (HasSlot(h) <=> HasSlot(p))
               /\ \A t \in Tasks : h.answer[t] = IF t \in ts THEN a ELSE p.answer[t]
<1> DEFINE f == [t \in Tasks |-> IF t \in ts THEN a ELSE p.answer[t]]
           h == Settle(p, ts, a)
<1>1. p \in Pools /\ f \in [Tasks -> {"none", "match", "refused"}]
  BY PoolFields DEF Sound
<1>2. h = [p EXCEPT !.answer = f]
  BY <1>1 DEF Settle, Pools
<1>3. \A t \in Tasks : f[t] = IF t \in ts THEN a ELSE p.answer[t]
  OBVIOUS
<1> HIDE DEF f, h
<1>4. /\ h \in Pools /\ h.answer = f
      /\ h.queue = p.queue /\ h.timed = p.timed
      /\ h.closed = p.closed /\ h.made = p.made /\ h.task = p.task
  BY <1>1, <1>2 DEF Pools
<1>5. /\ Live(h) = Live(p) /\ Waiting(h) = Waiting(p)
      /\ Running(h) = Running(p) /\ (HasSlot(h) <=> HasSlot(p))
  BY <1>4 DEF Live, Waiting, Running, HasSlot
<1>6. Sound(h)
  BY <1>4, <1>5 DEF Sound
<1> QED
  BY <1>3, <1>4, <1>5, <1>6 DEF h

(* A call is refused, waits, or has a worker at once.                      *)
LEMMA PoolSubmits ==
    ASSUME NEW p, Sound(p), Used(p), NEW t \in Tasks, t \notin Held(p)
    PROVE  LET h == Submit(p, t)
           IN  /\ Sound(h) /\ Used(h)
               /\ \/ /\ Held(h) = Held(p)
                     /\ \A u \in Tasks :
                           h.answer[u] = IF u = t THEN "refused" ELSE p.answer[u]
                  \/ Held(h) = Held(p) \cup {t} /\ h.answer = p.answer
<1>0. /\ p \in Pools /\ p.queue \in Seq(Tasks) /\ IsInjective(p.queue)
      /\ p.timed \in SUBSET Tasks /\ Len(p.queue) \in Nat /\ MaxQueue \in Nat
      /\ t \notin Waiting(p) /\ t \notin Running(p)
  BY PoolFields, HasherAssumption DEF Sound, Held
<1>1. CASE p.closed \/ (~HasSlot(p) /\ Len(p.queue) >= MaxQueue)
  <2> DEFINE h == Settle(p, {t}, "refused")
  <2>1. Submit(p, t) = h
    BY <1>1 DEF Submit
  <2>2. /\ Sound(h) /\ h.queue = p.queue /\ h.timed = p.timed
        /\ Live(h) = Live(p) /\ Waiting(h) = Waiting(p)
        /\ Running(h) = Running(p) /\ (HasSlot(h) <=> HasSlot(p))
        /\ \A u \in Tasks : h.answer[u] = IF u \in {t} THEN "refused" ELSE p.answer[u]
    BY PoolSettles
  <2> HIDE DEF h
  <2>3. Used(h) /\ Held(h) = Held(p)
    BY <2>2 DEF Used, Held
  <2> QED
    BY <2>1, <2>2, <2>3
<1>2. CASE ~p.closed /\ ~HasSlot(p) /\ Len(p.queue) < MaxQueue
  <2> DEFINE h == [p EXCEPT !.queue = Append(p.queue, t), !.timed = p.timed \cup {t}]
  <2>1. Submit(p, t) = Pump(h)
    BY <1>0, <1>2 DEF Submit, Pools
  <2>2. /\ Append(p.queue, t) \in Seq(Tasks) /\ IsInjective(Append(p.queue, t))
        /\ ToSet(Append(p.queue, t)) = ToSet(p.queue) \cup {t}
        /\ Len(Append(p.queue, t)) = Len(p.queue) + 1
    BY <1>0, Appended DEF Waiting
  <2>3. /\ h \in Pools
        /\ h.queue = Append(p.queue, t) /\ h.timed = p.timed \cup {t}
        /\ h.task = p.task /\ h.made = p.made /\ h.closed = p.closed
        /\ h.answer = p.answer
    BY <1>0, <2>2 DEF Pools
  <2> HIDE DEF h
  <2>4. /\ Live(h) = Live(p) /\ Running(h) = Running(p)
        /\ Waiting(h) = Waiting(p) \cup {t}
    BY <2>2, <2>3 DEF Live, Running, Waiting
  <2>5. Sound(h)
    <3>1. Waiting(h) \cap Running(h) = {}
      BY <1>0, <2>4 DEF Sound
    <3> QED
      BY <1>2, <2>2, <2>3, <2>4, <3>1 DEF Sound
  <2>6. Waiting(h) = h.timed /\ Len(h.queue) <= MaxQueue
    BY <1>0, <1>2, <2>2, <2>3, <2>4 DEF Used
  <2> DEFINE q == Pump(h)
  <2>7. /\ Sound(q) /\ Waiting(q) = q.timed
        /\ q.queue # <<>> => ~HasSlot(q)
        /\ Len(q.queue) <= Len(h.queue)
        /\ Held(q) = Held(h) /\ q.answer = h.answer
    BY <2>5, <2>6, PoolPumps
  <2> HIDE DEF q
  <2>8. Used(q)
    <3>1. Cardinality(Live(q)) <= Size
      BY <2>7 DEF Sound
    <3>2. Len(q.queue) \in Nat /\ Len(h.queue) \in Nat
      BY <2>5, <2>7, PoolFields DEF Sound
    <3> QED
      BY <1>0, <2>6, <2>7, <3>1, <3>2 DEF Used
  <2>9. Held(q) = Held(p) \cup {t}
    BY <2>4, <2>7 DEF Held
  <2> QED
    BY <2>1, <2>3, <2>7, <2>8, <2>9 DEF q
<1>3. CASE ~p.closed /\ HasSlot(p)
  <2> DEFINE s == WithSlot(p)
             h == [s EXCEPT !.queue = Append(s.queue, t), !.timed = s.timed]
  <2>1. /\ Sound(s) /\ \E w \in Live(s) : s.task[w] = Idle
        /\ Running(s) = Running(p)
        /\ s.queue = p.queue /\ s.timed = p.timed
        /\ s.closed = p.closed /\ s.answer = p.answer
    BY <1>3, PoolSlot
  <2>2. p.queue = <<>> /\ Waiting(p) = {} /\ p.timed = {}
    BY <1>3 DEF Used, Waiting, ToSet
  <2>3. Submit(p, t) = Pump(h)
    BY <1>3, <2>1 DEF Submit
  <2> HIDE DEF s
  <2>4. s \in Pools /\ s.timed \in SUBSET Tasks /\ s.queue = <<>>
    BY <2>1, <2>2, PoolFields DEF Sound
  <2>5. /\ h \in Pools
        /\ h.queue = <<t>> /\ h.timed = {}
        /\ h.task = s.task /\ h.made = s.made /\ h.closed = s.closed
        /\ h.answer = s.answer
    <3>1. Append(s.queue, t) = <<t>> /\ <<t>> \in Seq(Tasks) /\ s.timed = {}
      BY <2>1, <2>2, <2>4
    <3>2. h = [s EXCEPT !.queue = <<t>>, !.timed = {}]
      BY <3>1
    <3> HIDE DEF h
    <3> QED
      BY <2>4, <3>1, <3>2 DEF Pools
  <2> HIDE DEF h
  <2>6. /\ Live(h) = Live(s) /\ Running(h) = Running(p)
        /\ Waiting(h) = {t} /\ Head(h.queue) = t /\ h.queue # <<>>
        /\ DOMAIN h.queue = 1 .. 1 /\ IsInjective(h.queue) /\ Tail(h.queue) = <<>>
    BY <2>1, <2>5 DEF Live, Running, Waiting, ToSet, IsInjective
  <2>7. Sound(h) /\ HasSlot(h) /\ ~h.closed
    <3>1. Waiting(h) \cap Running(h) = {}
      BY <1>0, <2>6
    <3> QED
      BY <1>3, <2>1, <2>5, <2>6, <3>1 DEF Sound, HasSlot
  <2> DEFINE q == StartHead(h)
  <2>8. Pump(h) = q
    <3>1. \A m \in Nat : DOMAIN h.queue = 1 .. m =>
             \E tr : /\ tr[0] = h /\ tr[m] = Pump(h)
                     /\ \A i \in 1 .. m : tr[i] = PumpOnce(tr[i - 1])
      BY Pumped
    <3>2. PICK tr : /\ tr[0] = h /\ tr[1] = Pump(h)
                    /\ \A i \in 1 .. 1 : tr[i] = PumpOnce(tr[i - 1])
      BY <2>6, <3>1
    <3>3. tr[1] = PumpOnce(h)
      <4>1. tr[1] = PumpOnce(tr[1 - 1]) /\ 1 - 1 = 0
        BY <3>2
      <4> QED
        BY <3>2, <4>1
    <3> QED
      BY <2>7, <3>2, <3>3 DEF PumpOnce
  <2>9. /\ Sound(q) /\ q.queue = <<>> /\ Waiting(q) = {} /\ q.timed = {}
        /\ Running(q) = Running(p) \cup {t} /\ q.answer = p.answer
    <3>1. /\ Sound(q) /\ q.queue = Tail(h.queue)
          /\ Waiting(q) = Waiting(h) \ {Head(h.queue)}
          /\ Running(q) = Running(h) \cup {Head(h.queue)}
          /\ q.timed = h.timed \ {Head(h.queue)}
          /\ q.answer = h.answer
      BY <2>6, <2>7, PoolStarts
    <3> HIDE DEF q
    <3> QED
      BY <2>1, <2>5, <2>6, <3>1
  <2> HIDE DEF q
  <2>10. Used(q) /\ Held(q) = Held(p) \cup {t}
    <3>1. Cardinality(Live(q)) <= Size /\ Len(q.queue) = 0
      BY <2>9 DEF Sound
    <3> QED
      BY <1>0, <2>2, <2>9, <3>1 DEF Used, Held
  <2> QED
    BY <2>3, <2>8, <2>9, <2>10
<1> QED
  BY <1>0, <1>1, <1>2, <1>3 DEF Sound, Pools

(* What an event of the pool does to the calls: some that were held are    *)
(* answered, and only they.                                                *)
Settled(p, h, ts, a) ==
    /\ Held(h) = Held(p) \ ts
    /\ \A t \in Tasks : h.answer[t] = IF t \in ts THEN a ELSE p.answer[t]

(* A waiting call is settled by its timer, and is held no longer.          *)
LEMMA PoolTimesOut ==
    ASSUME NEW p, Sound(p), Used(p), NEW t \in p.timed
    PROVE  LET h == TimedOut(p, t)
           IN  /\ Sound(h) /\ Used(h) /\ Settled(p, h, {t}, "refused")
<1> DEFINE q == [p EXCEPT !.queue = RemoveFirst(p.queue, t), !.timed = p.timed \ {t}]
<1>0. /\ p \in Pools /\ p.queue \in Seq(Tasks) /\ IsInjective(p.queue)
      /\ p.timed \in SUBSET Tasks /\ Len(p.queue) \in Nat /\ MaxQueue \in Nat
      /\ t \in ToSet(p.queue) /\ t \notin Running(p)
  BY PoolFields, HasherAssumption DEF Sound, Used, Waiting
<1>1. TimedOut(p, t) = Settle(q, {t}, "refused")
  BY <1>0 DEF TimedOut, Pools
<1>2. /\ RemoveFirst(p.queue, t) \in Seq(Tasks)
      /\ IsInjective(RemoveFirst(p.queue, t))
      /\ ToSet(RemoveFirst(p.queue, t)) = ToSet(p.queue) \ {t}
      /\ Len(RemoveFirst(p.queue, t)) = Len(p.queue) - 1
  BY <1>0, Removed
<1>3. /\ q \in Pools
      /\ q.queue = RemoveFirst(p.queue, t) /\ q.timed = p.timed \ {t}
      /\ q.task = p.task /\ q.made = p.made /\ q.closed = p.closed
      /\ q.answer = p.answer
  BY <1>0, <1>2 DEF Pools
<1> HIDE DEF q
<1>4. /\ Live(q) = Live(p) /\ Running(q) = Running(p)
      /\ Waiting(q) = Waiting(p) \ {t} /\ (HasSlot(q) <=> HasSlot(p))
  BY <1>2, <1>3 DEF Live, Running, Waiting, HasSlot
<1>5. ~p.closed /\ p.queue # <<>> /\ ~HasSlot(p)
  <2>1. p.queue # <<>>
    BY <1>0 DEF ToSet
  <2> QED
    BY <1>0, <2>1 DEF Sound, Used
<1>6. Sound(q)
  <2>1. Waiting(q) \cap Running(q) = {}
    BY <1>4 DEF Sound
  <2> QED
    BY <1>2, <1>3, <1>4, <1>5, <2>1 DEF Sound
<1> DEFINE h == Settle(q, {t}, "refused")
<1>7. /\ Sound(h) /\ h.queue = q.queue /\ h.timed = q.timed
      /\ Live(h) = Live(q) /\ Waiting(h) = Waiting(q)
      /\ Running(h) = Running(q) /\ (HasSlot(h) <=> HasSlot(q))
      /\ \A u \in Tasks : h.answer[u] = IF u \in {t} THEN "refused" ELSE q.answer[u]
  BY <1>6, PoolSettles
<1> HIDE DEF h
<1>8. Used(h)
  <2>1. Len(h.queue) <= MaxQueue /\ Cardinality(Live(h)) <= Size
    BY <1>0, <1>2, <1>3, <1>4, <1>7 DEF Used, Sound
  <2> QED
    BY <1>3, <1>4, <1>5, <1>7, <2>1 DEF Used
<1>9. Settled(p, h, {t}, "refused")
  BY <1>0, <1>3, <1>4, <1>7 DEF Settled, Held
<1> QED
  BY <1>1, <1>7, <1>8, <1>9 DEF h

(* A worker is free or gone, its call is settled, and the pump runs.       *)
LEMMA PoolResumes ==
    ASSUME NEW p, NEW q, Sound(q), Waiting(q) = q.timed, Len(q.queue) <= MaxQueue,
           NEW ts, NEW a \in {"match", "refused"},
           Held(q) = Held(p) \ ts, q.answer = p.answer
    PROVE  LET h == Pump(Settle(q, ts, a))
           IN  Sound(h) /\ Used(h) /\ Settled(p, h, ts, a)
<1> DEFINE s == Settle(q, ts, a)
           h == Pump(s)
<1>1. /\ Sound(s) /\ s.queue = q.queue /\ s.timed = q.timed
      /\ Waiting(s) = Waiting(q) /\ Running(s) = Running(q)
      /\ \A t \in Tasks : s.answer[t] = IF t \in ts THEN a ELSE q.answer[t]
  BY PoolSettles
<1> HIDE DEF s
<1>2. /\ Sound(h) /\ Waiting(h) = h.timed
      /\ h.queue # <<>> => ~HasSlot(h)
      /\ Len(h.queue) <= Len(s.queue)
      /\ Held(h) = Held(s) /\ h.answer = s.answer
  BY <1>1, PoolPumps
<1> HIDE DEF h
<1>3. Used(h)
  <2>1. /\ Len(h.queue) \in Nat /\ Len(q.queue) \in Nat /\ MaxQueue \in Nat
        /\ Cardinality(Live(h)) <= Size
    BY <1>2, PoolFields, HasherAssumption DEF Sound
  <2> QED
    BY <1>1, <1>2, <2>1 DEF Used
<1>4. Settled(p, h, ts, a)
  BY <1>1, <1>2 DEF Settled, Held
<1> QED
  BY <1>2, <1>3, <1>4 DEF h, s

(* The call a worker answers is settled; the others are still held.        *)
LEMMA PoolAnswers ==
    ASSUME NEW p, Sound(p), Used(p), NEW w \in Live(p), p.task[w] # Idle,
           NEW a \in {"match", "refused"}
    PROVE  LET h == Answered(p, w, a)
           IN  /\ Sound(h) /\ Used(h)
               /\ p.task[w] \in Held(p) /\ Settled(p, h, {p.task[w]}, a)
<1> DEFINE f == [p.task EXCEPT ![w] = Idle]
           q == [p EXCEPT !.task = f]
<1>0. /\ p \in Pools /\ Live(p) \in SUBSET Workers
      /\ p.task \in [Live(p) -> Tasks \cup {Idle}]
  BY PoolFields DEF Sound
<1>1. Answered(p, w, a) = Pump(Settle(q, {p.task[w]}, a))
  BY DEF Answered
<1>2. f \in Assignments
  <2>1. f \in [Live(p) -> Tasks \cup {Idle}]
    BY <1>0
  <2> QED
    BY <1>0, <2>1 DEF Assignments
<1>3. DOMAIN f = Live(p) /\ f[w] = Idle /\ \A v \in Live(p) : v # w => f[v] = p.task[v]
  BY <1>0
<1> HIDE DEF f
<1>4. /\ q \in Pools /\ q.task = f
      /\ q.queue = p.queue /\ q.timed = p.timed /\ q.made = p.made
      /\ q.closed = p.closed /\ q.answer = p.answer
  BY <1>0, <1>2 DEF Pools
<1> HIDE DEF q
<1>5. Live(q) = Live(p) /\ Waiting(q) = Waiting(p)
  BY <1>3, <1>4 DEF Live, Waiting
<1>6. p.task[w] \in Running(p) /\ Running(q) = Running(p) \ {p.task[w]}
  <2>1. \A v \in Live(p) : p.task[v] = p.task[w] => v = w
    BY DEF Sound
  <2>2. \A v \in Live(p) : q.task[v] = IF v = w THEN Idle ELSE p.task[v]
    BY <1>3, <1>4
  <2> QED
    BY <1>5, <2>1, <2>2 DEF Running
<1>7. Sound(q)
  <2>1. \A u, v \in Live(q) : q.task[u] = q.task[v] => q.task[u] = Idle \/ u = v
    BY <1>3, <1>4, <1>5 DEF Sound
  <2>2. Waiting(q) \cap Running(q) = {}
    BY <1>5, <1>6 DEF Sound
  <2> QED
    BY <1>4, <1>5, <2>1, <2>2 DEF Sound
<1>8. Held(q) = Held(p) \ {p.task[w]} /\ p.task[w] \in Held(p)
  BY <1>5, <1>6 DEF Held, Sound
<1>9. Waiting(q) = q.timed /\ Len(q.queue) <= MaxQueue
  BY <1>4, <1>5 DEF Used
<1> DEFINE c == p.task[w]
<1>10. Held(q) = Held(p) \ {c} /\ Answered(p, w, a) = Pump(Settle(q, {c}, a))
  BY <1>1, <1>8
<1>11. Sound(Pump(Settle(q, {c}, a))) /\ Used(Pump(Settle(q, {c}, a)))
       /\ Settled(p, Pump(Settle(q, {c}, a)), {c}, a)
  BY <1>4, <1>7, <1>9, <1>10, PoolResumes
<1> QED
  BY <1>8, <1>10, <1>11

(* A worker dies: its call, if it had one, is refused, and its place can   *)
(* be taken by a new worker.                                               *)
LEMMA PoolLoses ==
    ASSUME NEW p, Sound(p), Used(p), NEW w \in Live(p),
           Cardinality(Workers \ p.made) + Cardinality(Live(p)) > Size
    PROVE  LET h  == Lost(p, w)
               ts == {p.task[w]} \ {Idle}
           IN  /\ Sound(h) /\ Used(h)
               /\ ts \subseteq Held(p) /\ Settled(p, h, ts, "refused")
<1> DEFINE f == [v \in Live(p) \ {w} |-> p.task[v]]
           q == [p EXCEPT !.task = f]
           ts == {p.task[w]} \ {Idle}
<1>0. /\ p \in Pools /\ Live(p) \in SUBSET Workers /\ IsFiniteSet(Live(p))
      /\ p.task \in [Live(p) -> Tasks \cup {Idle}] /\ Size \in Nat
      /\ Cardinality(Live(p)) \in Nat /\ Cardinality(Workers \ p.made) \in Nat
  BY PoolFields, HasherAssumption DEF Sound
<1>1. Lost(p, w) = Pump(Settle(q, ts, "refused"))
  BY <1>0 DEF Lost, Pools
<1>2. f \in Assignments
  <2>1. f \in [Live(p) \ {w} -> Tasks \cup {Idle}] /\ Live(p) \ {w} \in SUBSET Workers
    BY <1>0
  <2> QED
    BY <2>1 DEF Assignments
<1>3. DOMAIN f = Live(p) \ {w} /\ \A v \in Live(p) : v # w => f[v] = p.task[v]
  OBVIOUS
<1> HIDE DEF f
<1>4. /\ q \in Pools /\ q.task = f
      /\ q.queue = p.queue /\ q.timed = p.timed /\ q.made = p.made
      /\ q.closed = p.closed /\ q.answer = p.answer
  BY <1>0, <1>2 DEF Pools
<1> HIDE DEF q
<1>5. Live(q) = Live(p) \ {w} /\ Waiting(q) = Waiting(p)
  BY <1>3, <1>4 DEF Live, Waiting
<1>6. /\ Cardinality(Live(q)) = Cardinality(Live(p)) - 1
      /\ ~p.closed
  <2>1. Cardinality(Live(q)) = Cardinality(Live(p)) - 1
    BY <1>0, <1>5, FS_RemoveElement
  <2>2. ~p.closed
    BY DEF Sound
  <2> QED
    BY <2>1, <2>2
<1>7. ts \subseteq Running(p) /\ Running(q) = Running(p) \ ts
  <2>1. \A v \in Live(p) : p.task[v] = p.task[w] => p.task[v] = Idle \/ v = w
    BY DEF Sound
  <2>2. \A v \in Live(q) : v \in Live(p) /\ v # w /\ q.task[v] = p.task[v]
    BY <1>3, <1>4, <1>5
  <2>3. ts \subseteq Running(p)
    BY DEF Running
  <2>4. Running(q) \subseteq Running(p) \ ts
    BY <2>1, <2>2 DEF Running
  <2>5. Running(p) \ ts \subseteq Running(q)
    BY <1>3, <1>4, <1>5 DEF Running
  <2> QED
    BY <2>3, <2>4, <2>5
<1>8. Sound(q)
  <2>1. \A u, v \in Live(q) : q.task[u] = q.task[v] => q.task[u] = Idle \/ u = v
    BY <1>3, <1>4, <1>5 DEF Sound
  <2>2. Waiting(q) \cap Running(q) = {}
    BY <1>5, <1>7 DEF Sound
  <2>3. /\ Cardinality(Live(q)) <= Size
        /\ Cardinality(Workers \ q.made) + Cardinality(Live(q)) >= Size
    <3>1. Cardinality(Live(p)) <= Size
      BY DEF Sound
    <3> QED
      BY <1>0, <1>4, <1>6, <3>1
  <2> QED
    BY <1>4, <1>5, <1>6, <2>1, <2>2, <2>3 DEF Sound
<1>9. Held(q) = Held(p) \ ts /\ ts \subseteq Held(p)
  BY <1>5, <1>7 DEF Held, Sound
<1>10. Waiting(q) = q.timed /\ Len(q.queue) <= MaxQueue
  BY <1>4, <1>5 DEF Used
<1> DEFINE c == ts
<1> HIDE DEF c
<1>11. Held(q) = Held(p) \ c /\ Lost(p, w) = Pump(Settle(q, c, "refused"))
  BY <1>1, <1>9 DEF c
<1>12. /\ Sound(Pump(Settle(q, c, "refused"))) /\ Used(Pump(Settle(q, c, "refused")))
       /\ Settled(p, Pump(Settle(q, c, "refused")), c, "refused")
  BY <1>4, <1>8, <1>10, <1>11, PoolResumes
<1> QED
  BY <1>9, <1>11, <1>12 DEF c

(* Every call that was held is refused, and none is held after.            *)
LEMMA PoolCloses ==
    ASSUME NEW p, Sound(p)
    PROVE  LET h == Closed(p)
           IN  Sound(h) /\ Used(h) /\ Settled(p, h, Held(p), "refused")
<1> DEFINE q == [p EXCEPT !.closed = TRUE, !.queue = <<>>, !.timed = {}, !.task = <<>>]
           ts == Held(p)
           h == Settle(q, ts, "refused")
<1>0. p \in Pools /\ Size \in Nat /\ MaxQueue \in Nat
  BY HasherAssumption DEF Sound
<1>1. Closed(p) = h
  BY DEF Closed, Held
<1>2. <<>> \in Assignments /\ DOMAIN <<>> = {} /\ <<>> \in Seq(Tasks)
  <2>1. \E L \in SUBSET Workers : <<>> \in [L -> Tasks \cup {Idle}]
    <3>1. {} \in SUBSET Workers /\ <<>> \in [{} -> Tasks \cup {Idle}]
      OBVIOUS
    <3> QED
      BY ONLY <3>1
  <2>2. <<>> \in Assignments
    BY <2>1, Zenon DEF Assignments
  <2> QED
    BY <2>2
<1>3. /\ q \in Pools /\ q.closed /\ q.queue = <<>> /\ q.timed = {}
      /\ q.task = <<>> /\ q.made = p.made /\ q.answer = p.answer
  BY <1>0, <1>2 DEF Pools
<1> HIDE DEF q, ts
<1>4. Live(q) = {} /\ Waiting(q) = {} /\ Running(q) = {} /\ Cardinality(Live(q)) = 0
  <2>1. Live(q) = {}
    BY <1>2, <1>3 DEF Live
  <2> QED
    BY <1>3, <2>1, FS_EmptySet DEF Waiting, ToSet, Running
<1>5. Sound(q)
  <2>1. IsInjective(q.queue)
    BY <1>3 DEF IsInjective
  <2> QED
    BY <1>0, <1>3, <1>4, <2>1 DEF Sound
<1>6. /\ Sound(h) /\ h.queue = q.queue /\ h.timed = q.timed
      /\ Live(h) = Live(q) /\ Waiting(h) = Waiting(q) /\ Running(h) = Running(q)
      /\ \A t \in Tasks : h.answer[t] = IF t \in ts THEN "refused" ELSE q.answer[t]
  BY <1>5, PoolSettles
<1> HIDE DEF h
<1>7. Used(h)
  <2>1. Len(h.queue) = 0
    BY <1>3, <1>6
  <2> QED
    BY <1>0, <1>3, <1>4, <1>6, <2>1 DEF Used
<1>8. Settled(p, h, ts, "refused")
  BY <1>3, <1>4, <1>6 DEF Settled, Held, ts
<1> QED
  BY <1>1, <1>6, <1>7, <1>8 DEF ts

(* The caller has taken its answer.                                        *)
LEMMA PoolForgets ==
    ASSUME NEW p, Sound(p), Used(p), NEW t \in Tasks
    PROVE  LET h == Taken(p, t)
           IN  /\ Sound(h) /\ Used(h) /\ Held(h) = Held(p)
               /\ \A u \in Tasks :
                     h.answer[u] = IF u = t THEN "none" ELSE p.answer[u]
<1> DEFINE h == Settle(p, {t}, "none")
<1>1. /\ Sound(h) /\ h.queue = p.queue /\ h.timed = p.timed
      /\ Live(h) = Live(p) /\ Waiting(h) = Waiting(p)
      /\ Running(h) = Running(p) /\ (HasSlot(h) <=> HasSlot(p))
      /\ \A u \in Tasks : h.answer[u] = IF u \in {t} THEN "none" ELSE p.answer[u]
  BY PoolSettles
<1> HIDE DEF h
<1> QED
  BY <1>1 DEF Taken, h, Used, Held

-----------------------------------------------------------------------------
(* Calls and logins.                                                       *)

PoolInv ==
    /\ pc \in [Tasks -> {"idle", "hashing", "done"}]
    /\ Sound(pool) /\ Used(pool)
    /\ \A t \in Tasks :
          pc[t] = "hashing" /\ pool.answer[t] = "none" <=> t \in Held(pool)
    /\ \A t \in Tasks : pc[t] # "hashing" => pool.answer[t] = "none"

(* At first nobody calls.                                                  *)
LEMMA PoolInit == Init => PoolInv
<1> SUFFICES ASSUME Init PROVE PoolInv
  OBVIOUS
<1> DEFINE p == EmptyPool
<1>1. /\ pool = p /\ pc = [t \in Tasks |-> "idle"]
      /\ Size \in Nat /\ MaxQueue \in Nat
  BY HasherAssumption DEF Init
<1>2. <<>> \in Assignments
  <2>1. \E L \in SUBSET Workers : <<>> \in [L -> Tasks \cup {Idle}]
    <3>1. {} \in SUBSET Workers /\ <<>> \in [{} -> Tasks \cup {Idle}]
      OBVIOUS
    <3> QED
      BY ONLY <3>1
  <2> QED
    BY <2>1, Zenon DEF Assignments
<1>3. /\ p \in Pools /\ p.queue = <<>> /\ p.timed = {} /\ ~p.closed
      /\ p.task = <<>> /\ p.made = {} /\ \A t \in Tasks : p.answer[t] = "none"
  BY <1>2 DEF EmptyPool, Pools
<1> HIDE DEF p
<1>4. Live(p) = {} /\ Waiting(p) = {} /\ Running(p) = {} /\ Len(p.queue) = 0
  <2>1. Live(p) = {}
    BY <1>3 DEF Live
  <2> QED
    BY <1>3, <2>1 DEF Waiting, ToSet, Running
<1>5. /\ Cardinality(Live(p)) = 0
      /\ Cardinality(Workers \ p.made) = Cardinality(Workers)
      /\ Cardinality(Workers) \in Nat /\ Cardinality(Workers) >= Size
  <2>1. Workers \ p.made = Workers
    BY <1>3
  <2> QED
    BY <1>4, <2>1, FS_EmptySet, FS_CardinalityType, HasherAssumption
<1>6. Sound(p)
  <2>1. IsInjective(p.queue)
    BY <1>3 DEF IsInjective
  <2>2. /\ Cardinality(Live(p)) <= Size
        /\ Cardinality(Workers \ p.made) + Cardinality(Live(p)) >= Size
    BY <1>1, <1>5
  <2> QED
    BY <1>3, <1>4, <2>1, <2>2 DEF Sound
<1>7. Used(p)
  BY <1>1, <1>3, <1>4, <1>5 DEF Used
<1> QED
  BY <1>1, <1>3, <1>4, <1>6, <1>7 DEF PoolInv, Held

(* What happens inside the pool: the calls it settles are those it lets go *)
(* of.                                                                     *)
LEMMA PoolEvent ==
    ASSUME PoolInv, UNCHANGED pc, Sound(pool'), Used(pool'),
           NEW ts \in SUBSET Held(pool), NEW a \in {"match", "refused"},
           Settled(pool, pool', ts, a)
    PROVE  PoolInv'
<1>1. \A t \in Tasks : pool'.answer[t] = IF t \in ts THEN a ELSE pool.answer[t]
  BY DEF Settled
<1>2. Held(pool') = Held(pool) \ ts
  BY DEF Settled
<1>3. Held(pool) \subseteq Tasks
  BY PoolFields DEF PoolInv, Sound, Held
<1> QED
  BY <1>1, <1>2, <1>3 DEF PoolInv

(* A login or a change of password submits its comparison.                 *)
LEMMA PoolBegin ==
    ASSUME PoolInv, NEW t \in Tasks, Begin(t)
    PROVE  PoolInv'
<1>1. /\ pc[t] = "idle" /\ t \notin Held(pool) /\ pool.answer[t] = "none"
      /\ pc \in [Tasks -> {"idle", "hashing", "done"}]
      /\ Sound(pool) /\ Used(pool)
  BY DEF PoolInv, Begin
<1>2. CASE pc' = [pc EXCEPT ![t] = "done"] /\ pool' = pool
  <2>1. \A u \in Tasks : pc'[u] = IF u = t THEN "done" ELSE pc[u]
    BY <1>1, <1>2
  <2>2. pc' \in [Tasks -> {"idle", "hashing", "done"}]
    BY <1>1, <1>2
  <2> QED
    BY <1>1, <1>2, <2>1, <2>2 DEF PoolInv
<1>3. CASE pc' = [pc EXCEPT ![t] = "hashing"] /\ pool' = Submit(pool, t)
  <2>1. \A u \in Tasks : pc'[u] = IF u = t THEN "hashing" ELSE pc[u]
    BY <1>1, <1>3
  <2>2. pc' \in [Tasks -> {"idle", "hashing", "done"}]
    BY <1>1, <1>3
  <2>3. /\ Sound(pool') /\ Used(pool')
        /\ \/ /\ Held(pool') = Held(pool)
              /\ \A u \in Tasks :
                    pool'.answer[u] = IF u = t THEN "refused" ELSE pool.answer[u]
           \/ Held(pool') = Held(pool) \cup {t} /\ pool'.answer = pool.answer
    BY <1>1, <1>3, PoolSubmits
  <2>4. \A u \in Tasks :
           /\ pc'[u] = "hashing" /\ pool'.answer[u] = "none" <=> u \in Held(pool')
           /\ pc'[u] # "hashing" => pool'.answer[u] = "none"
    BY <1>1, <2>1, <2>3 DEF PoolInv
  <2> QED
    BY <2>2, <2>3, <2>4 DEF PoolInv
<1> QED
  BY <1>2, <1>3 DEF Begin

(* A request goes on with the answer it was given.                         *)
LEMMA PoolAnswer ==
    ASSUME PoolInv, NEW t \in Tasks, Answer(t)
    PROVE  PoolInv'
<1>1. /\ pc[t] = "hashing" /\ pool.answer[t] # "none"
      /\ pc \in [Tasks -> {"idle", "hashing", "done"}]
      /\ pc' = [pc EXCEPT ![t] = "done"] /\ pool' = Taken(pool, t)
      /\ Sound(pool) /\ Used(pool)
  BY DEF PoolInv, Answer
<1>2. /\ pc' \in [Tasks -> {"idle", "hashing", "done"}]
      /\ \A u \in Tasks : pc'[u] = IF u = t THEN "done" ELSE pc[u]
  BY <1>1
<1>3. /\ Sound(pool') /\ Used(pool') /\ Held(pool') = Held(pool)
      /\ \A u \in Tasks : pool'.answer[u] = IF u = t THEN "none" ELSE pool.answer[u]
  BY <1>1, PoolForgets
<1>4. \A u \in Tasks :
         /\ pc'[u] = "hashing" /\ pool'.answer[u] = "none" <=> u \in Held(pool')
         /\ pc'[u] # "hashing" => pool'.answer[u] = "none"
  BY <1>1, <1>2, <1>3 DEF PoolInv
<1> QED
  BY <1>2, <1>3, <1>4 DEF PoolInv

(* Every step of the accounts and of the pool keeps the pool's invariant.  *)
LEMMA PoolStepKept == PoolInv /\ [Next]_vars => PoolInv'
<1> SUFFICES ASSUME PoolInv, [Next]_vars PROVE PoolInv'
  OBVIOUS
<1>0. Sound(pool) /\ Used(pool)
  BY DEF PoolInv
<1>1. ASSUME NEW t \in Tasks, WaitEnds(t) PROVE PoolInv'
  <2> DEFINE ts == {t}
             h == TimedOut(pool, t)
  <2>1. t \in pool.timed /\ pool' = h /\ pc' = pc
    BY <1>1 DEF WaitEnds, PoolStep
  <2>2. Sound(h) /\ Used(h) /\ Settled(pool, h, ts, "refused")
    BY <1>0, <2>1, PoolTimesOut
  <2>3. ts \in SUBSET Held(pool)
    BY <1>0, <2>1 DEF Used, Held
  <2> HIDE DEF h, ts
  <2> QED
    BY <2>1, <2>2, <2>3, PoolEvent
<1>2. ASSUME NEW w \in Workers, WorkerAnswers(w) PROVE PoolInv'
  <2>1. PICK a \in {"match", "refused"} :
           w \in Live(pool) /\ pool.task[w] # Idle
           /\ pool' = Answered(pool, w, a) /\ pc' = pc
    BY <1>2 DEF WorkerAnswers, PoolStep
  <2> DEFINE h == Answered(pool, w, a)
             ts == {pool.task[w]}
  <2>2. Sound(h) /\ Used(h) /\ ts \subseteq Held(pool) /\ Settled(pool, h, ts, a)
    BY <1>0, <2>1, PoolAnswers
  <2>3. pool' = h
    BY <2>1
  <2> HIDE DEF h, ts
  <2> QED
    BY <2>1, <2>2, <2>3, PoolEvent
<1>3. ASSUME NEW w \in Workers, WorkerLost(w) PROVE PoolInv'
  <2>1. /\ w \in Live(pool) /\ pool' = Lost(pool, w) /\ pc' = pc
        /\ Cardinality(Workers \ pool.made) + Cardinality(Live(pool)) > Size
    BY <1>3 DEF WorkerLost, PoolStep
  <2> DEFINE h == Lost(pool, w)
             ts == {pool.task[w]} \ {Idle}
  <2>2. Sound(h) /\ Used(h) /\ ts \subseteq Held(pool) /\ Settled(pool, h, ts, "refused")
    BY <1>0, <2>1, PoolLoses
  <2>3. pool' = h
    BY <2>1
  <2> HIDE DEF h, ts
  <2> QED
    BY <2>1, <2>2, <2>3, PoolEvent
<1>4. CASE ClosePool
  <2> DEFINE h == Closed(pool)
             ts == Held(pool)
  <2>1. pool' = h /\ pc' = pc
    BY <1>4 DEF ClosePool, PoolStep
  <2>2. Sound(h) /\ Used(h) /\ Settled(pool, h, ts, "refused")
    BY <1>0, PoolCloses
  <2>3. ts \in SUBSET Held(pool)
    OBVIOUS
  <2> HIDE DEF h, ts
  <2> QED
    BY <2>1, <2>2, <2>3, PoolEvent
<1>5. ASSUME UNCHANGED <<pool, pc>> PROVE PoolInv'
  BY <1>5 DEF PoolInv
<1>6. ASSUME \/ \E s \in Statuses : SetStatus(s)
             \/ SetRole \/ RevokeSessions
             \/ \E v \in Visits, t \in Tasks : Authenticate(v, t)
             \/ \E v \in Visits : FailPayment(v)
             \/ \E v \in Creators : CreateSession(v) \/ Expire(v)
             \/ \E v \in Visits, ds \in {Creators} \cup {{d} : d \in Creators} :
                   RevokeDownloads(v, ds)
             \/ \E g \in Gets : BeginGet(g) \/ RecordFirst(g) \/ RecordFails(g)
             \/ UNCHANGED vars
      PROVE  UNCHANGED <<pool, pc>>
  BY <1>6
  DEF SetStatus, SetRole, RevokeSessions, Authenticate, FailPayment,
      CreateSession, Expire, RevokeDownloads, BeginGet, RecordFirst,
      RecordFails, logins, vars
<1> QED
  BY <1>1, <1>2, <1>3, <1>4, <1>5, <1>6, PoolBegin, PoolAnswer DEF Next

(* Through submissions, answers, deaths of workers, timers and the         *)
(* shutdown, every call whose promise is open is with one worker or once   *)
(* in the queue; nobody waits beside a worker that is free or could be     *)
(* made; and workers and waiters stay within their limits.                 *)
THEOREM SessionsCallsAreHeld == Spec => []CallsAreHeld
<1>1. PoolInv => CallsAreHeld
  BY DEF PoolInv, Sound, Held, CallsAreHeld
<1> QED
  BY <1>1, PoolInit, PoolStepKept, PTL DEF Spec

=============================================================================
