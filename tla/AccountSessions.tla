-------------------------- MODULE AccountSessions --------------------------
(***************************************************************************)
(* The credentials of one account: registration and login, which wait for *)
(* the password pool between reading the account and signing a token       *)
(* (routes/auth.routes.js), the changes that invalidate tokens             *)
(* (lib/account.js and its callers), authenticated requests                *)
(* (middleware/auth.js) and download sessions of one file                  *)
(* (routes/download.routes.js, lib/download-session.js).                   *)
(*                                                                         *)
(* Every change of status, role or version is one UPDATE of the User row.  *)
(* A transaction that creates a download session holds that row's share    *)
(* lock to its commit, and revokeSessions holds the row before it looks    *)
(* for sessions, so each of the two is one action.                         *)
(***************************************************************************)
EXTENDS PasswordHasher

CONSTANTS
    Registrations,  \* the tasks that register the account; the others log in
    Visits,         \* authenticated requests
    Creators,       \* those that may create a download session; each also
                    \* names the session it creates
    Gets,           \* GETs of a download URL
    GetOf,          \* GetOf[g]: the session whose URL it has
    MaxVersion      \* bound: changes of the account

ASSUME AccountAssumption ==
    /\ Registrations \subseteq Tasks
    /\ Creators \subseteq Visits
    /\ GetOf \in [Gets -> Creators]
    /\ MaxVersion \in Nat

VARIABLES
    pool,
    status,     \* of the account; "NONE" before it is registered
    version,    \* authVersion
    pc,         \* where each registration or login is
    seen,       \* the account as it read it
    token,      \* the version in the token it returned, or NoToken
    visit,      \* where each request is
    carried,    \* the version in its token
    session,    \* the download sessions
    used,       \* usedAt is set
    starts,     \* DOWNLOAD_SESSION_STARTED events of each session
    get,        \* a GET whose stream is open and first use not recorded
    old,        \* history: logins that read the account before its last change
    cut         \* history: visits that were authenticated before a change, with
                \* no session yet, or with one when sessions were revoked

account == <<status, version>>
logins == <<pool, pc, seen, token>>
downloads == <<session, used, starts, get>>
vars == <<account, logins, visit, carried, downloads, old, cut>>

NoToken == -1
Unread == [status |-> "NONE", version |-> 0]

(* No handler tells a deleted account from a suspended one, or a revoked   *)
(* download session from an expired one ("over").                          *)
Statuses == {"ACTIVE", "SUSPENDED"}

Init ==
    /\ pool = EmptyPool
    /\ status = "NONE" /\ version = 0
    /\ pc = [t \in Tasks |-> "idle"]
    /\ seen = [t \in Tasks |-> Unread]
    /\ token = [t \in Tasks |-> NoToken]
    /\ visit = [v \in Visits |-> "idle"]
    /\ carried = [v \in Visits |-> NoToken]
    /\ session = [v \in Creators |-> "none"]
    /\ used = [v \in Creators |-> FALSE]
    /\ starts = [v \in Creators |-> 0]
    /\ get = [g \in Gets |-> "idle"]
    /\ old = {} /\ cut = {}

-----------------------------------------------------------------------------
(* Registration and login.                                                 *)

(* The account is read and the password handed to the pool.                *)
Begin(t) ==
    /\ pc[t] = "idle"
    /\ seen' = [seen EXCEPT ![t] = [status |-> status, version |-> version]]
    /\ IF t \in Registrations /\ status # "NONE"
       THEN pc' = [pc EXCEPT ![t] = "done"] /\ pool' = pool
       ELSE pc' = [pc EXCEPT ![t] = "hashing"] /\ pool' = Submit(pool, t)
    /\ UNCHANGED <<account, token, visit, carried, downloads, old, cut>>

Refused(t) == UNCHANGED <<account, token>>

(* Fault: the token carries the version of the moment it is signed.        *)
SignedNow(t) == version

(* The version a login signs: the one read with the status it checked.     *)
Signed(t) == seen[t].version

LogIn(t) ==
    /\ t \notin Registrations
    /\ pool.answer[t] = "match" /\ seen[t].status = "ACTIVE"
    /\ token' = [token EXCEPT ![t] = Signed(t)]
    /\ UNCHANGED account

(* The unique index decides between two registrations of one address.      *)
Register(t) ==
    /\ t \in Registrations
    /\ pool.answer[t] = "match" /\ status = "NONE"
    /\ status' = "ACTIVE"
    /\ token' = [token EXCEPT ![t] = version]
    /\ UNCHANGED version

(* A refusal or an error (a busy pool, a wrong password, an account that   *)
(* is unknown, not active or already there, a failing insert) leaves no    *)
(* token and no account.                                                   *)
Answer(t) ==
    /\ pc[t] = "hashing" /\ pool.answer[t] # "none"
    /\ LogIn(t) \/ Register(t) \/ Refused(t)
    /\ pc' = [pc EXCEPT ![t] = "done"]
    /\ seen' = [seen EXCEPT ![t] = Unread]
    /\ pool' = Taken(pool, t)
    /\ UNCHANGED <<visit, carried, downloads, old, cut>>

PoolStep(p) ==
    /\ pool' = p
    /\ UNCHANGED <<account, pc, seen, token, visit, carried, downloads, old, cut>>

WorkerAnswers(w) ==
    /\ w \in Live(pool) /\ pool.task[w] # Idle
    /\ \E a \in {"match", "refused"} :
          PoolStep(Answered(pool, w, a))

(* Bound: a worker dies only while another can be made.                    *)
WorkerLost(w) ==
    /\ w \in Live(pool)
    /\ Cardinality(Workers \ pool.made) + Cardinality(Live(pool)) > Size
    /\ PoolStep(Lost(pool, w))

WaitEnds(t) == t \in pool.timed /\ PoolStep(TimedOut(pool, t))

ClosePool == ~pool.closed /\ PoolStep(Closed(pool))

-----------------------------------------------------------------------------
(* Changes of the account.                                                 *)

Accepted(v) == status = "ACTIVE" /\ v = version

Asking == {v \in Creators : visit[v] = "in"}

(* setAccountStatus, setAccountRole, revokeSessions: one UPDATE.           *)
Changed(s) ==
    /\ status # "NONE" /\ version < MaxVersion
    /\ status' = s /\ version' = version + 1
    /\ old' = {t \in Tasks : pc[t] = "hashing" \/ token[t] # NoToken}

(* An administrator suspends, reactivates or deletes the account, whatever *)
(* its status was.                                                         *)
SetStatus(s) ==
    /\ Changed(s)
    /\ cut' = cut \cup Asking
    /\ UNCHANGED <<logins, visit, carried, downloads>>

(* The role is read with the status and matters to no action here.         *)
SetRole ==
    /\ Changed(status)
    /\ cut' = cut \cup Asking
    /\ UNCHANGED <<logins, visit, carried, downloads>>

RevokeSessions ==
    /\ Changed(status)
    /\ session' = [v \in Creators |->
                      IF session[v] = "live" THEN "over" ELSE session[v]]
    /\ cut' = cut \cup Asking \cup {v \in Creators : session[v] = "live"}
    /\ UNCHANGED <<logins, visit, carried, used, starts, get>>

-----------------------------------------------------------------------------
(* Requests with a token.                                                  *)

(* requireAuth; a request it refuses does nothing.                         *)
Authenticate(v, t) ==
    /\ visit[v] = "idle"
    /\ token[t] # NoToken /\ Accepted(token[t])
    /\ visit' = [visit EXCEPT ![v] = "in"]
    /\ carried' = [carried EXCEPT ![v] = token[t]]
    /\ UNCHANGED <<account, logins, downloads, old, cut>>

Leave(v) ==
    /\ visit' = [visit EXCEPT ![v] = "done"]
    /\ carried' = [carried EXCEPT ![v] = NoToken]

(* Fault: the row's status is checked, not its version.                    *)
MayCreateIfActive(v) == status = "ACTIVE"

(* lockActiveUserShared                                                    *)
MayCreate(v) == status = "ACTIVE" /\ carried[v] = version

CreateSession(v) ==
    /\ visit[v] = "in"
    /\ Leave(v)
    /\ session' = [session EXCEPT ![v] = IF MayCreate(v) THEN "live" ELSE @]
    /\ UNCHANGED <<account, logins, used, starts, get, old, cut>>

(* revokeDownloadSessions                                                  *)
Revoked(ds) ==
    [d \in Creators |->
        IF d \in ds /\ session[d] = "live" THEN "over" ELSE session[d]]

(* DELETE /download-sessions/:id, or of every session of the file: the     *)
(* account need no longer be active.                                       *)
RevokeDownloads(v, ds) ==
    /\ visit[v] = "in"
    /\ \E d \in ds : session[d] = "live"
    /\ Leave(v)
    /\ session' = Revoked(ds)
    /\ UNCHANGED <<account, logins, used, starts, get, old, cut>>

(* A simulated failed payment suspends the account, whatever has become of *)
(* it since the request was authenticated.                                 *)
FailPayment(v) ==
    /\ visit[v] = "in"
    /\ Leave(v)
    /\ Changed("SUSPENDED")
    /\ cut' = cut \cup (Asking \ {v})
    /\ UNCHANGED <<logins, downloads>>

-----------------------------------------------------------------------------
(* Downloads.                                                              *)

Usable(d) == session[d] = "live" /\ status = "ACTIVE"

(* validateDownload, then the stream is opened.  What the record said of   *)
(* usedAt is kept until the stream is open; a GET that finds it set, or is *)
(* refused, changes nothing.                                               *)
BeginGet(g) ==
    /\ get[g] = "idle" /\ Usable(GetOf[g]) /\ ~used[GetOf[g]]
    /\ get' = [get EXCEPT ![g] = "open"]
    /\ UNCHANGED <<account, logins, visit, carried, session, used, starts, old, cut>>

(* Fault: the first use is decided by the record read before.              *)
IsFirstAsRead(g) == TRUE

(* The compare-and-set on usedAt.                                          *)
IsFirst(g) == ~used[GetOf[g]]

RecordFirst(g) ==
    /\ get[g] = "open"
    /\ get' = [get EXCEPT ![g] = "idle"]
    /\ IF IsFirst(g)
       THEN /\ used' = [used EXCEPT ![GetOf[g]] = TRUE]
            /\ starts' = [starts EXCEPT ![GetOf[g]] = @ + 1]
       ELSE UNCHANGED <<used, starts>>
    /\ UNCHANGED <<account, logins, visit, carried, session, old, cut>>

(* The event cannot be written: all of it is undone, and the client asks   *)
(* again.                                                                  *)
RecordFails(g) ==
    /\ get[g] = "open" /\ IsFirst(g)
    /\ get' = [get EXCEPT ![g] = "idle"]
    /\ UNCHANGED <<account, logins, visit, carried, session, used, starts, old, cut>>

Expire(d) ==
    /\ session[d] = "live"
    /\ session' = [session EXCEPT ![d] = "over"]
    /\ UNCHANGED <<account, logins, visit, carried, used, starts, get, old, cut>>

-----------------------------------------------------------------------------
Next ==
    \/ \E t \in Tasks : Begin(t) \/ Answer(t) \/ WaitEnds(t)
    \/ \E w \in Workers : WorkerAnswers(w) \/ WorkerLost(w)
    \/ ClosePool
    \/ \E s \in Statuses : SetStatus(s)
    \/ SetRole \/ RevokeSessions
    \/ \E v \in Visits, t \in Tasks : Authenticate(v, t)
    \/ \E v \in Visits : FailPayment(v)
    \/ \E v \in Creators : CreateSession(v) \/ Expire(v)
    \/ \E v \in Visits, ds \in {Creators} \cup {{d} : d \in Creators} :
          RevokeDownloads(v, ds)
    \/ \E g \in Gets : BeginGet(g) \/ RecordFirst(g) \/ RecordFails(g)

Spec == Init /\ [][Next]_vars

(* Threads finish what they are given and handlers go on; timers are not   *)
(* relied on.                                                              *)
Fairness ==
    /\ \A w \in Workers : WF_vars(WorkerAnswers(w))
    /\ \A t \in Tasks : WF_vars(Answer(t))

FairSpec == Spec /\ Fairness

-----------------------------------------------------------------------------
(* Properties.                                                             *)

(* A call of the pool whose promise is open is held exactly once, by a     *)
(* worker or in the queue, through deaths, timeouts and shutdown; and no   *)
(* call waits beside a worker that is free or could be made.               *)
CallsAreHeld ==
    /\ Used(pool)
    /\ Waiting(pool) \cap Running(pool) = {}
    /\ \A t \in Tasks :
          pc[t] = "hashing" /\ pool.answer[t] = "none" <=>
              t \in Waiting(pool) \cup Running(pool)

(* No token is accepted, now or after a reactivation, that comes of a      *)
(* reading of the account older than its last change, however long the     *)
(* login waited for the pool.                                              *)
NoStaleLogin == \A t \in old : token[t] = NoToken \/ ~Accepted(token[t])

(* No download URL works that a request authenticated before a change of   *)
(* the account obtained after it, or that sessions were revoked under.     *)
NoStaleDownload == \A d \in cut : ~Usable(d)

(* Concurrent first requests of a download session record one event, and   *)
(* it and the mark on the session appear together.                         *)
OneStartPerSession ==
    \A d \in Creators : starts[d] = IF used[d] THEN 1 ELSE 0

(* Every login and registration is answered, without the help of a timer.  *)
LoginsAreAnswered ==
    \A t \in Tasks : pc[t] = "hashing" ~> pc[t] = "done"
=============================================================================
