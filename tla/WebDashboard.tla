---------------------------- MODULE WebDashboard ----------------------------
(***************************************************************************)
(* The local service and the page that watches it: the bootstrap of        *)
(* run_forever (marketdata/runner.py, db/repository.py), what              *)
(* runtime_state.STATE holds in memory and the database on disk, the       *)
(* endpoints of api/dashboard.py, and the script of the page they serve,   *)
(* whose refreshes overlap.  The process can be killed and restarted, the  *)
(* database be out of reach, and another process use the same database.    *)
(* The signals are left out: their request only makes a refresh longer.    *)
(***************************************************************************)
EXTENDS Naturals, Sequences, FiniteSets

CONSTANTS
    Owners,     \* the ids a row of `users` can get
    NoUser,     \* local_user_id is None
    Refreshes,  \* refreshes of the page that can overlap (named bound)
    Presses,    \* presses of its buttons, or by other clients (named bound)
    PageLimit,  \* executions the page asks for
    MaxRows,    \* named bound: executions stored
    MaxFaults   \* named bound: kills of the process and outages of the database

ASSUME WebDashboardAssumption ==
    /\ NoUser \notin Owners
    /\ PageLimit \in Nat /\ MaxRows \in Nat /\ MaxFaults \in Nat

VARIABLES
    up,         \* the process serves
    boot,       \* the await of run_forever's bootstrap, or how it ended
    user,       \* STATE.local_user_id, and the user_id of the monitors
    engaged,    \* STATE.kill_switch.engaged
    storing,    \* the database can be reached
    users,      \* the ids of the users with LOCAL_USER_EMAIL
    rows,       \* arbitrage_executions: owner and executed_at, as stored
    config,     \* the page has its config
    refresh,    \* the page's refreshes in flight, and their answers so far
    press,      \* the POSTs to the switch
    shown,      \* the pill, and the executions the page is drawn from: the
                \* statistics from all of them, the feed from the first ten
    excused,    \* history: something has come between this bootstrap and the user
    faults

service == <<up, boot, user, engaged>>
database == <<users, rows>>
page == <<config, refresh, shown>>
vars == <<service, storing, database, page, press, excused, faults>>

\* The pill says "paper-trading" before it is drawn, then what the switch is.
Pills == {"paper-trading", "live", "halted"}
Pill(e) == IF e THEN "halted" ELSE "live"

Idle == [awaits |-> {}, stage |-> "idle", pill |-> "live", list |-> {}]
Configuring == [Idle EXCEPT !.awaits = {"config"}, !.stage = "config"]
Fetching == [Idle EXCEPT !.awaits = {"status", "executions"}, !.stage = "data"]

\* run_forever goes on to the bootstrap, or returns or raises before it: the
\* configuration disables it, names no monitor or cannot be parsed.
Started == {"lookup", "off"}

Init == /\ up = TRUE
        /\ boot \in Started
        /\ user = NoUser
        /\ engaged = FALSE
        /\ storing = TRUE
        /\ users = {}
        /\ rows = <<>>
        /\ config = FALSE
        /\ refresh = [r \in Refreshes |-> Idle]
        /\ press = [p \in Presses |-> "none"]
        /\ shown = [pill |-> "paper-trading", list |-> {}]
        /\ excused = FALSE
        /\ faults = 0

-----------------------------------------------------------------------------
(* The bootstrap of the user: a SELECT, and if it finds nobody an INSERT,  *)
(* its commit and a SELECT of what was inserted.                           *)

Booting == boot \in {"lookup", "insert", "reload"}

\* Mutant: create_user instead of get_or_create_user_by_email.
LookUpSkipped == boot' = "insert" /\ UNCHANGED user

LookUp == IF users = {} THEN boot' = "insert" /\ UNCHANGED user
                        ELSE boot' = "done" /\ user' \in users

FindUser == /\ boot = "lookup"
            /\ storing
            /\ LookUp
            /\ UNCHANGED <<up, engaged, storing, database, page, press, excused, faults>>

\* Mutant: the email is not unique.
InsertAnyway(u) == users' = users \cup {u} /\ boot' = "reload"

\* The unique constraint on the email turns a second INSERT into an error.
Insert(u) == IF users = {} THEN users' = {u} /\ boot' = "reload"
                           ELSE UNCHANGED users /\ boot' = "failed"

CreateUser == /\ boot = "insert"
              /\ storing
              /\ \E u \in Owners \ users : Insert(u)
              /\ UNCHANGED <<up, user, engaged, storing, rows, page, press, excused, faults>>

ReloadUser == /\ boot = "reload"
              /\ storing
              /\ user' \in users
              /\ boot' = "done"
              /\ UNCHANGED <<up, engaged, storing, database, page, press, excused, faults>>

\* The database raises in the bootstrap; nothing looks at the runner's task.
BootstrapRaises ==
    /\ Booting
    /\ ~storing
    /\ boot' = "failed"
    /\ UNCHANGED <<up, user, engaged, storing, database, page, press, excused, faults>>

\* Another process bootstraps the same user.
OtherCreates ==
    /\ storing
    /\ users = {}
    /\ \E u \in Owners : users' = {u}
    /\ excused' = (excused \/ Booting)
    /\ UNCHANGED <<service, storing, rows, page, press, faults>>

-----------------------------------------------------------------------------
(* The rest of the service's life.                                         *)

\* A monitor records an execution; executed_at is the database's clock, which
\* may stand still between two rows.
StoreExecution ==
    /\ boot = "done"
    /\ storing
    /\ Len(rows) < MaxRows
    /\ \E tick \in {0, 1} :
          LET last == IF rows = <<>> THEN 0 ELSE rows[Len(rows)].executed_at
          IN  rows' = Append(rows, [owner |-> user, executed_at |-> last + tick])
    /\ UNCHANGED <<service, storing, users, page, press, excused, faults>>

\* What STATE held is gone with the process.
Kill == /\ up
        /\ faults < MaxFaults
        /\ up' = FALSE
        /\ boot' = "off"
        /\ user' = NoUser
        /\ engaged' = FALSE
        /\ faults' = faults + 1
        /\ UNCHANGED <<storing, database, page, press, excused>>

Restart == /\ ~up
           /\ up' = TRUE
           /\ boot' \in Started
           /\ excused' = ~storing
           /\ UNCHANGED <<user, engaged, storing, database, page, press, faults>>

DatabaseFails == /\ storing
                 /\ faults < MaxFaults
                 /\ storing' = FALSE
                 /\ excused' = (excused \/ Booting)
                 /\ faults' = faults + 1
                 /\ UNCHANGED <<service, database, page, press>>

DatabaseRecovers == /\ ~storing
                    /\ storing' = TRUE
                    /\ UNCHANGED <<service, database, page, press, excused, faults>>

-----------------------------------------------------------------------------
(* A refresh of the page: the config once, then three requests at a time.  *)

\* refresh() is called and r stands for it.
Begin(r) == /\ refresh[r] = Idle
            /\ refresh' = [refresh EXCEPT ![r] = IF config THEN Fetching ELSE Configuring]

TimerFires(r) == /\ Begin(r)
                 /\ UNCHANGED <<service, storing, database, config, press, shown,
                                excused, faults>>

ConfigAnswered(r) ==
    /\ up
    /\ "config" \in refresh[r].awaits
    /\ config' = TRUE
    /\ refresh' = [refresh EXCEPT ![r] = Fetching]
    /\ UNCHANGED <<service, storing, database, press, shown, excused, faults>>

StatusAnswered(r) ==
    /\ up
    /\ "status" \in refresh[r].awaits
    /\ refresh' = [refresh EXCEPT ![r].awaits = @ \ {"status"}, ![r].pill = Pill(engaged)]
    /\ UNCHANGED <<service, storing, database, config, press, shown, excused, faults>>

\* Mutant: ascending order.
ComesLast(i, j) == rows[i].executed_at <= rows[j].executed_at

\* order_by executed_at, descending; equal times in either order.
ComesFirst(i, j) == rows[i].executed_at >= rows[j].executed_at

\* Mutant: no limit.
NewestUnlimited(S) == {S}

\* What the query may return of S.
Newest(S) ==
    {L \in SUBSET S :
        /\ Cardinality(L) = IF Cardinality(S) < PageLimit THEN Cardinality(S) ELSE PageLimit
        /\ \A i \in L : \A j \in S \ L : ComesFirst(i, j)}

OwnedBy(u) == {i \in DOMAIN rows : rows[i].owner = u}

\* Nobody's executions are none, without asking the database.
ExecutionsAnswered(r) ==
    /\ up
    /\ "executions" \in refresh[r].awaits
    /\ \E L \in SUBSET DOMAIN rows :
          /\ IF user = NoUser THEN L = {} ELSE storing /\ L \in Newest(OwnedBy(user))
          /\ refresh' = [refresh EXCEPT ![r].awaits = @ \ {"executions"}, ![r].list = L]
    /\ UNCHANGED <<service, storing, database, config, press, shown, excused, faults>>

\* One request that fails takes the whole refresh with it.
CanFail(r) == \/ ~up /\ refresh[r].awaits # {}
              \/ up /\ ~storing /\ user # NoUser /\ "executions" \in refresh[r].awaits

Abandon(r) == refresh' = [refresh EXCEPT ![r] = Idle]

RefreshFails(r) ==
    /\ CanFail(r)
    /\ Abandon(r)
    /\ UNCHANGED <<service, storing, database, config, press, shown, excused, faults>>

\* Mutant: the page is drawn only when there is something new in the feed.
DrawNews(r) == shown' = IF refresh[r].list = shown.list THEN shown
                        ELSE [pill |-> refresh[r].pill, list |-> refresh[r].list]

Draw(r) == shown' = [pill |-> refresh[r].pill, list |-> refresh[r].list]

\* All answers are there: pill, errors, statistics and feed are drawn.
Render(r) ==
    /\ refresh[r].stage = "data"
    /\ refresh[r].awaits = {}
    /\ Draw(r)
    /\ refresh' = [refresh EXCEPT ![r] = Idle]
    /\ UNCHANGED <<service, storing, database, config, press, excused, faults>>

-----------------------------------------------------------------------------
(* The buttons.                                                            *)

Moved(p, s) == press' = [press EXCEPT ![p] = s]

\* The page posts what its button says.
Press(p) == /\ press[p] = "none"
            /\ \E s \in {"engage", "disengage"} : Moved(p, s)
            /\ UNCHANGED <<service, storing, database, page, excused, faults>>

\* The endpoint sets the switch, for the page.
Posted(p) == /\ up
             /\ press[p] \in {"engage", "disengage"}
             /\ engaged' = (press[p] = "engage")
             /\ Moved(p, "posted")
             /\ UNCHANGED <<up, boot, user, storing, database, page, excused, faults>>

\* Its answer starts a refresh.
PostReturns(p) == /\ press[p] = "posted"
                  /\ \E r \in Refreshes : Begin(r)
                  /\ Moved(p, "over")
                  /\ UNCHANGED <<service, storing, database, config, shown, excused, faults>>

PostFails(p) == /\ ~up
                /\ press[p] \in {"engage", "disengage", "posted"}
                /\ Moved(p, "over")
                /\ UNCHANGED <<service, storing, database, page, excused, faults>>

\* Another client sets the switch.
OtherPosts(p) == /\ up
                 /\ press[p] = "none"
                 /\ engaged' \in BOOLEAN
                 /\ Moved(p, "over")
                 /\ UNCHANGED <<up, boot, user, storing, database, page, excused, faults>>

-----------------------------------------------------------------------------
Answered(r) == ConfigAnswered(r) \/ StatusAnswered(r) \/ ExecutionsAnswered(r)

Next == \/ FindUser \/ CreateUser \/ ReloadUser \/ BootstrapRaises \/ OtherCreates
        \/ StoreExecution
        \/ Kill \/ Restart \/ DatabaseFails \/ DatabaseRecovers
        \/ \E r \in Refreshes : TimerFires(r) \/ Answered(r) \/ RefreshFails(r) \/ Render(r)
        \/ \E p \in Presses : \/ Press(p) \/ Posted(p) \/ PostReturns(p) \/ PostFails(p)
                              \/ OtherPosts(p)

Spec == Init /\ [][Next]_vars

\* The timer fires, a request is answered or fails, and what is answered is
\* drawn.  Nobody has to press, restart, repair or trade.
FairSpec == /\ Spec
            /\ \A r \in Refreshes : /\ WF_vars(TimerFires(r))
                                    /\ WF_vars(Answered(r) \/ RefreshFails(r))
                                    /\ WF_vars(Render(r))

-----------------------------------------------------------------------------
(* Properties.                                                             *)

TypeOK ==
    /\ up \in BOOLEAN /\ engaged \in BOOLEAN /\ storing \in BOOLEAN
    /\ boot \in {"lookup", "insert", "reload", "done", "failed", "off"}
    /\ user \in Owners \cup {NoUser}
    /\ users \subseteq Owners
    /\ rows \in Seq([owner : Owners, executed_at : Nat]) /\ Len(rows) <= MaxRows
    /\ config \in BOOLEAN
    /\ refresh \in [Refreshes -> [awaits : SUBSET {"config", "status", "executions"},
                                  stage : {"idle", "config", "data"},
                                  pill : {"live", "halted"}, list : SUBSET (1..MaxRows)]]
    /\ press \in [Presses -> {"none", "engage", "disengage", "posted", "over"}]
    /\ shown \in [pill : Pills, list : SUBSET (1..MaxRows)]
    /\ Cardinality(shown.list) <= PageLimit
    /\ excused \in BOOLEAN
    /\ faults \in 0..MaxFaults

\* However often processes start over one database, and however their lookups
\* and inserts interleave, there is one user, the service works for it, and all
\* executions are its own (repository.py 22-34, runner.py 402-405).
OneOwner ==
    /\ \A u, v \in users : u = v
    /\ user # NoUser => user \in users
    /\ \A i \in DOMAIN rows : rows[i].owner \in users

\* repository.py 25-27: a restart bootstraps the same email again.  It fails only
\* if the database was out of reach, or another process created the user, in
\* the meantime.
RestartsBootstrap == boot = "failed" => excused

\* However refreshes overlap and are overtaken or fail, the pill of a page left
\* alone ends up saying what the switch is (dashboard.py 496-514), also after
\* a restart that disengaged it (runtime_state.py 38).
PillSettles == \A e \in BOOLEAN :
    <>[](up /\ storing /\ engaged = e) => <>[](shown.pill = Pill(e))

\* The page ends up listing the newest of all executions ever stored, by this
\* process and those before it (dashboard.py 80-107, repository.py 81-93).
ExecutionsReappear == \A n \in 0..MaxRows :
    <>[](up /\ storing /\ boot = "done" /\ Len(rows) = n)
        => <>[](/\ Cardinality(shown.list) = IF n < PageLimit THEN n ELSE PageLimit
                /\ \A i \in shown.list : \A j \in DOMAIN rows \ shown.list :
                       rows[i].executed_at >= rows[j].executed_at)
=============================================================================
