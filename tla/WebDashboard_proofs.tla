------------------------ MODULE WebDashboard_proofs ------------------------
(***************************************************************************)
(* The user of the local service, for any ids, any number of restarts,     *)
(* outages and other processes, and whatever the page does meanwhile; and  *)
(* the types of the service and the page.                                  *)
(***************************************************************************)
EXTENDS WebDashboard, SequenceTheorems, FiniteSetTheorems, TLAPS

USE WebDashboardAssumption

\* The part of TypeOK that the properties rest on.
UserTypeOK ==
    /\ users \subseteq Owners
    /\ user \in Owners \cup {NoUser}
    /\ rows \in Seq([owner : Owners, executed_at : Nat])

\* What the bootstrap has learnt is still true: users never disappear, and one
\* that appears, or a database that is lost, in the middle of it is noticed.
BootstrapHolds ==
    /\ boot = "insert" /\ users # {} => excused
    /\ boot = "reload" => users # {}
    /\ boot = "done" => user \in users
    /\ Booting /\ ~storing => excused

IInv == UserTypeOK /\ OneOwner /\ BootstrapHolds /\ RestartsBootstrap

LEMMA InitInv == Init => IInv
<1> SUFFICES ASSUME Init PROVE IInv
  OBVIOUS
<1>1. rows = <<>> /\ users = {} /\ user = NoUser /\ boot \in Started /\ storing
  BY DEF Init
<1>2. UserTypeOK
  BY <1>1 DEF UserTypeOK
<1>3. OneOwner
  BY <1>1 DEF OneOwner
<1>4. BootstrapHolds /\ RestartsBootstrap
  BY <1>1 DEF BootstrapHolds, RestartsBootstrap, Booting, Started
<1>5. QED
  BY <1>2, <1>3, <1>4 DEF IInv

-----------------------------------------------------------------------------
(* The steps of the bootstrap.                                             *)

LEMMA FindUserInv == ASSUME IInv, FindUser PROVE IInv'
<1>1. /\ boot = "lookup" /\ storing /\ UNCHANGED <<storing, users, rows, excused>>
      /\ \/ users = {} /\ boot' = "insert" /\ user' = user
         \/ users # {} /\ boot' = "done" /\ user' \in users
  BY DEF FindUser, LookUp, database
<1>2. UserTypeOK'
  BY <1>1 DEF IInv, UserTypeOK
<1>3. OneOwner'
  BY <1>1 DEF IInv, OneOwner
<1>4. BootstrapHolds' /\ RestartsBootstrap'
  BY <1>1 DEF IInv, BootstrapHolds, RestartsBootstrap, Booting
<1>5. QED
  BY <1>2, <1>3, <1>4 DEF IInv

LEMMA CreateUserInv == ASSUME IInv, CreateUser PROVE IInv'
<1>1. PICK u \in Owners \ users : Insert(u)
  BY DEF CreateUser
<1>2. boot = "insert" /\ storing /\ UNCHANGED <<storing, user, rows, excused>>
  BY DEF CreateUser
<1>3. CASE users = {}
  <2>1. users' = {u} /\ boot' = "reload"
    BY <1>1, <1>3 DEF Insert
  <2>2. QED
    BY <1>2, <1>3, <2>1 DEF IInv, UserTypeOK, OneOwner, BootstrapHolds, RestartsBootstrap, Booting
<1>4. CASE users # {}
  <2>1. users' = users /\ boot' = "failed"
    BY <1>1, <1>4 DEF Insert
  <2>2. excused
    BY <1>2, <1>4 DEF IInv, BootstrapHolds
  <2>3. QED
    BY <1>2, <2>1, <2>2 DEF IInv, UserTypeOK, OneOwner, BootstrapHolds, RestartsBootstrap, Booting
<1>5. QED
  BY <1>3, <1>4

LEMMA ReloadUserInv == ASSUME IInv, ReloadUser PROVE IInv'
BY DEF ReloadUser, database, IInv, UserTypeOK, OneOwner, BootstrapHolds, RestartsBootstrap, Booting

LEMMA BootstrapRaisesInv == ASSUME IInv, BootstrapRaises PROVE IInv'
BY DEF BootstrapRaises, database, IInv, UserTypeOK, OneOwner, BootstrapHolds, RestartsBootstrap,
       Booting

LEMMA OtherCreatesInv == ASSUME IInv, OtherCreates PROVE IInv'
BY DEF OtherCreates, service, IInv, UserTypeOK, OneOwner, BootstrapHolds, RestartsBootstrap,
       Booting

-----------------------------------------------------------------------------
(* The rest of the service's life.                                         *)

LEMMA StoreExecutionInv == ASSUME IInv, StoreExecution PROVE IInv'
<1>1. /\ boot = "done" /\ storing
      /\ UNCHANGED <<boot, user, storing, users, excused>>
  BY DEF StoreExecution, service
<1>2. user \in users /\ user \in Owners /\ rows \in Seq([owner : Owners, executed_at : Nat])
  BY <1>1 DEF IInv, UserTypeOK, BootstrapHolds
<1>3. PICK e \in Nat : rows' = Append(rows, [owner |-> user, executed_at |-> e])
  <2>1. PICK tick \in {0, 1} :
           rows' = Append(rows, [owner |-> user,
                                 executed_at |-> (IF rows = <<>> THEN 0
                                                  ELSE rows[Len(rows)].executed_at) + tick])
    BY DEF StoreExecution
  <2>2. rows # <<>> => rows[Len(rows)].executed_at \in Nat
    <3>1. rows # <<>> => Len(rows) \in 1..Len(rows)
      BY <1>2
    <3>2. \A k \in 1..Len(rows) : rows[k] \in [owner : Owners, executed_at : Nat]
      BY <1>2, ElementOfSeq
    <3>3. \A k \in 1..Len(rows) : rows[k].executed_at \in Nat
      BY <3>2
    <3>4. QED
      BY <3>1, <3>3
  <2>3. QED
    BY <2>1, <2>2
<1>4. UserTypeOK'
  BY <1>1, <1>2, <1>3 DEF IInv, UserTypeOK
<1>5. OneOwner'
  <2>1. ASSUME NEW i \in DOMAIN rows' PROVE rows'[i].owner \in users
    <3>1. rows'[i] = IF i = Len(rows) + 1 THEN [owner |-> user, executed_at |-> e] ELSE rows[i]
      BY <1>2, <1>3, <2>1
    <3>2. i # Len(rows) + 1 => i \in DOMAIN rows
      BY <1>2, <1>3, <2>1
    <3>3. QED
      BY <1>2, <3>1, <3>2 DEF IInv, OneOwner
  <2>2. QED
    BY <1>1, <2>1 DEF IInv, OneOwner
<1>6. BootstrapHolds' /\ RestartsBootstrap'
  BY <1>1 DEF IInv, BootstrapHolds, RestartsBootstrap, Booting
<1>7. QED
  BY <1>4, <1>5, <1>6 DEF IInv

LEMMA KillInv == ASSUME IInv, Kill PROVE IInv'
BY DEF Kill, database, IInv, UserTypeOK, OneOwner, BootstrapHolds, RestartsBootstrap, Booting

LEMMA RestartInv == ASSUME IInv, Restart PROVE IInv'
BY DEF Restart, Started, database, IInv, UserTypeOK, OneOwner, BootstrapHolds,
       RestartsBootstrap, Booting

LEMMA DatabaseInv == ASSUME IInv, DatabaseFails \/ DatabaseRecovers PROVE IInv'
BY DEF DatabaseFails, DatabaseRecovers, service, database, IInv, UserTypeOK, OneOwner,
       BootstrapHolds, RestartsBootstrap, Booting

\* The page and the switch do not touch the user.
LEMMA ElsewhereInv ==
    ASSUME IInv, UNCHANGED <<boot, user, storing, users, rows, excused>> PROVE IInv'
BY DEF IInv, UserTypeOK, OneOwner, BootstrapHolds, RestartsBootstrap, Booting

LEMMA NextInv == IInv /\ [Next]_vars => IInv'
<1> SUFFICES ASSUME IInv, [Next]_vars PROVE IInv'
  OBVIOUS
<1> DEFINE Same == UNCHANGED <<boot, user, storing, users, rows, excused>>
<1>1. ASSUME NEW r \in Refreshes,
             TimerFires(r) \/ Answered(r) \/ RefreshFails(r) \/ Render(r)
      PROVE  Same
  BY <1>1 DEF TimerFires, Answered, ConfigAnswered, StatusAnswered, ExecutionsAnswered,
              RefreshFails, Render, service, database
<1>2. ASSUME NEW p \in Presses,
             Press(p) \/ Posted(p) \/ PostReturns(p) \/ PostFails(p) \/ OtherPosts(p)
      PROVE  Same
  BY <1>2 DEF Press, Posted, PostReturns, PostFails, OtherPosts, service, database
<1>3. CASE UNCHANGED vars
  BY <1>3, ElsewhereInv DEF vars, service, database
<1>4. QED
  BY <1>1, <1>2, <1>3, FindUserInv, CreateUserInv, ReloadUserInv, BootstrapRaisesInv,
     OtherCreatesInv, StoreExecutionInv, KillInv, RestartInv, DatabaseInv, ElsewhereInv DEF Next

\* Whatever processes start, die and race over the database, there is one user,
\* and all executions are its own (repository.py 22-34, runner.py 402-405).
THEOREM UserUnique == Spec => []OneOwner
<1>1. IInv => OneOwner
  BY DEF IInv
<1>2. QED
  BY InitInv, NextInv, <1>1, PTL DEF Spec

\* A bootstrap fails only when the database was lost or another process was
\* first while it ran (repository.py 25-27).
THEOREM BootstrapRepeats == Spec => []RestartsBootstrap
<1>1. IInv => RestartsBootstrap
  BY DEF IInv
<1>2. QED
  BY InitInv, NextInv, <1>1, PTL DEF Spec

-----------------------------------------------------------------------------
(* The page: every answer in flight, and what is drawn, lists at most      *)
(* PageLimit executions.                                                   *)

Shown == [pill : Pills, list : SUBSET (1..MaxRows)]

Refresh == {x \in [awaits : SUBSET {"config", "status", "executions"},
                   stage : {"idle", "config", "data"},
                   pill : {"live", "halted"}, list : SUBSET (1..MaxRows)] :
               Cardinality(x.list) <= PageLimit}

PageOK == /\ refresh \in [Refreshes -> Refresh]
          /\ shown \in Shown /\ Cardinality(shown.list) <= PageLimit

LEMMA FreshRefreshes == Idle \in Refresh /\ Configuring \in Refresh /\ Fetching \in Refresh
<1>1. Cardinality({}) <= PageLimit /\ {} \in SUBSET (1..MaxRows)
  BY FS_EmptySet
<1>2. /\ Idle.list = {} /\ Configuring.list = {} /\ Fetching.list = {}
      /\ Idle \in [awaits : SUBSET {"config", "status", "executions"},
                   stage : {"idle", "config", "data"},
                   pill : {"live", "halted"}, list : SUBSET (1..MaxRows)]
      /\ Configuring \in [awaits : SUBSET {"config", "status", "executions"},
                          stage : {"idle", "config", "data"},
                          pill : {"live", "halted"}, list : SUBSET (1..MaxRows)]
      /\ Fetching \in [awaits : SUBSET {"config", "status", "executions"},
                       stage : {"idle", "config", "data"},
                       pill : {"live", "halted"}, list : SUBSET (1..MaxRows)]
  BY <1>1 DEF Idle, Configuring, Fetching
<1>3. QED
  BY <1>1, <1>2 DEF Refresh

LEMMA PageInit == Init => PageOK
BY FreshRefreshes, FS_EmptySet DEF Init, PageOK, Shown, Pills

\* One refresh moves on, nothing is drawn.
LEMMA RefreshMoves ==
    ASSUME PageOK, NEW r \in Refreshes, NEW x \in Refresh,
           refresh' = [refresh EXCEPT ![r] = x], UNCHANGED shown
    PROVE  PageOK'
BY DEF PageOK

LEMMA BeginPage ==
    ASSUME PageOK, NEW r \in Refreshes, Begin(r), UNCHANGED shown PROVE PageOK'
BY FreshRefreshes, RefreshMoves DEF Begin

\* What the query returns of the rows there are fits the page.
LEMMA NewestShort ==
    ASSUME rows \in Seq([owner : Owners, executed_at : Nat]),
           NEW u, NEW L \in Newest(OwnedBy(u))
    PROVE  Cardinality(L) <= PageLimit
<1>1. OwnedBy(u) \subseteq 1..Len(rows) /\ Len(rows) \in Nat
  BY LenProperties DEF OwnedBy
<1>2. IsFiniteSet(OwnedBy(u))
  <2>1. IsFiniteSet(1..Len(rows))
    BY <1>1, FS_Interval
  <2>2. QED
    BY <1>1, <2>1, FS_Subset
<1>3. Cardinality(OwnedBy(u)) \in Nat
  BY <1>2, FS_CardinalityType
<1>4. Cardinality(L) = IF Cardinality(OwnedBy(u)) < PageLimit
                       THEN Cardinality(OwnedBy(u)) ELSE PageLimit
  BY DEF Newest
<1>5. QED
  BY <1>3, <1>4

LEMMA AnsweredPage ==
    ASSUME PageOK, UserTypeOK, Len(rows) <= MaxRows, NEW r \in Refreshes, Answered(r)
    PROVE  PageOK'
<1>1. refresh[r] \in Refresh
  BY DEF PageOK
<1>2. CASE ConfigAnswered(r)
  BY <1>2, FreshRefreshes, RefreshMoves DEF ConfigAnswered
<1>3. CASE StatusAnswered(r)
  <2> DEFINE x == [refresh[r] EXCEPT !.awaits = @ \ {"status"}, !.pill = Pill(engaged)]
  <2>1. Pill(engaged) \in {"live", "halted"}
    BY DEF Pill
  <2>2. x \in Refresh
    BY <1>1, <2>1 DEF Refresh
  <2>3. refresh' = [refresh EXCEPT ![r] = x] /\ UNCHANGED shown
    BY <1>3 DEF StatusAnswered
  <2> HIDE DEF x
  <2>4. QED
    BY <2>2, <2>3, RefreshMoves
<1>4. CASE ExecutionsAnswered(r)
  <2>1. PICK L \in SUBSET DOMAIN rows :
           /\ L = {} \/ L \in Newest(OwnedBy(user))
           /\ refresh' = [refresh EXCEPT ![r].awaits = @ \ {"executions"}, ![r].list = L]
    BY <1>4 DEF ExecutionsAnswered
  <2>2. L \in SUBSET (1..MaxRows)
    BY LenProperties DEF UserTypeOK
  <2>3. Cardinality(L) <= PageLimit
    <3>1. CASE L = {}
      BY <3>1, FS_EmptySet
    <3>2. CASE L \in Newest(OwnedBy(user))
      <4>1. rows \in Seq([owner : Owners, executed_at : Nat])
        BY DEF UserTypeOK
      <4>2. QED
        BY <3>2, <4>1, NewestShort
    <3>3. QED
      BY <2>1, <3>1, <3>2
  <2> DEFINE x == [refresh[r] EXCEPT !.awaits = @ \ {"executions"}, !.list = L]
  <2>4. x \in Refresh
    BY <1>1, <2>2, <2>3 DEF Refresh
  <2>5. refresh' = [refresh EXCEPT ![r] = x] /\ UNCHANGED shown
    BY <1>4, <2>1 DEF ExecutionsAnswered
  <2> HIDE DEF x
  <2>6. QED
    BY <2>4, <2>5, RefreshMoves
<1>5. QED
  BY <1>2, <1>3, <1>4 DEF Answered

LEMMA RenderPage == ASSUME PageOK, NEW r \in Refreshes, Render(r) PROVE PageOK'
<1>1. refresh[r] \in Refresh
  BY DEF PageOK
<1>2. shown' = [pill |-> refresh[r].pill, list |-> refresh[r].list]
  BY DEF Render, Draw
<1>3. shown' \in Shown /\ Cardinality(shown'.list) <= PageLimit
  BY <1>1, <1>2 DEF Refresh, Shown, Pills
<1>4. refresh' \in [Refreshes -> Refresh]
  BY FreshRefreshes DEF Render, PageOK
<1>5. QED
  BY <1>3, <1>4 DEF PageOK

LEMMA PageStep ==
    ASSUME PageOK, UserTypeOK, Len(rows) <= MaxRows, [Next]_vars PROVE PageOK'
<1>1. CASE UNCHANGED <<refresh, shown>>
  BY <1>1 DEF PageOK
<1>2. ASSUME NEW r \in Refreshes,
             TimerFires(r) \/ Answered(r) \/ RefreshFails(r) \/ Render(r)
      PROVE  PageOK'
  BY <1>2, BeginPage, AnsweredPage, RenderPage, FreshRefreshes, RefreshMoves
     DEF TimerFires, RefreshFails, Abandon
<1>3. ASSUME NEW p \in Presses, PostReturns(p) PROVE PageOK'
  BY <1>3, BeginPage DEF PostReturns
<1>4. CASE UNCHANGED page
  BY <1>1, <1>4 DEF page
<1>5. ASSUME NEW p \in Presses, Press(p) \/ Posted(p) \/ PostFails(p) \/ OtherPosts(p)
      PROVE  PageOK'
  BY <1>4, <1>5 DEF Press, Posted, PostFails, OtherPosts
<1>6. CASE FindUser \/ CreateUser \/ ReloadUser \/ BootstrapRaises \/ OtherCreates
           \/ StoreExecution \/ Kill \/ Restart \/ DatabaseFails \/ DatabaseRecovers
           \/ UNCHANGED vars
  BY <1>4, <1>6 DEF FindUser, CreateUser, ReloadUser, BootstrapRaises, OtherCreates,
                    StoreExecution, Kill, Restart, DatabaseFails, DatabaseRecovers, vars
<1>7. QED
  BY <1>2, <1>3, <1>5, <1>6 DEF Next

-----------------------------------------------------------------------------
(* The service.                                                            *)

FlagsOK == /\ up \in BOOLEAN /\ engaged \in BOOLEAN /\ storing \in BOOLEAN
           /\ config \in BOOLEAN /\ excused \in BOOLEAN

ServiceOK ==
    /\ boot \in {"lookup", "insert", "reload", "done", "failed", "off"}
    /\ Len(rows) <= MaxRows
    /\ press \in [Presses -> {"none", "engage", "disengage", "posted", "over"}]
    /\ faults \in 0..MaxFaults

LEMMA FlagsStep == FlagsOK /\ [Next]_vars => FlagsOK'
<1> SUFFICES ASSUME FlagsOK, [Next]_vars PROVE FlagsOK'
  OBVIOUS
<1>1. ASSUME NEW r \in Refreshes,
             TimerFires(r) \/ Answered(r) \/ RefreshFails(r) \/ Render(r)
      PROVE  FlagsOK'
  BY <1>1, Zenon DEF FlagsOK, TimerFires, Answered, ConfigAnswered, StatusAnswered,
                     ExecutionsAnswered, RefreshFails, Render, service
<1>2. ASSUME NEW p \in Presses,
             Press(p) \/ Posted(p) \/ PostReturns(p) \/ PostFails(p) \/ OtherPosts(p)
      PROVE  FlagsOK'
  <2>1. (press[p] = "engage") \in BOOLEAN
    BY Zenon
  <2>2. QED
    BY <1>2, <2>1, Zenon DEF FlagsOK, Press, Posted, PostReturns, PostFails, OtherPosts,
                             service, page
<1>3. CASE \/ FindUser \/ CreateUser \/ ReloadUser \/ BootstrapRaises
           \/ StoreExecution \/ Kill \/ DatabaseRecovers \/ UNCHANGED vars
  BY <1>3, Zenon DEF FlagsOK, FindUser, CreateUser, ReloadUser, BootstrapRaises,
                     StoreExecution, Kill, DatabaseRecovers, service, page, vars
<1>4. CASE OtherCreates \/ Restart \/ DatabaseFails
  <2>1. (excused \/ Booting) \in BOOLEAN /\ (~storing) \in BOOLEAN
    BY Zenon
  <2>2. QED
    BY <1>4, <2>1, Zenon DEF FlagsOK, OtherCreates, Restart, DatabaseFails, service, page
<1>5. QED
  BY <1>1, <1>2, <1>3, <1>4 DEF Next

LEMMA ServiceStep ==
    ASSUME ServiceOK, UserTypeOK, [Next]_vars PROVE ServiceOK'
<1>1. CASE UNCHANGED <<boot, rows, press, faults>>
  BY <1>1 DEF ServiceOK
<1>2. ASSUME NEW r \in Refreshes,
             TimerFires(r) \/ Answered(r) \/ RefreshFails(r) \/ Render(r)
      PROVE  ServiceOK'
  BY <1>1, <1>2 DEF TimerFires, Answered, ConfigAnswered, StatusAnswered, ExecutionsAnswered,
                    RefreshFails, Render, service, database
<1>3. ASSUME NEW p \in Presses,
             Press(p) \/ Posted(p) \/ PostReturns(p) \/ PostFails(p) \/ OtherPosts(p)
      PROVE  ServiceOK'
  BY <1>3 DEF ServiceOK, Press, Posted, PostReturns, PostFails, OtherPosts, Moved, service,
              database
<1>4. CASE FindUser \/ CreateUser \/ ReloadUser \/ BootstrapRaises \/ OtherCreates
  BY <1>4 DEF ServiceOK, FindUser, LookUp, CreateUser, Insert, ReloadUser, BootstrapRaises,
              OtherCreates, service, database
<1>5. CASE StoreExecution
  <2>1. rows \in Seq([owner : Owners, executed_at : Nat]) /\ Len(rows) < MaxRows
    BY <1>5 DEF StoreExecution, UserTypeOK
  <2>2. UserTypeOK /\ \E e : rows' = Append(rows, e)
    BY <1>5, Zenon DEF StoreExecution
  <2>3. Len(rows') = Len(rows) + 1 /\ Len(rows) \in Nat
    BY <2>1, <2>2, LenProperties
  <2>4. UNCHANGED <<boot, press, faults>>
    BY <1>5 DEF StoreExecution, service
  <2>5. QED
    BY <2>1, <2>3, <2>4 DEF ServiceOK
<1>6. CASE Kill \/ Restart \/ DatabaseFails \/ DatabaseRecovers
  BY <1>6 DEF ServiceOK, Kill, Restart, Started, DatabaseFails, DatabaseRecovers, service,
              database
<1>7. CASE UNCHANGED vars
  BY <1>1, <1>7 DEF vars, service, database
<1>8. QED
  BY <1>2, <1>3, <1>4, <1>5, <1>6, <1>7 DEF Next

Kinds == IInv /\ FlagsOK /\ ServiceOK /\ PageOK

LEMMA KindsInit == Init => Kinds
<1> SUFFICES ASSUME Init PROVE FlagsOK /\ ServiceOK
  BY InitInv, PageInit DEF Kinds
<1>1. FlagsOK
  BY Zenon DEF Init, FlagsOK
<1>2. rows = <<>> /\ Len(<<>>) = 0
  BY EmptySeq DEF Init
<1>3. ServiceOK
  BY <1>2 DEF Init, ServiceOK, Started
<1>4. QED
  BY <1>1, <1>3

LEMMA KindsNext == Kinds /\ [Next]_vars => Kinds'
BY NextInv, FlagsStep, ServiceStep, PageStep DEF Kinds, IInv, ServiceOK

\* Every variable of the service and the page has its type, and the page never
\* draws more executions than it asked for (dashboard.py 80-107, 420-523,
\* repository.py 81-93).
THEOREM TypeCorrect == Spec => []TypeOK
<1>1. Kinds => TypeOK
  <2> SUFFICES ASSUME Kinds PROVE TypeOK
    OBVIOUS
  <2>1. refresh \in [Refreshes -> [awaits : SUBSET {"config", "status", "executions"},
                                  stage : {"idle", "config", "data"},
                                  pill : {"live", "halted"}, list : SUBSET (1..MaxRows)]]
    BY DEF Kinds, PageOK, Refresh
  <2>2. QED
    BY <2>1, Zenon DEF Kinds, IInv, UserTypeOK, FlagsOK, ServiceOK, PageOK, Shown, TypeOK
<1>2. QED
  BY KindsInit, KindsNext, <1>1, PTL DEF Spec

-----------------------------------------------------------------------------
(* What stays settled: what PillSettles and ExecutionsReappear need apart  *)
(* from fairness.                                                          *)

\* The user's executions are all there are: no restart, and no other process, has
\* ever stored one for anybody else (repository.py 22-34, 81-93).
THEOREM HistoryIsOwned == Spec => [](user # NoUser => OwnedBy(user) = DOMAIN rows)
<1>1. IInv => (user # NoUser => OwnedBy(user) = DOMAIN rows)
  BY DEF IInv, OneOwner, OwnedBy
<1>2. QED
  BY InitInv, NextInv, <1>1, PTL DEF Spec

\* The list the endpoint may answer.
Listed(L) == IF user = NoUser THEN L = {} ELSE L \in Newest(OwnedBy(user))

\* What is drawn is true, and so is every answer that a refresh in flight has got.
PageSettled ==
    /\ shown.pill = Pill(engaged) /\ Listed(shown.list)
    /\ \A r \in Refreshes :
          /\ refresh[r].stage = "data" /\ "status" \notin refresh[r].awaits
                => refresh[r].pill = Pill(engaged)
          /\ refresh[r].stage = "data" /\ "executions" \notin refresh[r].awaits
                => Listed(refresh[r].list)

\* What a refresh x has been answered is true.
AnswersTrue(x) ==
    /\ x.stage = "data" /\ "status" \notin x.awaits => x.pill = Pill(engaged)
    /\ x.stage = "data" /\ "executions" \notin x.awaits => Listed(x.list)

Undisturbed == UNCHANGED <<engaged, user, rows>>

LEMMA ListedKept == ASSUME Undisturbed, NEW L PROVE Listed(L)' <=> Listed(L)
BY DEF Undisturbed, Listed, Newest, OwnedBy, ComesFirst

LEMMA FreshAnswers == AnswersTrue(Idle) /\ AnswersTrue(Configuring) /\ AnswersTrue(Fetching)
BY DEF AnswersTrue, Idle, Configuring, Fetching

\* One refresh moves on to answers that are true.
LEMMA RefreshSettled ==
    ASSUME PageOK, PageSettled, Undisturbed, NEW r \in Refreshes, NEW x,
           refresh' = [refresh EXCEPT ![r] = x], AnswersTrue(x),
           shown' = shown \/ (shown'.pill = Pill(engaged) /\ Listed(shown'.list))
    PROVE  PageSettled'
<1>1. engaged' = engaged
  BY DEF Undisturbed
<1>2. shown'.pill = Pill(engaged') /\ Listed(shown'.list)
  BY <1>1 DEF PageSettled
<1>3. ASSUME NEW q \in Refreshes PROVE AnswersTrue(refresh'[q])
  <2>1. AnswersTrue(refresh[q])
    BY DEF PageSettled, AnswersTrue
  <2>2. refresh'[q] = IF q = r THEN x ELSE refresh[q]
    BY DEF PageOK
  <2>3. QED
    BY <2>1, <2>2
<1>4. QED
  BY <1>1, <1>2, <1>3, ListedKept DEF PageSettled, AnswersTrue

LEMMA AnsweredSettled ==
    ASSUME PageOK, PageSettled, Undisturbed, NEW r \in Refreshes, Answered(r)
    PROVE  PageSettled'
<1>1. refresh[r] \in Refresh /\ AnswersTrue(refresh[r])
  BY DEF PageOK, PageSettled, AnswersTrue
<1>2. CASE ConfigAnswered(r)
  BY <1>2, FreshAnswers, RefreshSettled DEF ConfigAnswered
<1>3. CASE StatusAnswered(r)
  <2> DEFINE x == [refresh[r] EXCEPT !.awaits = @ \ {"status"}, !.pill = Pill(engaged)]
  <2>1. AnswersTrue(x)
    BY <1>1 DEF AnswersTrue, Refresh
  <2>2. refresh' = [refresh EXCEPT ![r] = x] /\ UNCHANGED shown
    BY <1>3 DEF StatusAnswered
  <2> HIDE DEF x
  <2>3. QED
    BY <2>1, <2>2, RefreshSettled
<1>4. CASE ExecutionsAnswered(r)
  <2>1. PICK L \in SUBSET DOMAIN rows :
           /\ Listed(L)
           /\ refresh' = [refresh EXCEPT ![r].awaits = @ \ {"executions"}, ![r].list = L]
    BY <1>4 DEF ExecutionsAnswered, Listed
  <2> DEFINE x == [refresh[r] EXCEPT !.awaits = @ \ {"executions"}, !.list = L]
  <2>2. AnswersTrue(x)
    BY <1>1, <2>1 DEF AnswersTrue, Refresh
  <2>3. refresh' = [refresh EXCEPT ![r] = x] /\ UNCHANGED shown
    BY <1>4, <2>1 DEF ExecutionsAnswered
  <2> HIDE DEF x
  <2>4. QED
    BY <2>2, <2>3, RefreshSettled
<1>5. QED
  BY <1>2, <1>3, <1>4 DEF Answered

LEMMA RenderSettled ==
    ASSUME PageOK, PageSettled, Undisturbed, NEW r \in Refreshes, Render(r)
    PROVE  PageSettled'
<1>1. AnswersTrue(refresh[r]) /\ refresh[r].stage = "data" /\ refresh[r].awaits = {}
  BY DEF PageSettled, AnswersTrue, Render
<1>2. /\ shown' = [pill |-> refresh[r].pill, list |-> refresh[r].list]
      /\ refresh' = [refresh EXCEPT ![r] = Idle]
  BY DEF Render, Draw
<1>3. shown'.pill = Pill(engaged) /\ Listed(shown'.list)
  BY <1>1, <1>2 DEF AnswersTrue
<1>4. QED
  BY <1>2, <1>3, FreshAnswers, RefreshSettled

LEMMA SettledStep ==
    ASSUME PageOK, PageSettled, Undisturbed, [Next]_vars PROVE PageSettled'
<1>1. CASE UNCHANGED <<refresh, shown>>
  <2>1. UNCHANGED engaged
    BY DEF Undisturbed
  <2>2. QED
    BY <1>1, <2>1, ListedKept DEF PageSettled
<1>2. ASSUME NEW r \in Refreshes, Begin(r), UNCHANGED shown PROVE PageSettled'
  BY <1>2, FreshAnswers, RefreshSettled DEF Begin
<1>3. ASSUME NEW r \in Refreshes,
             TimerFires(r) \/ Answered(r) \/ RefreshFails(r) \/ Render(r)
      PROVE  PageSettled'
  BY <1>2, <1>3, AnsweredSettled, RenderSettled, FreshAnswers, RefreshSettled
     DEF TimerFires, RefreshFails, Abandon
<1>4. ASSUME NEW p \in Presses, PostReturns(p) PROVE PageSettled'
  BY <1>2, <1>4 DEF PostReturns
<1>5. ASSUME NEW p \in Presses, Press(p) \/ Posted(p) \/ PostFails(p) \/ OtherPosts(p)
      PROVE  PageSettled'
  BY <1>1, <1>5 DEF Press, Posted, PostFails, OtherPosts, page
<1>6. CASE FindUser \/ CreateUser \/ ReloadUser \/ BootstrapRaises \/ OtherCreates
           \/ StoreExecution \/ Kill \/ Restart \/ DatabaseFails \/ DatabaseRecovers
           \/ UNCHANGED vars
  BY <1>1, <1>6 DEF FindUser, CreateUser, ReloadUser, BootstrapRaises, OtherCreates,
                    StoreExecution, Kill, Restart, DatabaseFails, DatabaseRecovers, vars, page
<1>7. QED
  BY <1>3, <1>4, <1>5, <1>6 DEF Next

\* Once what the page shows is true, and no answer to a refresh in flight is older
\* than the last change, it stays true until the switch, the user or the executions
\* change again, however refreshes overlap, overtake each other or fail
\* (dashboard.py 80-107, 496-514).
THEOREM PageStaysSettled ==
    Spec => [][PageSettled /\ UNCHANGED <<engaged, user, rows>> => PageSettled']_vars
<1>1. Kinds /\ [Next]_vars =>
         [PageSettled /\ UNCHANGED <<engaged, user, rows>> => PageSettled']_vars
  BY SettledStep DEF Kinds, Undisturbed
<1>2. QED
  BY KindsInit, KindsNext, <1>1, PTL DEF Spec
=============================================================================
