--------------------------- MODULE AccountsProofs ---------------------------
(***************************************************************************)
(* Proofs about Accounts, for any accounts, employees and passwords, and   *)
(* any number of requests at once.                                         *)
(***************************************************************************)
EXTENDS Accounts, TLAPS

\* A request in progress has what its handler needs.
ReqFine(x) ==
    /\ x \in Request
    /\ \/ x = Idle
       \/ x.op = "login" /\ x.by \in User
       \/ x.op = "password" /\ x.by \in User /\ x.given \in Password
       \/ x.op = "create" /\ x.who \in User /\ x.role \in RoleName
       \/ x.op = "update" /\ x.by \in User /\ x.who \in User /\ x.set \in Patch
       \/ x.op \in {"terminate", "rehire"} /\ x.who \in Employee

TypeInv == TypeOK /\ \A s \in Session : ReqFine(req[s])

LEMMA IdleFine == ReqFine(Idle)
BY DEF Idle, Request, ReqFine

\* A step that gives one request a fine value keeps them all fine.
LEMMA OneChanges ==
    ASSUME TypeInv, NEW s \in Session, NEW x, ReqFine(x), req' = [req EXCEPT ![s] = x]
    PROVE  req' \in [Session -> Request] /\ \A t \in Session : ReqFine(req'[t])
<1>1. x \in Request
    BY DEF ReqFine
<1>2. req' \in [Session -> Request]
    BY <1>1 DEF TypeInv, TypeOK
<1>3. ASSUME NEW t \in Session PROVE ReqFine(req'[t])
    <2>1. req'[t] = IF t = s THEN x ELSE req[t]
        BY DEF TypeInv, TypeOK
    <2>2. CASE t = s
        BY <2>1, <2>2
    <2>3. CASE t # s
        BY <2>1, <2>3 DEF TypeInv
    <2> QED
        BY <2>2, <2>3
<1> QED
    BY <1>2, <1>3

\* So does one that ends a request.
LEMMA OneEnds ==
    ASSUME TypeInv, NEW s \in Session, End(s)
    PROVE  req' \in [Session -> Request] /\ \A t \in Session : ReqFine(req'[t])
BY IdleFine, OneChanges DEF End

\* Serving a start only drops requests.
LEMMA AllEnd ==
    ASSUME req' = [s \in Session |-> Idle]
    PROVE  req' \in [Session -> Request] /\ \A t \in Session : ReqFine(req'[t])
BY IdleFine DEF ReqFine

\* An account is one that exists exactly if it is not the empty one.
LEMMA AccountShape ==
    ASSUME TypeOK, NEW u \in User
    PROVE  /\ Exists(u) => acct[u] \in Account
           /\ ~Exists(u) => acct[u] = NoAccount
BY AccountAssumption DEF TypeOK, Exists, Account, NoAccount

LEMMA NewAccountFine ==
    ASSUME NEW role \in RoleName, NEW emp \in Employee \cup {None}, NEW pw \in Password
    PROVE  NewAccount(role, emp, pw) \in Account
BY DEF NewAccount, Account

\* A patch changes an account into an account of the same role.
LEMMA PatchedFine ==
    ASSUME NEW row \in Account, NEW set \in Patch
    PROVE  Patched(row, set) \in Account /\ Patched(row, set).role = row.role
<1>1. CASE set \in [active : BOOLEAN]
    <2>1. Patched(row, set) = [role |-> row.role, active |-> set.active,
                               emp |-> row.emp, pw |-> row.pw]
        BY <1>1 DEF Patched, Sets
    <2> QED
        BY <1>1, <2>1 DEF Account
<1>2. CASE set \in [emp : Employee \cup {None}]
    <2>1. Patched(row, set) = [role |-> row.role, active |-> row.active,
                               emp |-> set.emp, pw |-> row.pw]
        BY <1>2 DEF Patched, Sets
    <2> QED
        BY <1>2, <2>1 DEF Account
<1>3. CASE set \in [pw : Password]
    <2>1. Patched(row, set) = [role |-> row.role, active |-> row.active,
                               emp |-> row.emp, pw |-> set.pw]
        BY <1>3 DEF Patched, Sets
    <2> QED
        BY <1>3, <2>1 DEF Account
<1> QED
    BY <1>1, <1>2, <1>3 DEF Patch

LEMMA InitTypes == Init => TypeInv
<1> SUFFICES ASSUME Init PROVE TypeInv
    OBVIOUS
<1>1. \A s \in Session : req[s] = Idle
    BY DEF Init
<1>2. \A s \in Session : ReqFine(req[s])
    BY <1>1, IdleFine
<1>3. req \in [Session -> Request]
    BY IdleFine DEF Init, ReqFine
<1>4. TypeOK
    BY <1>3 DEF Init, TypeOK, Employment, BootStep, Setting
<1> QED
    BY <1>2, <1>4 DEF TypeInv

-----------------------------------------------------------------------------
(* Types *)

LEMMA ObserveTypes == ASSUME Observe PROVE steady' \in [Session -> BOOLEAN]
BY DEF Observe

LEMMA ServingFine == ASSUME Serving PROVE boot' \in [step : BootStep, on : SUBSET Setting]
BY DEF Serving, BootStep

LEMMA BootTypes ==
    ASSUME TypeInv, Boot, Observe
    PROVE  TypeInv'
<1> USE AccountAssumption
<1>0. steady' \in [Session -> BOOLEAN]
    BY ObserveTypes
<1>1. CASE Start
    <2>1. PICK on \in SUBSET Setting :
            boot' = [step |-> IF "SEED_ON_START" \in on THEN "seed?" ELSE "bootstrap?",
                     on |-> on]
        BY <1>1 DEF Start
    <2>2. boot' \in [step : BootStep, on : SUBSET Setting]
        BY <2>1 DEF BootStep
    <2> QED
        BY <1>0, <1>1, <2>2 DEF Start, BootOnly, TypeInv, TypeOK
<1>2. CASE SeedCheck
    BY <1>0, <1>2 DEF SeedCheck, Goto, BootOnly, TypeInv, TypeOK, BootStep
<1>3. CASE Wipe
    BY <1>0, <1>3 DEF Wipe, Goto, TypeInv, TypeOK, BootStep, Employment
<1>4. CASE SeedRoles
    BY <1>0, <1>4 DEF SeedRoles, Goto, BootOnly, TypeInv, TypeOK, BootStep, RoleName
<1>5. CASE SeedAdmin
    <2>1. PICK pw \in Password : acct' = [acct EXCEPT ![SeedHr] = NewAccount("HR", None, pw)]
        BY <1>5 DEF SeedAdmin
    <2>2. NewAccount("HR", None, pw) \in Account
        BY NewAccountFine DEF RoleName
    <2>3. acct' \in [User -> Account \cup {NoAccount}]
        BY <2>1, <2>2 DEF TypeInv, TypeOK
    <2> QED
        BY <1>0, <1>5, <2>3 DEF SeedAdmin, Goto, TypeInv, TypeOK, BootStep
<1>6. CASE SeedAccount
    <2>1. PICK a \in SeedStaff, pw \in Password :
            acct' = [acct EXCEPT ![a.user] = NewAccount("EMPLOYEE", a.employee, pw)]
        BY <1>6 DEF SeedAccount
    <2>2. a.employee \in Employee
        OBVIOUS
    <2>3. NewAccount("EMPLOYEE", a.employee, pw) \in Account
        BY <2>2, NewAccountFine DEF RoleName
    <2>4. acct' \in [User -> Account \cup {NoAccount}]
        BY <2>1, <2>3 DEF TypeInv, TypeOK
    <2> QED
        BY <1>0, <1>6, <2>4 DEF SeedAccount, TypeInv, TypeOK
<1>7. CASE BootstrapCheck
    <2>1. \E step \in BootStep : boot' = [boot EXCEPT !.step = step] \/ Serving
        BY <1>7 DEF BootstrapCheck, Goto, BootStep
    <2>2. boot' \in [step : BootStep, on : SUBSET Setting]
        BY <2>1, ServingFine DEF TypeInv, TypeOK
    <2> QED
        BY <1>0, <1>7, <2>2 DEF BootstrapCheck, BootOnly, TypeInv, TypeOK
<1>8. CASE BootstrapRoles
    BY <1>0, <1>8 DEF BootstrapRoles, Goto, BootOnly, TypeInv, TypeOK, BootStep, RoleName
<1>9. CASE BootstrapCount
    <2>1. \E step \in BootStep : boot' = [boot EXCEPT !.step = step] \/ Serving
        BY <1>9 DEF BootstrapCount, Goto, BootStep
    <2>2. boot' \in [step : BootStep, on : SUBSET Setting]
        BY <2>1, ServingFine DEF TypeInv, TypeOK
    <2> QED
        BY <1>0, <1>9, <2>2 DEF BootstrapCount, BootOnly, TypeInv, TypeOK
<1>10. CASE BootstrapAccount
    <2>1. PICK pw \in Password :
            acct' = [acct EXCEPT ![BootstrapUser] = NewAccount("HR", None, pw)]
        BY <1>10 DEF BootstrapAccount
    <2>2. NewAccount("HR", None, pw) \in Account
        BY NewAccountFine DEF RoleName
    <2>3. acct' \in [User -> Account \cup {NoAccount}]
        BY <2>1, <2>2 DEF TypeInv, TypeOK
    <2> QED
        BY <1>0, <1>10, <2>3 DEF BootstrapAccount, Serving, TypeInv, TypeOK, BootStep
<1>11. CASE SeedSample
    BY <1>0, <1>11 DEF SeedSample, Goto, BootOnly, TypeInv, TypeOK, BootStep
<1> QED
    BY <1>1, <1>2, <1>3, <1>4, <1>5, <1>6, <1>7, <1>8, <1>9, <1>10, <1>11 DEF Boot

\* A request that is let in leaves all but req alone.
LEMMA AdmitTypes ==
    ASSUME TypeInv, Observe, NEW s \in Session, NEW x, ReqFine(x),
           req' = [req EXCEPT ![s] = x], UNCHANGED <<state, boot, raced>>
    PROVE  TypeInv'
<1>1. req' \in [Session -> Request] /\ \A t \in Session : ReqFine(req'[t])
    BY OneChanges
<1>2. TypeOK'
    BY <1>1, ObserveTypes DEF TypeInv, TypeOK, state
<1> QED
    BY <1>1, <1>2 DEF TypeInv

LEMMA AskedTypes ==
    ASSUME TypeInv, Observe, NEW s \in Session, NEW u \in User, Asked(s, u)
    PROVE  TypeInv'
<1> USE AccountAssumption
<1>1. ASSUME NEW pw \in Password, StartLogin(s, u, pw) PROVE TypeInv'
    <2> DEFINE x == [Idle EXCEPT !.op = "login", !.by = u, !.emp = acct[u].emp]
    <2>1. acct[u].emp \in Employee \cup {None}
        BY DEF TypeInv, TypeOK, Account, NoAccount
    <2>2. ReqFine(x)
        BY <2>1 DEF ReqFine, Request, Idle
    <2>3. req' = [req EXCEPT ![s] = x] /\ UNCHANGED <<state, boot, raced>>
        BY <1>1 DEF StartLogin
    <2> HIDE DEF x
    <2> QED
        BY <2>2, <2>3, AdmitTypes
<1>2. ASSUME NEW pw \in Password, StartPassword(s, u, pw) PROVE TypeInv'
    <2> DEFINE x == [Idle EXCEPT !.op = "password", !.by = u, !.given = pw]
    <2>1. ReqFine(x)
        BY DEF ReqFine, Request, Idle
    <2>2. req' = [req EXCEPT ![s] = x] /\ UNCHANGED <<state, boot, raced>>
        BY <1>2 DEF StartPassword, Admit
    <2> HIDE DEF x
    <2> QED
        BY <2>1, <2>2, AdmitTypes
<1>3. ASSUME NEW who \in User, NEW role \in RoleName, NEW e \in Employee \cup {None},
             StartCreate(s, u, who, role, e)
      PROVE  TypeInv'
    <2> DEFINE x == [Idle EXCEPT !.op = "create", !.who = who, !.role = role, !.emp = e]
    <2>1. ReqFine(x)
        BY DEF ReqFine, Request, Idle
    <2>2. req' = [req EXCEPT ![s] = x] /\ UNCHANGED <<state, boot, raced>>
        BY <1>3 DEF StartCreate, Admit
    <2> HIDE DEF x
    <2> QED
        BY <2>1, <2>2, AdmitTypes
<1>4. ASSUME NEW who \in User, NEW set \in Patch, StartUpdate(s, u, who, set) PROVE TypeInv'
    <2> DEFINE x == [Idle EXCEPT !.op = "update", !.by = u, !.who = who, !.set = set]
    <2>1. ReqFine(x)
        BY DEF ReqFine, Request, Idle
    <2>2. req' = [req EXCEPT ![s] = x] /\ UNCHANGED <<state, boot, raced>>
        BY <1>4 DEF StartUpdate, Admit
    <2> HIDE DEF x
    <2> QED
        BY <2>1, <2>2, AdmitTypes
<1>5. ASSUME NEW e \in Employee, StartTerminate(s, u, e) PROVE TypeInv'
    <2> DEFINE x == [Idle EXCEPT !.op = "terminate", !.who = e]
    <2>1. ReqFine(x)
        BY DEF ReqFine, Request, Idle
    <2>2. req' = [req EXCEPT ![s] = x] /\ UNCHANGED <<state, boot, raced>>
        BY <1>5 DEF StartTerminate, Admit
    <2> HIDE DEF x
    <2> QED
        BY <2>1, <2>2, AdmitTypes
<1>6. ASSUME NEW e \in Employee, StartRehire(s, u, e) PROVE TypeInv'
    <2> DEFINE x == [Idle EXCEPT !.op = "rehire", !.who = e]
    <2>1. ReqFine(x)
        BY DEF ReqFine, Request, Idle
    <2>2. req' = [req EXCEPT ![s] = x] /\ UNCHANGED <<state, boot, raced>>
        BY <1>6 DEF StartRehire, Admit
    <2> HIDE DEF x
    <2> QED
        BY <2>1, <2>2, AdmitTypes
<1> QED
    BY <1>1, <1>2, <1>3, <1>4, <1>5, <1>6 DEF Asked

\* What each handler writes: the row of an account that exists, in its role, a row
\* where there was none, or no account at all.
LEMMA AccountWritten ==
    ASSUME TypeInv, NEW s \in Session, Answered(s)
    PROVE  \/ UNCHANGED acct
           \/ \E u \in User, row \in Account :
                 /\ acct' = [acct EXCEPT ![u] = row]
                 /\ Exists(u) => row.role = acct[u].role
                 /\ req[s].op = "password" => row.active = acct[u].active /\ Exists(u)
                 /\ req[s].op = "create" => row.active /\ ~Exists(u)
                 /\ req[s].op = "update" =>
                       /\ Exists(u) /\ u = req[s].who
                       /\ ~Deactivates(req[s].set) => row.active \/ row.active = acct[u].active
                 /\ req[s].op \in {"password", "create", "update"}
<1> DEFINE x == req[s]
<1> USE DEF TypeInv
<1>0. x \in Request /\ ReqFine(x)
    BY DEF ReqFine
<1>1. CASE ChangePassword(s)
    <2>1. x.op = "password" /\ Exists(x.by) /\ acct' = [acct EXCEPT ![x.by].pw = x.given]
        BY <1>1 DEF ChangePassword
    <2>2. x.by \in User /\ x.given \in Password
        BY <1>0, <2>1 DEF ReqFine, Idle
    <2>3. acct[x.by] \in Account
        BY <2>1, <2>2, AccountShape
    <2> DEFINE row == [acct[x.by] EXCEPT !.pw = x.given]
    <2>4. row \in Account /\ row.role = acct[x.by].role /\ row.active = acct[x.by].active
        BY <2>2, <2>3 DEF Account
    <2>5. acct' = [acct EXCEPT ![x.by] = row]
        BY <2>1
    <2> HIDE DEF row
    <2> QED
        BY <2>1, <2>2, <2>4, <2>5
<1>2. CASE CreateUser(s)
    <2>1. x.op = "create" /\ ~Exists(x.who)
        BY <1>2 DEF CreateUser
    <2>2. PICK pw \in Password :
            acct' = [acct EXCEPT ![x.who] = NewAccount(x.role, x.emp, pw)]
        BY <1>2 DEF CreateUser
    <2>3. x.who \in User /\ x.role \in RoleName /\ x.emp \in Employee \cup {None}
        BY <1>0, <2>1 DEF ReqFine, Idle, Request
    <2>4. NewAccount(x.role, x.emp, pw) \in Account /\ NewAccount(x.role, x.emp, pw).active
        BY <2>3, NewAccountFine DEF NewAccount
    <2> QED
        BY <2>1, <2>2, <2>3, <2>4
<1>3. CASE UpdateUser(s)
    <2>1. x.op = "update" /\ Exists(x.who)
          /\ acct' = [acct EXCEPT ![x.who] = Patched(@, x.set)]
        BY <1>3 DEF UpdateUser
    <2>2. x.who \in User /\ x.set \in Patch
        BY <1>0, <2>1 DEF ReqFine, Idle
    <2>3. acct[x.who] \in Account
        BY <2>1, <2>2, AccountShape
    <2> DEFINE row == Patched(acct[x.who], x.set)
    <2>4. row \in Account /\ row.role = acct[x.who].role
        BY <2>2, <2>3, PatchedFine
    <2>5. acct' = [acct EXCEPT ![x.who] = row]
        BY <2>1
    <2>6. ~Deactivates(x.set) => row.active \/ row.active = acct[x.who].active
        <3>1. CASE Sets(x.set, "active")
            BY <3>1 DEF Deactivates, Patched
        <3>2. CASE ~Sets(x.set, "active")
            BY <3>2 DEF Patched
        <3> QED
            BY <3>1, <3>2
    <2> HIDE DEF row
    <2> QED
        BY <2>1, <2>2, <2>4, <2>5, <2>6
<1>4. CASE FinishLogin(s) \/ TerminateEmployee(s) \/ RehireEmployee(s) \/ Fail(s)
    BY <1>4 DEF FinishLogin, TerminateEmployee, RehireEmployee, Fail, state
<1> QED
    BY <1>1, <1>2, <1>3, <1>4 DEF Answered

LEMMA AnsweredTypes ==
    ASSUME TypeInv, Observe, NEW s \in Session, Answered(s)
    PROVE  TypeInv'
<1>1. End(s)
    BY DEF Answered, FinishLogin, ChangePassword, CreateUser, UpdateUser,
           TerminateEmployee, RehireEmployee, Fail
<1>2. req' \in [Session -> Request] /\ \A t \in Session : ReqFine(req'[t])
    BY <1>1, OneEnds
<1>3. acct' \in [User -> Account \cup {NoAccount}]
    BY AccountWritten DEF TypeInv, TypeOK
<1>4. UNCHANGED <<roles, boot>>
    BY DEF Answered, FinishLogin, ChangePassword, CreateUser, UpdateUser,
           TerminateEmployee, RehireEmployee, Fail, state
<1>5. last' \in [Employee -> Employment]
    BY DEF Answered, FinishLogin, ChangePassword, CreateUser, UpdateUser,
           TerminateEmployee, RehireEmployee, Fail, state, TypeInv, TypeOK, Employment
<1>6. token' \in SUBSET User
    <2>1. CASE FinishLogin(s)
        <3>1. req[s].op = "login" /\ token' = token \cup {req[s].by}
            BY <2>1 DEF FinishLogin
        <3>2. req[s].by \in User
            BY <3>1 DEF TypeInv, ReqFine, Idle
        <3> QED
            BY <3>1, <3>2 DEF TypeInv, TypeOK
    <2>2. CASE ~FinishLogin(s)
        BY <2>2 DEF Answered, ChangePassword, CreateUser, UpdateUser,
                    TerminateEmployee, RehireEmployee, Fail, state, TypeInv, TypeOK
    <2> QED
        BY <2>1, <2>2
<1>7. raced' \in BOOLEAN
    BY DEF Answered, FinishLogin, ChangePassword, CreateUser, UpdateUser,
           TerminateEmployee, RehireEmployee, Fail, state, TypeInv, TypeOK
<1>8. TypeOK'
    BY <1>2, <1>3, <1>4, <1>5, <1>6, <1>7, ObserveTypes DEF TypeInv, TypeOK
<1> QED
    BY <1>2, <1>8 DEF TypeInv

LEMMA StepTypes == TypeInv /\ [Next]_vars => TypeInv'
<1> SUFFICES ASSUME TypeInv, [Next]_vars PROVE TypeInv'
    OBVIOUS
<1>1. CASE UNCHANGED vars
    BY <1>1 DEF vars, TypeInv, TypeOK
<1>2. CASE Boot /\ Observe
    BY <1>2, BootTypes
<1>3. CASE Stop /\ Observe
    <2>1. req' \in [Session -> Request] /\ \A t \in Session : ReqFine(req'[t])
        BY <1>3, AllEnd DEF Stop
    <2> QED
        BY <1>3, <2>1, ObserveTypes DEF Stop, TypeInv, TypeOK, BootStep
<1>4. ASSUME NEW e \in Employee, LastDayPasses(e), Observe PROVE TypeInv'
    BY <1>4, ObserveTypes DEF LastDayPasses, TypeInv, TypeOK, Employment
<1>5. ASSUME NEW u \in User, Expire(u), Observe PROVE TypeInv'
    BY <1>5, ObserveTypes DEF Expire, TypeInv, TypeOK
<1>6. ASSUME NEW s \in Session, Answered(s), Observe PROVE TypeInv'
    BY <1>6, AnsweredTypes
<1>7. ASSUME NEW s \in Session, NEW u \in User, Asked(s, u), Observe PROVE TypeInv'
    BY <1>7, AskedTypes
<1> QED
    BY <1>1, <1>2, <1>3, <1>4, <1>5, <1>6, <1>7 DEF Next, Step

\* Every variable is of its type, and a request carries what its handler needs.
THEOREM TypeCorrect == Spec => []TypeInv
<1>1. Init => TypeInv
    BY InitTypes
<1>2. TypeInv /\ [Next]_vars => TypeInv'
    BY StepTypes
<1> QED
    BY <1>1, <1>2, PTL DEF Spec

\* Type correctness of accounts, tokens, requests and the container's start.
THEOREM TypesHold == Spec => []TypeOK
<1>1. TypeInv => TypeOK
    BY DEF TypeInv
<1> QED
    BY <1>1, TypeCorrect, PTL

-----------------------------------------------------------------------------
(* Starting the container *)

\* Between a check that found no account and the first account there is none, and
\* nobody is served before the start is over.
Unpopulated ==
    {"wipe", "seed HR", "seed EMPLOYEE", "seed admin",
     "role HR", "role EMPLOYEE", "users?", "first user"}

BootInv ==
    /\ boot.step \in Unpopulated => NoUsers
    /\ boot.step # "serving" => \A s \in Session : req[s] = Idle

\* The accounts of a step that adds some: those there were are untouched.
Grows == \A u \in User : Exists(u) => acct'[u] = acct[u]

LEMMA InitBoot == Init => BootInv
BY DEF Init, BootInv, Unpopulated

LEMMA BootGrows ==
    ASSUME TypeInv, BootInv, Boot
    PROVE  Grows
<1> USE AccountAssumption DEF TypeInv, TypeOK, Grows
<1>1. CASE UNCHANGED acct
    BY <1>1
<1>2. CASE Wipe
    BY <1>2 DEF Wipe, BootInv, Unpopulated, NoUsers
<1>3. CASE SeedAdmin
    BY <1>3 DEF SeedAdmin, BootInv, Unpopulated, NoUsers
<1>4. CASE SeedAccount
    <2>1. PICK a \in SeedStaff, pw \in Password :
            /\ ~Exists(a.user)
            /\ acct' = [acct EXCEPT ![a.user] = NewAccount("EMPLOYEE", a.employee, pw)]
        BY <1>4 DEF SeedAccount
    <2> QED
        BY <2>1
<1>5. CASE BootstrapAccount
    BY <1>5 DEF BootstrapAccount, BootInv, Unpopulated, NoUsers
<1>6. CASE \/ Start \/ SeedCheck \/ SeedRoles \/ SeedSample
            \/ BootstrapCheck \/ BootstrapRoles \/ BootstrapCount
    BY <1>1, <1>6 DEF Start, SeedCheck, SeedRoles, SeedSample, BootstrapCheck, BootstrapRoles,
                      BootstrapCount, BootOnly
<1> QED
    BY <1>1, <1>2, <1>3, <1>4, <1>5, <1>6 DEF Boot

LEMMA BootKeepsBoot ==
    ASSUME TypeInv, BootInv, Boot
    PROVE  BootInv'
<1> USE AccountAssumption DEF TypeInv, TypeOK, BootInv, Unpopulated, NoUsers, Exists, BootOnly
<1>0. boot \in [step : BootStep, on : SUBSET Setting]
    OBVIOUS
<1>1. CASE Start
    BY <1>1 DEF Start
<1>2. CASE SeedCheck
    BY <1>0, <1>2 DEF SeedCheck, Goto
<1>3. CASE Wipe
    BY <1>0, <1>3 DEF Wipe, Goto, NoAccount
<1>4. CASE SeedRoles
    BY <1>0, <1>4 DEF SeedRoles, Goto
<1>5. CASE SeedAdmin
    BY <1>0, <1>5 DEF SeedAdmin, Goto
<1>6. CASE SeedAccount
    BY <1>0, <1>6 DEF SeedAccount, Goto
<1>7. CASE BootstrapCheck
    <2>1. CASE Serving
        BY <1>7, <2>1 DEF BootstrapCheck, Serving
    <2>2. CASE NoUsers /\ Goto("role HR")
        BY <1>0, <1>7, <2>2 DEF BootstrapCheck, Goto
    <2> QED
        BY <1>7, <2>1, <2>2 DEF BootstrapCheck
<1>8. CASE BootstrapRoles
    BY <1>0, <1>8 DEF BootstrapRoles, Goto
<1>9. CASE BootstrapCount
    BY <1>0, <1>9 DEF BootstrapCount, Goto, Serving
<1>10. CASE BootstrapAccount
    BY <1>0, <1>10 DEF BootstrapAccount, Serving
<1>11. CASE SeedSample
    BY <1>0, <1>11 DEF SeedSample, Goto
<1> QED
    BY <1>1, <1>2, <1>3, <1>4, <1>5, <1>6, <1>7, <1>8, <1>9, <1>10, <1>11 DEF Boot

\* A request is only there while the server answers.
LEMMA AnsweredServes ==
    ASSUME BootInv, NEW s \in Session, Answered(s)
    PROVE  boot.step = "serving" /\ boot' = boot
BY DEF BootInv, Answered, FinishLogin, ChangePassword, CreateUser, UpdateUser,
       TerminateEmployee, RehireEmployee, Fail, Idle

LEMMA AskedServes ==
    ASSUME NEW s \in Session, NEW u \in User, Asked(s, u)
    PROVE  boot.step = "serving" /\ UNCHANGED <<roles, acct, last, token, boot, raced>>
BY DEF Asked, StartLogin, StartPassword, StartCreate, StartUpdate, StartTerminate,
       StartRehire, Admit, Serve, state

LEMMA StepBoot == TypeInv /\ BootInv /\ [Next]_vars => BootInv'
<1> SUFFICES ASSUME TypeInv, BootInv, [Next]_vars PROVE BootInv'
    OBVIOUS
<1>1. CASE UNCHANGED vars
    BY <1>1 DEF vars, BootInv, NoUsers, Exists
<1>2. CASE Boot
    BY <1>2, BootKeepsBoot
<1>3. CASE Stop
    BY <1>3 DEF Stop, BootInv, Unpopulated
<1>4. ASSUME NEW e \in Employee, LastDayPasses(e) PROVE BootInv'
    BY <1>4 DEF LastDayPasses, BootInv, NoUsers, Exists
<1>5. ASSUME NEW u \in User, Expire(u) PROVE BootInv'
    BY <1>5 DEF Expire, BootInv, NoUsers, Exists
<1>6. ASSUME NEW s \in Session, Answered(s) PROVE BootInv'
    BY <1>6, AnsweredServes DEF BootInv, Unpopulated
<1>7. ASSUME NEW s \in Session, NEW u \in User, Asked(s, u) PROVE BootInv'
    BY <1>7, AskedServes DEF BootInv, Unpopulated
<1> QED
    BY <1>1, <1>2, <1>3, <1>4, <1>5, <1>6, <1>7 DEF Next, Step

LEMMA BootHolds == Spec => []BootInv
<1>1. Init => BootInv
    BY InitBoot
<1>2. TypeInv /\ BootInv /\ [Next]_vars => BootInv'
    BY StepBoot
<1> QED
    BY <1>1, <1>2, TypeCorrect, PTL DEF Spec

\* An account that exists goes on existing in its role through every step.
LEMMA StepSurvives ==
    ASSUME TypeInv, BootInv, [Next]_vars, NEW u \in User, Exists(u)
    PROVE  acct'[u].role = acct[u].role
<1>1. CASE Boot
    BY <1>1, BootGrows DEF Grows
<1>2. ASSUME NEW s \in Session, Answered(s) PROVE acct'[u].role = acct[u].role
    BY <1>2, AccountWritten DEF TypeInv, TypeOK
<1>3. ASSUME NEW s \in Session, NEW v \in User, Asked(s, v) PROVE acct' = acct
    BY <1>3, AskedServes
<1>4. CASE UNCHANGED acct
    BY <1>4
<1> QED
    BY <1>1, <1>2, <1>3, <1>4 DEF Next, Step, Stop, LastDayPasses, Expire, vars

\* No start of the container, wherever it stops, and no handler costs anybody their
\* account.
THEOREM NobodyLost == Spec => AccountsSurvive
<1>1. TypeInv /\ BootInv /\ [Next]_vars
        => [\A u \in User : Exists(u) => acct'[u].role = acct[u].role]_vars
    BY StepSurvives
<1> QED
    BY <1>1, TypeCorrect, BootHolds, PTL DEF Spec, AccountsSurvive

-----------------------------------------------------------------------------
(* Signing in *)

\* What a sign-in in progress has read of an account still holds while the account
\* and the employment stay as they are.
LoginInv ==
    \A s \in Session : req[s].op = "login" /\ steady[s] =>
        LET u == req[s].by IN
        Exists(u) /\ acct[u].active /\ req[s].emp = acct[u].emp

\* A step that does not start a sign-in keeps what those under way have read.
LEMMA LoginsKept ==
    ASSUME TypeInv, LoginInv, Observe, NEW s \in Session,
           req'[s] = req[s] \/ req'[s].op # "login"
    PROVE  req'[s].op = "login" /\ steady'[s] =>
              LET u == req'[s].by IN
              acct'[u].role # None /\ acct'[u].active /\ req'[s].emp = acct'[u].emp
<1> SUFFICES ASSUME req'[s] = req[s], req[s].op = "login", steady'[s]
             PROVE  LET u == req[s].by IN
                    acct'[u].role # None /\ acct'[u].active /\ req[s].emp = acct'[u].emp
    OBVIOUS
<1>1. req[s].by \in User
    BY DEF TypeInv, ReqFine, Idle
<1>2. steady[s] /\ Reads(req[s].by)' = Reads(req[s].by)
    <2>1. \A u \in User : req[s].op = "login" /\ req[s].by = u
                         => steady[s] /\ Reads(u)' = Reads(u)
        BY DEF Observe
    <2> QED
        BY <1>1, <2>1
<1> QED
    BY <1>1, <1>2 DEF LoginInv, Reads, Exists

\* Only a request for a sign-in starts one, and what it reads is there.
LEMMA LoginStarts ==
    ASSUME TypeInv, NEW s \in Session, NEW u \in User, Asked(s, u), Observe, NEW t \in Session
    PROVE  \/ req'[t] = req[t] \/ req'[t].op # "login"
           \/ /\ req'[t].by = u /\ req'[t].emp = acct[u].emp
              /\ Exists(u) /\ acct[u].active /\ UNCHANGED acct
<1>1. CASE t # s
    BY <1>1 DEF Asked, StartLogin, StartPassword, StartCreate, StartUpdate, StartTerminate,
                StartRehire, Admit, TypeInv, TypeOK
<1>2. CASE t = s
    <2>1. ASSUME NEW pw \in Password, StartLogin(s, u, pw)
          PROVE  /\ req'[t].by = u /\ req'[t].emp = acct[u].emp
                 /\ Exists(u) /\ acct[u].active /\ UNCHANGED acct
        BY <1>2, <2>1 DEF StartLogin, TypeInv, TypeOK, Idle, state
    <2>2. CASE ~\E pw \in Password : StartLogin(s, u, pw)
        <3>1. ASSUME NEW hr, NEW x, Admit(s, u, hr, x), x.op # "login"
              PROVE  req'[t].op # "login"
            BY <1>2, <3>1 DEF Admit, TypeInv, TypeOK
        <3>2. ASSUME NEW pw \in Password, StartPassword(s, u, pw)
              PROVE  req'[t].op # "login"
            BY <3>1, <3>2 DEF StartPassword, Idle
        <3>3. ASSUME NEW who, NEW role, NEW e, StartCreate(s, u, who, role, e)
              PROVE  req'[t].op # "login"
            BY <3>1, <3>3 DEF StartCreate, Idle
        <3>4. ASSUME NEW who, NEW set, StartUpdate(s, u, who, set)
              PROVE  req'[t].op # "login"
            BY <3>1, <3>4 DEF StartUpdate, Idle
        <3>5. ASSUME NEW e, StartRehire(s, u, e) \/ StartTerminate(s, u, e)
              PROVE  req'[t].op # "login"
            BY <3>1, <3>5 DEF StartRehire, StartTerminate, Idle
        <3> QED
            BY <2>2, <3>2, <3>3, <3>4, <3>5 DEF Asked
    <2> QED
        BY <2>1, <2>2
<1> QED
    BY <1>1, <1>2

LEMMA InitLogin == Init => LoginInv
BY DEF Init, LoginInv, Idle

LEMMA StepLogin == TypeInv /\ LoginInv /\ [Next]_vars => LoginInv'
<1> SUFFICES ASSUME TypeInv, LoginInv, [Next]_vars PROVE LoginInv'
    OBVIOUS
<1>1. CASE UNCHANGED vars
    BY <1>1 DEF vars, LoginInv, Exists
<1>2. CASE Next
    <2>0. Observe
        BY <1>2 DEF Next
    <2> SUFFICES ASSUME NEW t \in Session
                 PROVE  req'[t].op = "login" /\ steady'[t] =>
                          LET u == req'[t].by IN
                          acct'[u].role # None /\ acct'[u].active /\ req'[t].emp = acct'[u].emp
        BY DEF LoginInv, Exists
    <2>1. CASE req'[t] = req[t] \/ req'[t].op # "login"
        BY <2>0, <2>1, LoginsKept
    <2>2. CASE \E s \in Session, u \in User : Asked(s, u)
        BY <2>0, <2>1, <2>2, LoginStarts DEF Exists
    <2>3. CASE Boot \/ \E e \in Employee : LastDayPasses(e)
        BY <2>1, <2>3 DEF Boot, Start, SeedCheck, Wipe, SeedRoles, SeedAdmin, SeedAccount, SeedSample,
            BootstrapCheck, BootstrapRoles, BootstrapCount, BootstrapAccount, BootOnly,
            LastDayPasses
    <2>4. CASE Stop \/ \E u \in User : Expire(u)
        BY <2>1, <2>4 DEF Stop, Expire, Idle
    <2>5. ASSUME NEW s \in Session, Answered(s) PROVE req'[t] = req[t] \/ req'[t].op # "login"
        <3>1. End(s)
            BY <2>5 DEF Answered, FinishLogin, ChangePassword, CreateUser, UpdateUser,
                        TerminateEmployee, RehireEmployee, Fail
        <3> QED
            BY <3>1 DEF End, TypeInv, TypeOK, Idle
    <2> QED
        BY <1>2, <2>1, <2>2, <2>3, <2>4, <2>5 DEF Next, Step
<1> QED
    BY <1>1, <1>2

\* Handing out a token ends the request of the sign-in whose employment it looked at.
LEMMA TokenGiven ==
    ASSUME TypeInv, LoginInv, [Next]_vars, NEW s \in Session,
           req[s].op = "login", steady[s], req'[s] # req[s], req[s].by \in token' \ token
    PROVE  MayAct(req[s].by)
<1>1. PICK t \in Session : FinishLogin(t)
    <2>1. Boot => UNCHANGED token
        BY DEF Boot, Start, SeedCheck, Wipe, SeedRoles, SeedAdmin, SeedAccount, SeedSample,
            BootstrapCheck, BootstrapRoles, BootstrapCount, BootstrapAccount, BootOnly
    <2>2. \A t \in Session : Answered(t) => FinishLogin(t) \/ UNCHANGED token
        BY DEF Answered, ChangePassword, CreateUser, UpdateUser, TerminateEmployee,
            RehireEmployee, Fail, state
    <2>3. \A t \in Session, u \in User : Asked(t, u) => UNCHANGED token
        BY AskedServes
    <2>4. (Stop \/ \E e \in Employee : LastDayPasses(e)) => UNCHANGED token
        BY DEF Stop, LastDayPasses
    <2>5. (\E u \in User : Expire(u)) => token' \subseteq token
        BY DEF Expire
    <2> QED
        BY <2>1, <2>2, <2>3, <2>4, <2>5 DEF Next, Step, vars
<1>2. t = s
    BY <1>1 DEF FinishLogin, End, TypeInv, TypeOK
<1>3. req[s].emp # None => ~Ended(req[s].emp)
    BY <1>1, <1>2 DEF FinishLogin
<1> QED
    BY <1>3 DEF LoginInv, MayAct

\* Whoever is given a token gets in with it, if account and employment were left
\* alone while the sign-in was under way.
THEOREM SignInHolds == Spec => SignInWorks
<1>1. Init => LoginInv
    BY InitLogin
<1>2. TypeInv /\ LoginInv /\ [Next]_vars => LoginInv'
    BY StepLogin
<1>3. TypeInv /\ LoginInv /\ [Next]_vars =>
        [\A s \in Session :
            /\ req[s].op = "login" /\ steady[s] /\ req'[s] # req[s]
            /\ req[s].by \in token' \ token
            => MayAct(req[s].by)]_vars
    BY TokenGiven
<1> QED
    BY <1>1, <1>2, <1>3, TypeCorrect, PTL DEF Spec, SignInWorks

-----------------------------------------------------------------------------
(* HR *)

\* The author of an update is an HR account that exists, and not the one it
\* deactivates.
UpdateInv ==
    \A s \in Session : req[s].op = "update" =>
        /\ Exists(req[s].by) /\ Hr(req[s].by)
        /\ ~(Deactivates(req[s].set) /\ req[s].who = req[s].by)

HrInv == UpdateInv /\ HrRemains

LEMMA InitHr == Init => HrInv
BY DEF Init, HrInv, UpdateInv, HrRemains, Administrators, Idle, Exists, NoAccount

LEMMA UpdateKept ==
    ASSUME TypeInv, BootInv, UpdateInv, [Next]_vars
    PROVE  UpdateInv'
<1> SUFFICES ASSUME NEW t \in Session, req'[t].op = "update"
             PROVE  /\ acct'[req'[t].by].role = "HR"
                    /\ ~(Deactivates(req'[t].set) /\ req'[t].who = req'[t].by)
    BY AccountAssumption DEF UpdateInv, Exists, Hr, Deactivates, Sets, RoleName
<1>1. CASE req'[t] = req[t]
    <2>1. req[t].by \in User /\ Exists(req[t].by) /\ acct[req[t].by].role = "HR"
        BY <1>1 DEF UpdateInv, TypeInv, ReqFine, Idle, Hr
    <2> QED
        BY <1>1, <2>1, StepSurvives DEF UpdateInv
<1>2. ASSUME NEW s \in Session, NEW u \in User, Asked(s, u), req'[t] # req[t]
      PROVE  /\ acct'[req'[t].by].role = "HR"
             /\ ~(Deactivates(req'[t].set) /\ req'[t].who = req'[t].by)
    <2>1. s = t
        BY <1>2 DEF Asked, StartLogin, StartPassword, StartCreate, StartUpdate, StartTerminate,
                    StartRehire, Admit, TypeInv, TypeOK
    <2>2. PICK who \in User, set \in Patch : StartUpdate(s, u, who, set)
        <3>1. \A pw \in Password : ~StartLogin(s, u, pw)
            <4> SUFFICES ASSUME NEW pw, StartLogin(s, u, pw) PROVE req'[t].op = "login"
                OBVIOUS
            <4>1. req'[t] = [Idle EXCEPT !.op = "login", !.by = u, !.emp = acct[u].emp]
                BY <2>1 DEF StartLogin, TypeInv, TypeOK
            <4> QED
                BY <4>1 DEF Idle
        <3>2. \A pw \in Password : ~StartPassword(s, u, pw)
            <4> SUFFICES ASSUME NEW pw, StartPassword(s, u, pw) PROVE req'[t].op = "password"
                OBVIOUS
            <4>1. req'[t] = [Idle EXCEPT !.op = "password", !.by = u, !.given = pw]
                BY <2>1 DEF StartPassword, Admit, TypeInv, TypeOK
            <4> QED
                BY <4>1 DEF Idle
        <3>3. \A who \in User, role \in RoleName, e \in Employee \cup {None} :
                 ~StartCreate(s, u, who, role, e)
            <4> SUFFICES ASSUME NEW who, NEW role, NEW e, StartCreate(s, u, who, role, e)
                         PROVE  req'[t].op = "create"
                OBVIOUS
            <4>1. req'[t] = [Idle EXCEPT !.op = "create", !.who = who, !.role = role, !.emp = e]
                BY <2>1 DEF StartCreate, Admit, TypeInv, TypeOK
            <4> QED
                BY <4>1 DEF Idle
        <3>4. \A e \in Employee : ~StartRehire(s, u, e) /\ ~StartTerminate(s, u, e)
            <4> SUFFICES ASSUME NEW e, StartRehire(s, u, e) \/ StartTerminate(s, u, e)
                         PROVE  req'[t].op \in {"rehire", "terminate"}
                OBVIOUS
            <4>1. \/ req'[t] = [Idle EXCEPT !.op = "rehire", !.who = e]
                  \/ req'[t] = [Idle EXCEPT !.op = "terminate", !.who = e]
                BY <2>1 DEF StartRehire, StartTerminate, Admit, TypeInv, TypeOK
            <4> QED
                BY <4>1 DEF Idle
        <3> QED
            BY <1>2, <3>1, <3>2, <3>3, <3>4 DEF Asked
    <2>3. req'[t].by = u /\ req'[t].who = who /\ req'[t].set = set
        BY <2>1, <2>2 DEF StartUpdate, Admit, TypeInv, TypeOK, Idle
    <2>4. acct'[u].role = "HR"
        BY <2>2 DEF StartUpdate, Admit, Hr, state
    <2> QED
        BY <2>2, <2>3, <2>4 DEF StartUpdate
<1>3. ASSUME NEW s \in Session, Answered(s) PROVE req'[t] = req[t]
    <2>1. End(s)
        BY <1>3 DEF Answered, FinishLogin, ChangePassword, CreateUser, UpdateUser,
                    TerminateEmployee, RehireEmployee, Fail
    <2> QED
        BY <2>1 DEF End, TypeInv, TypeOK, Idle
<1>4. CASE Boot \/ \E e \in Employee : LastDayPasses(e)
    BY <1>1, <1>4 DEF Boot, Start, SeedCheck, Wipe, SeedRoles, SeedAdmin, SeedAccount, SeedSample,
        BootstrapCheck, BootstrapRoles, BootstrapCount, BootstrapAccount, BootOnly,
        LastDayPasses
<1>5. CASE Stop \/ \E u \in User : Expire(u)
    BY <1>1, <1>5 DEF Stop, Expire, Idle
<1>6. CASE UNCHANGED vars
    BY <1>1, <1>6 DEF vars
<1> QED
    BY <1>1, <1>2, <1>3, <1>4, <1>5, <1>6 DEF Next, Step

\* The start of the container adds accounts, and the first HR account is active.
LEMMA BootKeepsHr ==
    ASSUME TypeInv, BootInv, HrRemains, Boot
    PROVE  HrRemains'
<1>0. Grows /\ UNCHANGED raced
    BY BootGrows DEF Boot, Start, SeedCheck, Wipe, SeedRoles, SeedAdmin, SeedAccount, SeedSample,
        BootstrapCheck, BootstrapRoles, BootstrapCount, BootstrapAccount, BootOnly
<1>1. CASE raced \/ \E u \in Administrators : acct[u].active
    BY <1>0, <1>1 DEF HrRemains, Administrators, Grows, Exists, Hr
<1>2. CASE Administrators = {}
    <2>1. CASE \E u \in User, pw \in Password :
                  acct' = [acct EXCEPT ![u] = NewAccount("HR", None, pw)]
        <3>1. PICK u \in User : acct'[u].role = "HR" /\ acct'[u].active
            BY <2>1 DEF NewAccount, TypeInv, TypeOK
        <3> QED
            BY <3>1, AccountAssumption DEF HrRemains, Administrators, Exists, Hr, RoleName
    <2>2. CASE \A u \in User : acct'[u].role = "HR" => acct[u].role = "HR"
        BY <1>2, <2>2, AccountAssumption DEF HrRemains, Administrators, Exists, Hr, RoleName
    <2>3. CASE Wipe
        BY <2>2, <2>3, AccountAssumption DEF Wipe, NoAccount, RoleName
    <2>4. CASE SeedAccount
        <3>1. PICK a \in SeedStaff, pw \in Password :
                acct' = [acct EXCEPT ![a.user] = NewAccount("EMPLOYEE", a.employee, pw)]
            BY <2>4 DEF SeedAccount
        <3>2. \A u \in User : acct'[u].role = "HR" => acct[u].role = "HR"
            BY <3>1 DEF NewAccount, TypeInv, TypeOK
        <3> QED
            BY <2>2, <3>2
    <2>5. CASE SeedAdmin \/ BootstrapAccount
        BY <2>1, <2>5, AccountAssumption DEF SeedAdmin, BootstrapAccount
    <2>6. CASE UNCHANGED acct
        BY <2>2, <2>6
    <2> QED
        BY <2>3, <2>4, <2>5, <2>6 DEF Boot, Start, SeedCheck, SeedRoles, SeedSample, BootstrapCheck,
            BootstrapRoles, BootstrapCount, BootOnly
<1> QED
    BY <1>1, <1>2 DEF HrRemains

\* Of the handlers only an update deactivates, and its author is an HR account that
\* stays as it is.
LEMMA AnsweredKeepsHr ==
    ASSUME TypeInv, UpdateInv, HrRemains, NEW s \in Session, Answered(s)
    PROVE  HrRemains'
<1> USE DEF HrRemains, Administrators, Exists, Hr
<1> DEFINE x == req[s]
<1>0. raced => raced'
    BY DEF Answered, FinishLogin, ChangePassword, CreateUser, UpdateUser,
           TerminateEmployee, RehireEmployee, Fail
<1>1. CASE UNCHANGED acct
    BY <1>0, <1>1
<1>2. CASE ~UNCHANGED acct
    <2>1. PICK u \in User, row \in Account :
                 /\ acct' = [acct EXCEPT ![u] = row]
                 /\ Exists(u) => row.role = acct[u].role
                 /\ x.op = "password" => row.active = acct[u].active /\ Exists(u)
                 /\ x.op = "create" => row.active /\ ~Exists(u)
                 /\ x.op = "update" =>
                       /\ Exists(u) /\ u = x.who
                       /\ ~Deactivates(x.set) => row.active \/ row.active = acct[u].active
                 /\ x.op \in {"password", "create", "update"}
        BY <1>2, AccountWritten
    <2>2. \A v \in User : acct'[v] = IF v = u THEN row ELSE acct[v]
        BY <2>1 DEF TypeInv, TypeOK
    <2>3. CASE x.op = "update" /\ Deactivates(x.set)
        <3>1. UpdateUser(s)
            BY <1>2, <2>3 DEF Answered, FinishLogin, ChangePassword, CreateUser,
                TerminateEmployee, RehireEmployee, Fail, state
        <3>2. x.by \in User /\ Exists(x.by) /\ Hr(x.by) /\ x.by # u
            BY <2>1, <2>3 DEF UpdateInv, TypeInv, ReqFine, Idle
        <3>3. CASE acct[x.by].active
            BY <2>2, <3>2, <3>3
        <3>4. CASE ~acct[x.by].active
            BY <2>3, <3>1, <3>4 DEF UpdateUser
        <3> QED
            BY <3>3, <3>4
    <2>4. CASE ~(x.op = "update" /\ Deactivates(x.set))
        <3>1. Exists(u) => row.active \/ row.active = acct[u].active
            BY <2>1, <2>4
        <3>2. ~Exists(u) => row.active
            BY <2>1, <2>4
        <3> QED
            BY <1>0, <2>1, <2>2, <3>1, <3>2
    <2> QED
        BY <2>3, <2>4
<1> QED
    BY <1>1, <1>2

LEMMA StepHr == TypeInv /\ BootInv /\ HrInv /\ [Next]_vars => HrInv'
<1> SUFFICES ASSUME TypeInv, BootInv, UpdateInv, HrRemains, [Next]_vars PROVE HrRemains'
    BY UpdateKept DEF HrInv
<1>1. CASE Boot
    BY <1>1, BootKeepsHr
<1>2. ASSUME NEW s \in Session, Answered(s) PROVE HrRemains'
    BY <1>2, AnsweredKeepsHr
<1>3. ASSUME NEW s \in Session, NEW u \in User, Asked(s, u) PROVE UNCHANGED <<acct, raced>>
    BY <1>3, AskedServes
<1>4. CASE UNCHANGED <<acct, raced>>
    BY <1>4 DEF HrRemains, Administrators, Exists, Hr
<1> QED
    BY <1>1, <1>2, <1>3, <1>4 DEF Next, Step, Stop, LastDayPasses, Expire, vars

\* However HR accounts deactivate each other, one of them stays active, unless one
\* was deactivated while its own deactivation of another was under way.
THEOREM HrHolds == Spec => []HrRemains
<1>1. Init => HrInv
    BY InitHr
<1>2. TypeInv /\ BootInv /\ HrInv /\ [Next]_vars => HrInv'
    BY StepHr
<1>3. HrInv => HrRemains
    BY DEF HrInv
<1> QED
    BY <1>1, <1>2, <1>3, TypeCorrect, BootHolds, PTL DEF Spec

=============================================================================
