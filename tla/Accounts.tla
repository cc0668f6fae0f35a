------------------------------ MODULE Accounts ------------------------------
(***************************************************************************)
(* Accounts and who may act with them: the container's start (migration,   *)
(* seed, bootstrap), signing in, the lookup in front of every request, the *)
(* password and account handlers, and the employment that ends meanwhile.  *)
(*                                                                         *)
(* A token is good for whoever's id it carries until it expires; there is  *)
(* no revocation list.  What it allows is decided by one lookup of the     *)
(* account at the start of a request, and the handler behind it writes     *)
(* later.  A refusal (401, 403, 400) leaves no trace and is not a step; a  *)
(* conflict found by the write ends the request as Fail does.              *)
(*                                                                         *)
(* An account is its e-mail address, which is unique.  Of an employee only *)
(* this matters here: whether the latest employment is open, is going to   *)
(* end, or has ended.                                                      *)
(***************************************************************************)
EXTENDS FiniteSets

CONSTANTS
    User,           \* e-mail addresses
    Employee,
    Password,
    Session,        \* requests being served at once
    BootstrapUser,  \* BOOTSTRAP_HR_EMAIL
    SeedHr,         \* the HR account of the demo data
    SeedStaff,      \* its other accounts, as [user, employee]
    None

RoleName == {"HR", "EMPLOYEE"}

ASSUME AccountAssumption ==
    /\ BootstrapUser \in User /\ SeedHr \in User
    /\ SeedStaff \subseteq [user : User \ {SeedHr}, employee : Employee]
    /\ None \notin User \cup Employee \cup Password
    /\ None \notin RoleName

VARIABLES
    roles,      \* Role rows, by name
    acct,       \* User rows by e-mail; role is None in one that does not exist
    last,       \* each employee's latest employment
    token,      \* accounts that somebody holds an unexpired token of
    req,        \* requests in progress
    boot,       \* the container: how far its start is, under which settings
    steady,     \* history: the account and employment a request reads stay as they are
    raced       \* history: an account was deactivated by one that already was

vars == <<roles, acct, last, token, req, boot, steady, raced>>
state == <<roles, acct, last, token>>

NoAccount == [role |-> None, emp |-> None, active |-> FALSE, pw |-> None]
Account ==
    [role : RoleName, emp : Employee \cup {None}, active : BOOLEAN, pw : Password]
Idle ==
    [op |-> "none", by |-> None, emp |-> None, given |-> None,
     who |-> None, role |-> None, set |-> None]

\* What a PATCH of an account carries; one with two keys is one with each in turn.
Patch == [active : BOOLEAN] \cup [emp : Employee \cup {None}] \cup [pw : Password]

Request ==
    [op : {"none", "login", "password", "create", "update", "terminate", "rehire"},
     by : User \cup {None}, emp : Employee \cup {None},
     given : Password \cup {None}, who : User \cup Employee \cup {None},
     role : RoleName \cup {None}, set : Patch \cup {None}]

Setting == {"SEED_ON_START", "BOOTSTRAP_ON_START"}
Employment == {"open", "notice", "ended"}
BootStep ==
    {"down", "seed?", "wipe", "seed HR", "seed EMPLOYEE", "seed admin", "seed staff",
     "bootstrap?", "role HR", "role EMPLOYEE", "users?", "first user", "serving"}

TypeOK ==
    /\ roles \in SUBSET RoleName
    /\ acct \in [User -> Account \cup {NoAccount}]
    /\ last \in [Employee -> Employment]
    /\ token \in SUBSET User
    /\ req \in [Session -> Request]
    /\ boot \in [step : BootStep, on : SUBSET Setting]
    /\ steady \in [Session -> BOOLEAN]
    /\ raced \in BOOLEAN

\* A fresh database and no container yet.
Init ==
    /\ roles = {}
    /\ acct = [u \in User |-> NoAccount]
    /\ last = [e \in Employee |-> "open"]
    /\ token = {}
    /\ req = [s \in Session |-> Idle]
    /\ boot = [step |-> "down", on |-> {}]
    /\ steady = [s \in Session |-> TRUE]
    /\ raced = FALSE

-----------------------------------------------------------------------------
Exists(u) == acct[u].role # None
NoUsers == \A u \in User : ~Exists(u)

\* employmentStatusAsOf: the end date itself is still worked.
Ended(e) == last[e] = "ended"

\* verifyAndAttach's lookup: active, and not of somebody who has left.
MayAct(u) ==
    /\ Exists(u) /\ acct[u].active
    /\ acct[u].emp # None => ~Ended(acct[u].emp)

Hr(u) == acct[u].role = "HR"
Linked(e) == \E u \in User : Exists(u) /\ acct[u].emp = e

-----------------------------------------------------------------------------
(* docker-entrypoint.sh, seed.ts and bootstrap.ts *)

Goto(step) == boot' = [boot EXCEPT !.step = step]
BootOnly == UNCHANGED <<acct, last, token, req, raced>>

Serving == boot' = [step |-> "serving", on |-> {}]

\* Each start has its own environment; a fresh database gets one of the two.
Start ==
    /\ boot.step = "down"
    /\ \E on \in SUBSET Setting :
          /\ NoUsers => on # {}
          /\ boot' = [step |-> IF "SEED_ON_START" \in on THEN "seed?" ELSE "bootstrap?",
                      on |-> on]
    /\ BootOnly /\ UNCHANGED roles

\* Wrong version: a check that fails counts as an empty database.
SeedCheckOptimistic ==
    /\ boot.step = "seed?"
    /\ Goto("wipe") \/ (~NoUsers /\ Goto("bootstrap?"))
    /\ BootOnly /\ UNCHANGED roles

\* db_is_empty before the seed; a check that fails is fatal, as in Stop.
SeedCheck ==
    /\ boot.step = "seed?"
    /\ Goto(IF NoUsers THEN "wipe" ELSE "bootstrap?")
    /\ BootOnly /\ UNCHANGED roles

\* The deleteMany calls seed.ts opens with.
Wipe ==
    /\ boot.step = "wipe"
    /\ roles' = {} /\ acct' = [u \in User |-> NoAccount]
    /\ last' = [e \in Employee |-> "open"]
    /\ Goto("seed HR")
    /\ UNCHANGED <<token, req, raced>>

SeedRoles ==
    /\ \/ boot.step = "seed HR" /\ roles' = roles \cup {"HR"} /\ Goto("seed EMPLOYEE")
       \/ boot.step = "seed EMPLOYEE" /\ roles' = roles \cup {"EMPLOYEE"} /\ Goto("seed admin")
    /\ BootOnly

NewAccount(role, emp, pw) == [role |-> role, emp |-> emp, active |-> TRUE, pw |-> pw]

SeedAdmin ==
    /\ boot.step = "seed admin"
    /\ \E pw \in Password :
          acct' = [acct EXCEPT ![SeedHr] = NewAccount("HR", None, pw)]
    /\ Goto("seed staff")
    /\ UNCHANGED <<roles, last, token, req, raced>>

\* Each employee is created with its account.
SeedAccount ==
    /\ boot.step = "seed staff"
    /\ \E a \in SeedStaff, pw \in Password :
          /\ ~Exists(a.user)
          /\ acct' = [acct EXCEPT ![a.user] = NewAccount("EMPLOYEE", a.employee, pw)]
    /\ UNCHANGED <<roles, last, token, req, boot, raced>>

\* Then holidays, accruals, logs, claims, leave and a period, of which the next
\* start will not notice that some are missing.
SeedSample ==
    /\ boot.step = "seed staff"
    /\ \A a \in SeedStaff : Exists(a.user)
    /\ Goto("bootstrap?")
    /\ BootOnly /\ UNCHANGED roles

\* Wrong version: roles that are there are taken for a bootstrap that was done.
BootstrapCountRoles ==
    /\ boot.step = "bootstrap?"
    /\ IF roles = {} /\ "BOOTSTRAP_ON_START" \in boot.on THEN Goto("role HR") ELSE Serving
    /\ BootOnly /\ UNCHANGED roles

\* db_is_empty again, in front of bootstrap.js.
BootstrapCheck ==
    /\ boot.step = "bootstrap?"
    /\ IF NoUsers /\ "BOOTSTRAP_ON_START" \in boot.on THEN Goto("role HR") ELSE Serving
    /\ BootOnly /\ UNCHANGED roles

\* A role that a run before this one created is left as it is.
BootstrapRoles ==
    /\ \/ boot.step = "role HR" /\ roles' = roles \cup {"HR"} /\ Goto("role EMPLOYEE")
       \/ boot.step = "role EMPLOYEE" /\ roles' = roles \cup {"EMPLOYEE"} /\ Goto("users?")
    /\ BootOnly

BootstrapCount ==
    /\ boot.step = "users?"
    /\ IF NoUsers THEN Goto("first user") ELSE Serving
    /\ BootOnly /\ UNCHANGED roles

BootstrapAccount ==
    /\ boot.step = "first user"
    /\ \E pw \in Password :
          acct' = [acct EXCEPT ![BootstrapUser] = NewAccount("HR", None, pw)]
    /\ Serving
    /\ UNCHANGED <<roles, last, token, req, raced>>

\* The container stops: a failed check, a failed script, a crash, a deployment.
\* Compose starts it again; requests in progress are lost.
Stop ==
    /\ boot.step # "down"
    /\ boot' = [step |-> "down", on |-> {}]
    /\ req' = [s \in Session |-> Idle]
    /\ UNCHANGED <<roles, acct, last, token, raced>>

Boot ==
    \/ Start \/ SeedCheck \/ Wipe \/ SeedRoles \/ SeedAdmin \/ SeedAccount
    \/ SeedSample \/ BootstrapCheck \/ BootstrapRoles \/ BootstrapCount \/ BootstrapAccount

-----------------------------------------------------------------------------
(* Signing in *)

Serve(s) == boot.step = "serving" /\ req[s] = Idle
End(s) == req' = [req EXCEPT ![s] = Idle]

\* The account is read, the password compared with its hash, isActive looked at.
StartLogin(s, u, given) ==
    /\ Serve(s)
    /\ Exists(u) /\ acct[u].pw = given /\ acct[u].active
    /\ req' = [req EXCEPT ![s] = [Idle EXCEPT !.op = "login", !.by = u, !.emp = acct[u].emp]]
    /\ UNCHANGED <<state, boot, raced>>

\* Wrong version: signing in does not ask whether the employment has ended.
FinishLoginAnyway(s) ==
    LET x == req[s] IN
    /\ x.op = "login"
    /\ token' = token \cup {x.by}
    /\ End(s)
    /\ UNCHANGED <<roles, acct, last, boot, raced>>

\* A second query for the employment of the employee that was linked; the token.
FinishLogin(s) ==
    LET x == req[s] IN
    /\ x.op = "login"
    /\ x.emp # None => ~Ended(x.emp)
    /\ token' = token \cup {x.by}
    /\ End(s)
    /\ UNCHANGED <<roles, acct, last, boot, raced>>

\* JWT_EXPIRES_IN has passed, or the browser dropped it.
Expire(u) ==
    /\ u \in token
    /\ token' = token \ {u}
    /\ UNCHANGED <<roles, acct, last, req, boot, raced>>

-----------------------------------------------------------------------------
(* Requests with a token *)

\* authenticate, then requireRole on the routers of accounts and employees.
Admit(s, u, hr, x) ==
    /\ Serve(s)
    /\ u \in token /\ MayAct(u)
    /\ hr => Hr(u)
    /\ req' = [req EXCEPT ![s] = x]
    /\ UNCHANGED <<state, boot, raced>>

\* changePassword reads the hash and compares, and writes the new one later.
StartPassword(s, u, new) ==
    /\ acct[u].pw # new
    /\ Admit(s, u, FALSE, [Idle EXCEPT !.op = "password", !.by = u, !.given = new])

\* A request that is bound to fail is left out: an address that is taken stays so,
\* and an account that is not there is not going to be.
StartCreate(s, u, who, role, emp) ==
    /\ ~Exists(who)
    /\ Admit(s, u, TRUE, [Idle EXCEPT !.op = "create", !.who = who, !.role = role, !.emp = emp])

Sets(set, key) == key \in DOMAIN set
Deactivates(set) == Sets(set, "active") /\ ~set.active

\* Wrong version: nothing keeps HR from deactivating itself.
StartUpdateSelf(s, u, who, set) ==
    /\ Exists(who)
    /\ Admit(s, u, TRUE, [Idle EXCEPT !.op = "update", !.by = u, !.who = who, !.set = set])

\* updateUser hashes a password before it writes; nobody deactivates themselves.
StartUpdate(s, u, who, set) ==
    /\ Exists(who) /\ ~(Deactivates(set) /\ who = u)
    /\ Admit(s, u, TRUE, [Idle EXCEPT !.op = "update", !.by = u, !.who = who, !.set = set])

\* The employees module, of which only the end of the employment matters here.
StartTerminate(s, u, e) ==
    /\ last[e] = "open"
    /\ Admit(s, u, TRUE, [Idle EXCEPT !.op = "terminate", !.who = e])

StartRehire(s, u, e) ==
    /\ last[e] # "open"
    /\ Admit(s, u, TRUE, [Idle EXCEPT !.op = "rehire", !.who = e])

ChangePassword(s) ==
    LET x == req[s] IN
    /\ x.op = "password" /\ Exists(x.by)
    /\ acct' = [acct EXCEPT ![x.by].pw = x.given]
    /\ End(s)
    /\ UNCHANGED <<roles, last, token, boot, raced>>

\* createUser; the e-mail and the employee are unique, the role must exist.
CreateUser(s) ==
    LET x == req[s] IN
    /\ x.op = "create"
    /\ ~Exists(x.who) /\ x.role \in roles
    /\ x.emp # None => ~Linked(x.emp)
    /\ \E pw \in Password :
          acct' = [acct EXCEPT ![x.who] = NewAccount(x.role, x.emp, pw)]
    /\ End(s)
    /\ UNCHANGED <<roles, last, token, boot, raced>>

\* Wrong version: a key that was not sent is written too.
PatchedWhole(row, set) ==
    [role |-> row.role,
     active |-> IF Sets(set, "active") THEN set.active ELSE FALSE,
     emp |-> IF Sets(set, "emp") THEN set.emp ELSE None,
     pw |-> IF Sets(set, "pw") THEN set.pw ELSE None]

Patched(row, set) ==
    [role |-> row.role,
     active |-> IF Sets(set, "active") THEN set.active ELSE row.active,
     emp |-> IF Sets(set, "emp") THEN set.emp ELSE row.emp,
     pw |-> IF Sets(set, "pw") THEN set.pw ELSE row.pw]

\* updateUser's single statement: the keys that were sent, never the role.
UpdateUser(s) ==
    LET x == req[s] IN
    /\ x.op = "update" /\ Exists(x.who)
    /\ Sets(x.set, "emp") => x.set.emp \in {None, acct[x.who].emp} \/ ~Linked(x.set.emp)
    /\ acct' = [acct EXCEPT ![x.who] = Patched(@, x.set)]
    /\ raced' = (raced \/ (Deactivates(x.set) /\ ~acct[x.by].active))
    /\ End(s)
    /\ UNCHANGED <<roles, last, token, boot>>

TerminateEmployee(s) ==
    LET x == req[s] IN
    /\ x.op = "terminate" /\ last[x.who] = "open"
    /\ \E end \in {"notice", "ended"} : last' = [last EXCEPT ![x.who] = end]
    /\ End(s)
    /\ UNCHANGED <<roles, acct, token, boot, raced>>

RehireEmployee(s) ==
    LET x == req[s] IN
    /\ x.op = "rehire" /\ last[x.who] # "open"
    /\ last' = [last EXCEPT ![x.who] = "open"]
    /\ End(s)
    /\ UNCHANGED <<roles, acct, token, boot, raced>>

\* A conflict, an error or a lost connection: nothing was written.
Fail(s) ==
    /\ req[s] # Idle
    /\ End(s)
    /\ UNCHANGED <<state, boot, raced>>

\* The day after the end date: nothing is written, the comparison turns.
LastDayPasses(e) ==
    /\ last[e] = "notice"
    /\ last' = [last EXCEPT ![e] = "ended"]
    /\ UNCHANGED <<roles, acct, token, req, boot, raced>>

-----------------------------------------------------------------------------
Asked(s, u) ==
    \/ \E pw \in Password : StartLogin(s, u, pw) \/ StartPassword(s, u, pw)
    \/ \E who \in User, role \in RoleName, e \in Employee \cup {None} :
          StartCreate(s, u, who, role, e)
    \/ \E who \in User, set \in Patch : StartUpdate(s, u, who, set)
    \/ \E e \in Employee : StartRehire(s, u, e) \/ StartTerminate(s, u, e)

Answered(s) ==
    \/ FinishLogin(s) \/ ChangePassword(s) \/ CreateUser(s) \/ UpdateUser(s)
    \/ TerminateEmployee(s) \/ RehireEmployee(s) \/ Fail(s)

Step ==
    \/ Boot \/ Stop
    \/ \E e \in Employee : LastDayPasses(e)
    \/ \E u \in User : Expire(u)
    \/ \E s \in Session : Answered(s) \/ \E u \in User : Asked(s, u)

\* What a sign-in reads of an account, in two queries.
Reads(u) == <<acct[u], acct[u].emp # None => ~Ended(acct[u].emp)>>

Observe ==
    steady' = [s \in Session |->
                  \A u \in User : req[s].op = "login" /\ req[s].by = u
                                 => steady[s] /\ Reads(u)' = Reads(u)]

Next == Step /\ Observe

\* The container is started again and runs its start to the end.
Fairness == WF_vars(Boot /\ Observe)

Spec == Init /\ [][Next]_vars
FairSpec == Spec /\ Fairness

-----------------------------------------------------------------------------
(* Properties *)

Administrators == {u \in User : Exists(u) /\ Hr(u)}

\* Once there are HR accounts one of them stays active, although any of them may
\* deactivate any other: the guard against deactivating oneself is enough, unless
\* a deactivation was under way when its author was deactivated (updateUser).
HrRemains ==
    \/ Administrators = {}
    \/ \E u \in Administrators : acct[u].active
    \/ raced

\* Who is given a token gets in with it: a sign-in refuses what the lookup of the
\* next request would refuse, unless the account or the employment changed while
\* it was under way (login against verifyAndAttach).
SignInWorks ==
    [][\A s \in Session :
          /\ req[s].op = "login" /\ steady[s] /\ req'[s] # req[s]
          /\ req[s].by \in token' \ token
          => MayAct(req[s].by)]_vars

\* Starting the container never costs anybody their account, however often it
\* stops and at whichever statement (the empty check in front of seed.ts).
AccountsSurvive == [][\A u \in User : Exists(u) => acct'[u].role = acct[u].role]_vars

\* Once the container is left to start, there comes a time from which the server
\* answers and both roles and an HR account are there, at whichever statements of
\* whichever scripts it stopped before (docker-entrypoint.sh, seed.ts, bootstrap.ts).
Recovers ==
    <>[][~Stop]_vars
        => <>[](boot.step = "serving" /\ roles = RoleName /\ Administrators # {})
=============================================================================
