------------------------------ MODULE Session ------------------------------
(***************************************************************************)
(* Members and their sessions: the users table in MySQL, the sessions in   *)
(* Redis, and the calls that register, log in, and pass the Auth           *)
(* middleware before they act for a member.  One step is one call to MySQL *)
(* or Redis, so a logout can fall between the two halves of another        *)
(* request's check, or between its check and its handler.                  *)
(*                                                                         *)
(* A member's auto-increment id is opaque: the register call that inserted *)
(* the row stands for it.  A token is a fresh UUID: the login call that    *)
(* drew it stands for it.                                                  *)
(***************************************************************************)
EXTENDS Naturals

CONSTANTS
  Emails, Secrets, Names,  \* what passes the validation of the service
  Malformed,               \* a field that does not
  Calls,                   \* the calls of the run
  None,                    \* "no row", "no key", "no token"
  Faults,                  \* the environment events this run admits
  MaxFaults                \* bound on how many of them happen

SessionFaultKinds ==
  { "crash",      \* the process stops; its calls are cut short
    "redisError", \* a Redis command reports an error, having run or not
    "readError",  \* a SELECT fails; the lookups report "does not exist"
    "dbError" }   \* an INSERT or UPDATE reports an error, having run or not

ASSUME SessionAssumption ==
  /\ None \notin Calls \cup Emails \cup Secrets
  /\ Malformed \notin Emails \cup Secrets \cup Names
  /\ Faults \subseteq SessionFaultKinds
  /\ MaxFaults \in Nat

Accounts == [email : Emails, secret : Secrets, name : Names]

ASSUME AccountAssumption == None \notin Accounts

VARIABLES
  accounts,  \* table users
  session,   \* the keys session:{token} in Redis and the ids they hold
  call,      \* call -> where it is, and what it was given or has read
  revoked,   \* ghost: tokens whose logout has removed the key
  faults     \* ghost: environment events so far

vars == <<accounts, session, call, revoked, faults>>

\* A login is at "set" once the password was found right; a protected request
\* is at "find" when its token was found and at "run" when it was let in.
InFlightSteps == {"set", "find", "run"}
Answers == {"registered", "loggedIn", "done", "refused", "failed", "dead"}

Locals == [at : {"idle"} \cup InFlightSteps \cup Answers,
           email : Emails \cup {None}, secret : Secrets \cup {None},
           token : Calls \cup {None}, member : Calls \cup {None}]

TypeOK ==
  /\ accounts \in [Calls -> Accounts \cup {None}]
  /\ session \in [Calls -> Calls \cup {None}]
  /\ call \in [Calls -> Locals]
  /\ revoked \subseteq Calls \cup {None}
  /\ faults \in Nat

Idle == [at |-> "idle", email |-> None, secret |-> None, token |-> None, member |-> None]

Init ==
  /\ accounts = [c \in Calls |-> None]
  /\ session = [c \in Calls |-> None]
  /\ call = [c \in Calls |-> Idle]
  /\ revoked = {}
  /\ faults = 0

Fault(kind) ==
  /\ kind \in Faults
  /\ faults < MaxFaults
  /\ faults' = faults + 1

NoFault == UNCHANGED faults

Goto(c, label) == call' = [call EXCEPT ![c].at = label]

-----------------------------------------------------------------------------
(* Register: POST /api/users *)

\* The unique index on email.
EmailTaken(email) == \E u \in Calls : accounts[u] # None /\ accounts[u].email = email

\* Faulty variant: a second registration replaces the first.
SaveOver(c, row) ==
  IF EmailTaken(row.email)
    THEN LET u == CHOOSE u \in Calls : accounts[u] # None /\ accounts[u].email = row.email
         IN accounts' = [accounts EXCEPT ![u] = row]
    ELSE accounts' = [accounts EXCEPT ![c] = row]

\* Faulty variant: no unique index.
SaveTwice(c, row) == accounts' = [accounts EXCEPT ![c] = row]

Save(c, row) ==
  /\ ~EmailTaken(row.email)
  /\ accounts' = [accounts EXCEPT ![c] = row]

\* Faulty variant: what came is stored without a look at it.
RegisterAsIs(c, email, secret, name) ==
  /\ call[c].at = "idle"
  /\ Save(c, [email |-> email, secret |-> secret, name |-> name])
  /\ Goto(c, "registered")
  /\ UNCHANGED <<session, revoked, faults>>

Register(c, email, secret, name) ==
  LET row == [email |-> email, secret |-> secret, name |-> name] IN
  /\ call[c].at = "idle"
  /\ \/ row \in Accounts /\ Save(c, row) /\ Goto(c, "registered") /\ NoFault
     \/ /\ row \notin Accounts \/ EmailTaken(email)
        /\ Goto(c, "refused") /\ NoFault /\ UNCHANGED accounts
     \/ /\ row \in Accounts /\ Fault("dbError") /\ Goto(c, "failed")
        /\ Save(c, row) \/ UNCHANGED accounts
  /\ UNCHANGED <<session, revoked>>

-----------------------------------------------------------------------------
(* Login: POST /api/users/login *)

FindByEmailAndPassword(email, secret) ==
  {u \in Calls : accounts[u] # None /\ accounts[u].email = email /\ accounts[u].secret = secret}

\* A malformed password is refused as an unknown one is.
LoginFind(c, email, secret) ==
  /\ call[c].at = "idle"
  /\ \/ /\ NoFault
        /\ \E u \in FindByEmailAndPassword(email, secret) :
             call' = [call EXCEPT ![c] = [at |-> "set", email |-> email, secret |-> secret,
                                          token |-> None, member |-> u]]
     \/ FindByEmailAndPassword(email, secret) = {} /\ Goto(c, "refused") /\ NoFault
     \/ Fault("readError") /\ Goto(c, "refused")
  /\ UNCHANGED <<accounts, session, revoked>>

\* The token is only handed out when SET has reported no error.
LoginSet(c) ==
  LET Set == session' = [session EXCEPT ![c] = call[c].member] IN
  /\ call[c].at = "set"
  /\ \/ Set /\ Goto(c, "loggedIn") /\ NoFault
     \/ Fault("redisError") /\ Goto(c, "failed") /\ (Set \/ UNCHANGED session)
  /\ UNCHANGED <<accounts, revoked>>

-----------------------------------------------------------------------------
(* The Auth middleware, before every other route *)

\* A client shows a token it was given, or none the service ever drew.
Shown == {t \in Calls : call[t].at = "loggedIn"} \cup {None}

Known(t) == t # None /\ session[t] # None

AuthGet(c, t) ==
  /\ call[c].at = "idle"
  /\ \/ /\ Known(t) /\ NoFault
        /\ call' = [call EXCEPT ![c] = [at |-> "find", email |-> None, secret |-> None,
                                        token |-> t, member |-> session[t]]]
     \/ ~Known(t) /\ Goto(c, "refused") /\ NoFault
     \/ Fault("redisError") /\ Goto(c, "refused")
  /\ UNCHANGED <<accounts, session, revoked>>

\* Faulty variant: each request renews the session it was let in with.
AuthFindRenews(c) ==
  /\ call[c].at = "find" /\ accounts[call[c].member] # None
  /\ session' = [session EXCEPT ![call[c].token] = call[c].member]
  /\ Goto(c, "run")
  /\ UNCHANGED <<accounts, revoked, faults>>

AuthFind(c) ==
  /\ call[c].at = "find"
  /\ \/ accounts[call[c].member] # None /\ Goto(c, "run") /\ NoFault
     \/ accounts[call[c].member] = None /\ Goto(c, "refused") /\ NoFault
     \/ Fault("readError") /\ Goto(c, "refused")
  /\ UNCHANGED <<accounts, session, revoked>>

-----------------------------------------------------------------------------
(* The handlers behind it *)

\* POST /api/users/logout.  An error of DEL is ignored.
Logout(c) ==
  LET Del == session' = [session EXCEPT ![call[c].token] = None] IN
  /\ call[c].at = "run"
  /\ Goto(c, "done")
  /\ \/ Del /\ revoked' = revoked \cup {call[c].token} /\ NoFault
     \/ Fault("redisError") /\ (Del \/ UNCHANGED session) /\ UNCHANGED revoked
  /\ UNCHANGED accounts

\* Faulty variant: whoever is logged in may rename anybody.
MayRenameAny(c, target) == call[c].member # None

MayRename(c, target) == call[c].member = target

\* PATCH /api/users/{userId}.  The UPDATE of an unknown id changes no row, and
\* an error of it is ignored.
UpdateName(c, target, name) ==
  LET Update == accounts[target] # None /\ accounts' = [accounts EXCEPT ![target].name = name] IN
  /\ call[c].at = "run"
  /\ \/ /\ MayRename(c, target) /\ name \in Names
        /\ Goto(c, "done")
        /\ \/ Update /\ NoFault
           \/ accounts[target] = None /\ NoFault /\ UNCHANGED accounts
           \/ Fault("dbError") /\ (Update \/ UNCHANGED accounts)
     \/ /\ ~(MayRename(c, target) /\ name \in Names)
        /\ Goto(c, "refused") /\ NoFault /\ UNCHANGED accounts
  /\ UNCHANGED <<session, revoked>>

\* GET /api/users, and every other route that changes no member.
SearchUsers(c) ==
  /\ call[c].at = "run"
  /\ Goto(c, "done")
  /\ UNCHANGED <<accounts, session, revoked, faults>>

-----------------------------------------------------------------------------
(* The environment *)

Expire(t) ==
  /\ session[t] # None
  /\ session' = [session EXCEPT ![t] = None]
  /\ UNCHANGED <<accounts, call, revoked, faults>>

\* MySQL and Redis keep what they hold.
Crash ==
  /\ Fault("crash")
  /\ call' = [c \in Calls |->
       IF call[c].at \in InFlightSteps THEN [call[c] EXCEPT !.at = "dead"] ELSE call[c]]
  /\ UNCHANGED <<accounts, session, revoked>>

PublicStep(c) ==
  \/ \E email \in Emails \cup {Malformed}, secret \in Secrets \cup {Malformed},
        name \in Names \cup {Malformed} :
       Register(c, email, secret, name) \/ LoginFind(c, email, secret)
  \/ LoginSet(c)

ProtectedStep(c) ==
  \/ \E t \in Shown : AuthGet(c, t)
  \/ AuthFind(c)
  \/ Logout(c)
  \/ \E target \in Calls, name \in Names \cup {Malformed} : UpdateName(c, target, name)
  \/ SearchUsers(c)

Next ==
  \/ \E c \in Calls : PublicStep(c) \/ ProtectedStep(c)
  \/ \E t \in Calls : Expire(t)
  \/ Crash

Spec == Init /\ [][Next]_vars

-----------------------------------------------------------------------------

\* The account whose password the login behind token t gave.
OpenedBy(t, u) ==
  /\ u \in Calls /\ accounts[u] # None
  /\ accounts[u].email = call[t].email
  /\ accounts[u].secret = call[t].secret

(* A handler behind Auth acts for the member whose email and password were  *)
(* given when its token was drawn, whatever was registered, renamed, logged *)
(* out or cut short since.                                                  *)
ActsForItsMember == \A c \in Calls : call[c].at = "run" => OpenedBy(call[c].token, call[c].member)

(* A request that comes after its token's logout has removed the key never  *)
(* gets past the first half of the check; one that had already been         *)
(* checked, even by half, may still act.                                    *)
LoggedOutStaysOut ==
  [][\A c \in Calls :
       call[c].at = "idle" /\ call'[c].at = "find" => call'[c].token \notin revoked]_vars

(* A row of a member changes in nothing but its name, and only by a request *)
(* whose token was drawn for that member's password.                        *)
RenamedByItsOwner ==
  [][\A u \in Calls :
       accounts[u] # None /\ accounts'[u] # accounts[u] =>
         /\ accounts'[u] = [accounts[u] EXCEPT !.name = accounts'[u].name]
         /\ \E c \in Calls : /\ call[c].at = "run" /\ call'[c].at = "done"
                             /\ OpenedBy(call[c].token, u)]_vars

Fresh == {c \in Calls : call[c].at \in {"idle", "set"}}
Acting == [c \in Calls |-> IF call[c].at \in {"find", "run"} THEN call[c].member ELSE None]

Member == INSTANCE Membership WITH fresh <- Fresh, acting <- Acting

(* Members and sessions are what Membership says: the password looked up in *)
(* one step of a login is still the member's when a later one stores the    *)
(* session, and the member a request acts for is the one whose session was  *)
(* open when the middleware asked Redis, whatever happened since.           *)
ImplementsMembership == Member!Spec
=============================================================================
