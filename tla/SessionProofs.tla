--------------------------- MODULE SessionProofs ---------------------------
(***************************************************************************)
(* Theorems about members and sessions, for any number of calls, members   *)
(* and faults.                                                             *)
(***************************************************************************)
EXTENDS Session, TLAPS

(* The inductive invariant behind the three.                                *)

\* An idle call has left nothing behind, and only a login that was answered
\* has shown its token to anybody.
IdleIsNew ==
  \A c \in Calls : call[c].at = "idle" => accounts[c] = None /\ session[c] = None

SessionsOpened ==
  \A t \in Calls :
    /\ call[t].at = "set" => OpenedBy(t, call[t].member) /\ session[t] = None
    /\ session[t] # None => OpenedBy(t, session[t])

CheckedOpened ==
  \A c \in Calls :
    call[c].at \in {"find", "run"} =>
      /\ call[c].token # None /\ call[call[c].token].at = "loggedIn"
      /\ OpenedBy(call[c].token, call[c].member)

RevokedIsGone == \A t \in revoked : t # None /\ call[t].at = "loggedIn" /\ session[t] = None

SessionInv == TypeOK /\ IdleIsNew /\ SessionsOpened /\ CheckedOpened /\ RevokedIsGone

-----------------------------------------------------------------------------
(* Every step keeps its variables well typed.                               *)
LEMMA MoveTypes ==
  ASSUME TypeOK, NEW c \in Calls, NEW label \in {"idle"} \cup InFlightSteps \cup Answers,
         call' = [call EXCEPT ![c].at = label]
  PROVE  call' \in [Calls -> Locals]
  <1> SUFFICES ASSUME NEW d \in Calls PROVE call'[d] \in Locals
    BY DEF TypeOK
  <1>1. call[d] \in Locals
    BY DEF TypeOK
  <1> QED BY <1>1 DEF TypeOK, Locals

LEMMA FaultTypes ==
  ASSUME TypeOK, faults' = faults \/ faults' = faults + 1
  PROVE  faults' \in Nat
  BY DEF TypeOK

LEMMA SaveTypes ==
  ASSUME TypeOK, NEW c \in Calls, NEW row \in Accounts, Save(c, row)
  PROVE  accounts' \in [Calls -> Accounts \cup {None}]
  BY DEF TypeOK, Save

LEMMA TypeStep == TypeOK /\ [Next]_vars => TypeOK'
  <1> SUFFICES ASSUME TypeOK, [Next]_vars PROVE TypeOK'
    OBVIOUS
  <1> USE DEF InFlightSteps, Answers
  <1>1. ASSUME NEW c \in Calls, NEW email, NEW secret, NEW name, Register(c, email, secret, name)
        PROVE  TypeOK'
    <2> DEFINE row == [email |-> email, secret |-> secret, name |-> name]
    <2>1. accounts' = accounts \/ (row \in Accounts /\ Save(c, row))
      BY <1>1 DEF Register
    <2>2. accounts' \in [Calls -> Accounts \cup {None}]
      <3>1. CASE accounts' = accounts
        BY <3>1 DEF TypeOK
      <3>2. CASE row \in Accounts /\ Save(c, row)
        BY <3>2, SaveTypes
      <3> QED BY <2>1, <3>1, <3>2
    <2>3. \E label \in {"registered", "refused", "failed"} : Goto(c, label)
      BY <1>1 DEF Register
    <2>4. call' \in [Calls -> Locals]
      BY <2>3, MoveTypes DEF Goto
    <2>5. faults' \in Nat
      BY <1>1, FaultTypes DEF Register, Fault, NoFault
    <2> QED BY <1>1, <2>2, <2>4, <2>5 DEF Register, TypeOK
  <1>2. ASSUME NEW c \in Calls, NEW email \in Emails \cup {Malformed},
               NEW secret \in Secrets \cup {Malformed}, LoginFind(c, email, secret)
        PROVE  TypeOK'
    <2>1. faults' \in Nat
      BY <1>2, FaultTypes DEF LoginFind, Fault, NoFault
    <2>2. call' \in [Calls -> Locals]
      <3>1. CASE Goto(c, "refused")
        BY <3>1, MoveTypes DEF Goto
      <3>2. ASSUME NEW u \in FindByEmailAndPassword(email, secret),
                   call' = [call EXCEPT ![c] = [at |-> "set", email |-> email, secret |-> secret,
                                                token |-> None, member |-> u]]
            PROVE  call' \in [Calls -> Locals]
        <4>1. u \in Calls /\ accounts[u] \in Accounts
          BY AccountAssumption DEF FindByEmailAndPassword, TypeOK
        <4>2. email \in Emails /\ secret \in Secrets
          BY <4>1 DEF FindByEmailAndPassword, Accounts
        <4>3. [at |-> "set", email |-> email, secret |-> secret, token |-> None, member |-> u]
                \in Locals
          BY <4>1, <4>2 DEF Locals
        <4> QED BY <3>2, <4>3 DEF TypeOK
      <3> QED BY <1>2, <3>1, <3>2 DEF LoginFind
    <2> QED BY <1>2, <2>1, <2>2 DEF LoginFind, TypeOK
  <1>3. ASSUME NEW c \in Calls, LoginSet(c) PROVE TypeOK'
    <2>1. faults' \in Nat
      BY <1>3, FaultTypes DEF LoginSet, Fault, NoFault
    <2>2. call' \in [Calls -> Locals]
      BY <1>3, MoveTypes DEF LoginSet, Goto
    <2>3. call[c].member \in Calls \cup {None}
      BY DEF TypeOK, Locals
    <2>4. session' \in [Calls -> Calls \cup {None}]
      BY <1>3, <2>3 DEF LoginSet, TypeOK
    <2> QED BY <1>3, <2>1, <2>2, <2>4 DEF LoginSet, TypeOK
  <1>4. ASSUME NEW c \in Calls, NEW t \in Shown, AuthGet(c, t) PROVE TypeOK'
    <2>1. faults' \in Nat
      BY <1>4, FaultTypes DEF AuthGet, Fault, NoFault
    <2>2. call' \in [Calls -> Locals]
      <3>1. CASE Goto(c, "refused")
        BY <3>1, MoveTypes DEF Goto
      <3>2. CASE /\ Known(t)
                 /\ call' = [call EXCEPT ![c] = [at |-> "find", email |-> None, secret |-> None,
                                                 token |-> t, member |-> session[t]]]
        <4>1. t \in Calls /\ session[t] \in Calls
          BY <3>2 DEF Known, Shown, TypeOK
        <4>2. [at |-> "find", email |-> None, secret |-> None, token |-> t, member |-> session[t]]
                \in Locals
          BY <4>1 DEF Locals
        <4> QED BY <3>2, <4>2 DEF TypeOK
      <3> QED BY <1>4, <3>1, <3>2 DEF AuthGet
    <2> QED BY <1>4, <2>1, <2>2 DEF AuthGet, TypeOK
  <1>5. ASSUME NEW c \in Calls, AuthFind(c) PROVE TypeOK'
    <2>1. faults' \in Nat
      BY <1>5, FaultTypes DEF AuthFind, Fault, NoFault
    <2>2. call' \in [Calls -> Locals]
      BY <1>5, MoveTypes DEF AuthFind, Goto
    <2> QED BY <1>5, <2>1, <2>2 DEF AuthFind, TypeOK
  <1>6. ASSUME NEW c \in Calls, Logout(c) PROVE TypeOK'
    <2>1. faults' \in Nat
      BY <1>6, FaultTypes DEF Logout, Fault, NoFault
    <2>2. call' \in [Calls -> Locals]
      BY <1>6, MoveTypes DEF Logout, Goto
    <2>3. call[c] \in Locals
      BY DEF TypeOK
    <2>4. revoked' \subseteq Calls \cup {None}
      BY <1>6, <2>3 DEF Logout, TypeOK, Locals
    <2>5. session' \in [Calls -> Calls \cup {None}]
      BY <1>6 DEF Logout, TypeOK
    <2> QED BY <1>6, <2>1, <2>2, <2>4, <2>5 DEF Logout, TypeOK
  <1>7. ASSUME NEW c \in Calls, NEW target \in Calls, NEW name \in Names \cup {Malformed},
               UpdateName(c, target, name)
        PROVE  TypeOK'
    <2>1. faults' \in Nat
      BY <1>7, FaultTypes DEF UpdateName, Fault, NoFault
    <2>2. call' \in [Calls -> Locals]
      BY <1>7, MoveTypes DEF UpdateName, Goto
    <2>3. accounts' \in [Calls -> Accounts \cup {None}]
      <3>1. CASE accounts' = accounts
        BY <3>1 DEF TypeOK
      <3>2. CASE /\ accounts[target] # None /\ name \in Names
                 /\ accounts' = [accounts EXCEPT ![target].name = name]
        <4>1. [accounts[target] EXCEPT !.name = name] \in Accounts
          BY <3>2 DEF TypeOK, Accounts
        <4> QED BY <3>2, <4>1 DEF TypeOK
      <3> QED BY <1>7, <3>1, <3>2 DEF UpdateName
    <2> QED BY <1>7, <2>1, <2>2, <2>3 DEF UpdateName, TypeOK
  <1>8. ASSUME NEW c \in Calls, SearchUsers(c) PROVE TypeOK'
    BY <1>8, MoveTypes DEF SearchUsers, Goto, TypeOK
  <1>9. ASSUME NEW t \in Calls, Expire(t) PROVE TypeOK'
    BY <1>9 DEF Expire, TypeOK
  <1>10. CASE Crash
    <2>1. faults' \in Nat
      BY <1>10, FaultTypes DEF Crash, Fault
    <2>2. \A c \in Calls : call[c] \in Locals
      BY DEF TypeOK
    <2>3. \A c \in Calls : [call[c] EXCEPT !.at = "dead"] \in Locals
      BY <2>2 DEF Locals
    <2>4. call' \in [Calls -> Locals]
      BY <1>10, <2>2, <2>3 DEF Crash
    <2> QED BY <1>10, <2>1, <2>4 DEF Crash, TypeOK
  <1>11. CASE UNCHANGED vars
    BY <1>11 DEF vars, TypeOK
  <1> QED
    BY <1>1, <1>2, <1>3, <1>4, <1>5, <1>6, <1>7, <1>8, <1>9, <1>10, <1>11
    DEF Next, PublicStep, ProtectedStep

-----------------------------------------------------------------------------

(* An account is kept with its email and password, and so are the email and *)
(* password a login was given.                                              *)
KeepsAccounts ==
  \A u \in Calls : accounts[u] # None =>
    accounts'[u] # None /\ accounts'[u].email = accounts[u].email
                       /\ accounts'[u].secret = accounts[u].secret

KeepsLogins ==
  \A t \in Calls : call[t].at # "idle" =>
    /\ call'[t].email = call[t].email /\ call'[t].secret = call[t].secret
    /\ call'[t].token = call[t].token /\ call'[t].member = call[t].member
    /\ call'[t].at # "idle"
    /\ call[t].at = "loggedIn" => call'[t].at = "loggedIn"

LEMMA GotoKeeps ==
  ASSUME TypeOK, NEW c \in Calls, NEW label, label # "idle", call[c].at # "loggedIn",
         Goto(c, label)
  PROVE  KeepsLogins
  <1> SUFFICES ASSUME NEW t \in Calls, call[t].at # "idle"
               PROVE  /\ call'[t].email = call[t].email /\ call'[t].secret = call[t].secret
                      /\ call'[t].token = call[t].token /\ call'[t].member = call[t].member
                      /\ call'[t].at # "idle"
                      /\ call[t].at = "loggedIn" => call'[t].at = "loggedIn"
    BY DEF KeepsLogins
  <1>1. call[t] \in Locals /\ call'[t] = IF t = c THEN [call[t] EXCEPT !.at = label] ELSE call[t]
    BY DEF TypeOK, Goto
  <1> QED BY <1>1 DEF Locals

LEMMA OpenedIsKept ==
  ASSUME NEW t \in Calls, NEW u \in Calls, OpenedBy(t, u), call[t].at # "idle",
         KeepsAccounts, KeepsLogins
  PROVE  OpenedBy(t, u)'
  BY DEF OpenedBy, KeepsAccounts, KeepsLogins

(* A step that draws no token, finds no token and sends no login on its way *)
(* keeps what is known of those there are.                                  *)
LEMMA QuietStep ==
  ASSUME SessionInv, TypeOK', KeepsAccounts, KeepsLogins, RevokedIsGone',
         \A t \in Calls : session'[t] \in {None, session[t]},
         \A c \in Calls : call'[c].at = "set" => call[c].at = "set",
         \A c \in Calls : call'[c].at \in {"find", "run"} => call[c].at \in {"find", "run"},
         \A c \in Calls : call'[c].at = "idle" =>
           call[c].at = "idle" /\ accounts'[c] = accounts[c]
  PROVE  SessionInv'
  <1>1. IdleIsNew'
    BY DEF SessionInv, IdleIsNew
  <1>2. SessionsOpened'
    <2> SUFFICES ASSUME NEW t \in Calls
                 PROVE  /\ (call[t].at = "set" => OpenedBy(t, call[t].member) /\ session[t] = None)'
                        /\ (session[t] # None => OpenedBy(t, session[t]))'
      BY DEF SessionsOpened
    <2>1. ASSUME call'[t].at = "set"
          PROVE  OpenedBy(t, call[t].member)' /\ session'[t] = None
      <3>1. call[t].at = "set" /\ OpenedBy(t, call[t].member) /\ session[t] = None
        BY <2>1 DEF SessionInv, SessionsOpened
      <3>2. call'[t].member = call[t].member /\ call[t].member \in Calls
        BY <3>1 DEF KeepsLogins, OpenedBy
      <3> QED BY <3>1, <3>2, OpenedIsKept DEF OpenedBy
    <2>2. ASSUME session'[t] # None PROVE OpenedBy(t, session[t])'
      <3>1. session'[t] = session[t] /\ OpenedBy(t, session[t]) /\ call[t].at # "idle"
        BY <2>2 DEF SessionInv, SessionsOpened, IdleIsNew
      <3>2. session[t] \in Calls
        BY <3>1 DEF OpenedBy
      <3> QED BY <3>1, <3>2, OpenedIsKept DEF OpenedBy
    <2> QED BY <2>1, <2>2
  <1>3. CheckedOpened'
    <2> SUFFICES ASSUME NEW c \in Calls, call'[c].at \in {"find", "run"}
                 PROVE  /\ call'[c].token # None /\ call'[call'[c].token].at = "loggedIn"
                        /\ OpenedBy(call[c].token, call[c].member)'
      BY DEF CheckedOpened
    <2>1. /\ call[c].at # "idle"
          /\ call[c].token # None /\ call[call[c].token].at = "loggedIn"
          /\ OpenedBy(call[c].token, call[c].member)
      BY DEF SessionInv, CheckedOpened
    <2>2. call'[c].token = call[c].token /\ call'[c].member = call[c].member
      BY <2>1 DEF KeepsLogins
    <2>3. call[c].token \in Calls /\ call[c].member \in Calls
      BY <2>1 DEF SessionInv, TypeOK, Locals, OpenedBy
    <2> QED BY <2>1, <2>2, <2>3, OpenedIsKept DEF OpenedBy, KeepsLogins
  <1> QED BY <1>1, <1>2, <1>3 DEF SessionInv

LEMMA SessionInit == Init => SessionInv
  <1> SUFFICES ASSUME Init PROVE SessionInv
    OBVIOUS
  <1>1. TypeOK
    BY DEF Init, TypeOK, Idle, Locals
  <1>2. IdleIsNew /\ SessionsOpened /\ CheckedOpened /\ RevokedIsGone
    BY DEF Init, Idle, IdleIsNew, SessionsOpened, CheckedOpened, RevokedIsGone
  <1> QED BY <1>1, <1>2 DEF SessionInv

\* The labels after a Goto.
LEMMA GotoLabels ==
  ASSUME TypeOK, NEW c \in Calls, NEW label, Goto(c, label), NEW d \in Calls
  PROVE  call'[d].at = IF d = c THEN label ELSE call[d].at
  <1>1. call[d] \in Locals /\ call'[d] = IF d = c THEN [call[d] EXCEPT !.at = label] ELSE call[d]
    BY DEF TypeOK, Goto
  <1> QED BY <1>1 DEF Locals

LEMMA SessionStep == SessionInv /\ [Next]_vars => SessionInv'
  <1> SUFFICES ASSUME SessionInv, [Next]_vars PROVE SessionInv'
    OBVIOUS
  <1>0. TypeOK /\ TypeOK'
    BY TypeStep DEF SessionInv
  <1>1. ASSUME NEW c \in Calls, NEW label \in Answers \cup {"run"}, Goto(c, label),
               label = "run" => call[c].at = "find",
               call[c].at # "loggedIn", KeepsAccounts,
               \A d \in Calls \ {c} : accounts[d] = None => accounts'[d] = accounts[d] \/ call[d].at # "idle",
               \A t \in Calls : session'[t] \in {None, session[t]},
               RevokedIsGone'
        PROVE  SessionInv'
    <2>1. KeepsLogins
      BY <1>0, <1>1, GotoKeeps DEF Answers
    <2>2. \A d \in Calls : call'[d].at = IF d = c THEN label ELSE call[d].at
      BY <1>0, <1>1, GotoLabels
    <2>3. \A d \in Calls : call'[d].at = "idle" => call[d].at = "idle" /\ accounts'[d] = accounts[d]
      BY <1>1, <2>2 DEF Answers, SessionInv, IdleIsNew
    <2> QED BY <1>0, <1>1, <2>1, <2>2, <2>3, QuietStep DEF Answers
  \* What a step that leaves the keys of Redis alone does to the revoked tokens.
  <1>2. ASSUME NEW c \in Calls, NEW label, Goto(c, label), call[c].at # "loggedIn",
               UNCHANGED revoked, \A t \in Calls : session'[t] \in {None, session[t]}
        PROVE  RevokedIsGone'
    <2>1. \A t \in revoked : t \in Calls
      BY <1>0 DEF SessionInv, RevokedIsGone, TypeOK
    <2> QED BY <1>0, <1>2, <2>1, GotoLabels DEF SessionInv, RevokedIsGone
  <1>3. ASSUME NEW c \in Calls, NEW email, NEW secret, NEW name, Register(c, email, secret, name)
        PROVE  SessionInv'
    <2> DEFINE row == [email |-> email, secret |-> secret, name |-> name]
    <2>1. /\ call[c].at = "idle" /\ accounts[c] = None
          /\ accounts' = accounts \/ accounts' = [accounts EXCEPT ![c] = row]
          /\ UNCHANGED <<session, revoked>>
      BY <1>3 DEF Register, Save, SessionInv, IdleIsNew
    <2>2. PICK label \in {"registered", "refused", "failed"} : Goto(c, label)
      BY <1>3 DEF Register
    <2>3. KeepsAccounts /\ \A d \in Calls \ {c} : accounts'[d] = accounts[d]
      BY <1>0, <2>1 DEF TypeOK, KeepsAccounts
    <2>4. RevokedIsGone'
      BY <1>2, <2>1, <2>2
    <2> QED BY <1>1, <2>1, <2>2, <2>3, <2>4 DEF Answers
  <1>4. ASSUME NEW c \in Calls, NEW email, NEW secret, LoginFind(c, email, secret)
        PROVE  SessionInv'
    <2>1. call[c].at = "idle" /\ UNCHANGED <<accounts, session, revoked>> /\ KeepsAccounts
      BY <1>4 DEF LoginFind, KeepsAccounts
    <2>2. CASE Goto(c, "refused")
      <3>1. RevokedIsGone'
        BY <1>2, <2>1, <2>2
      <3> QED BY <1>1, <2>1, <2>2, <3>1 DEF Answers
    <2>3. ASSUME NEW u \in FindByEmailAndPassword(email, secret),
                 call' = [call EXCEPT ![c] = [at |-> "set", email |-> email, secret |-> secret,
                                              token |-> None, member |-> u]]
          PROVE  SessionInv'
      <3>1. /\ u \in Calls /\ accounts[u] # None
            /\ accounts[u].email = email /\ accounts[u].secret = secret
        BY <2>3 DEF FindByEmailAndPassword
      <3>2. /\ call'[c].at = "set" /\ call'[c].member = u
            /\ call'[c].email = email /\ call'[c].secret = secret
            /\ \A d \in Calls \ {c} : call'[d] = call[d]
        BY <1>0, <2>3 DEF TypeOK
      <3>3. KeepsLogins
        BY <2>1, <3>2 DEF KeepsLogins
      <3>4. IdleIsNew'
        BY <2>1, <3>2 DEF SessionInv, IdleIsNew
      <3>5. SessionsOpened'
        <4>1. OpenedBy(c, u)'
          BY <2>1, <3>1, <3>2 DEF OpenedBy
        <4>2. session[c] = None
          BY <2>1 DEF SessionInv, IdleIsNew
        <4>3. \A t \in Calls \ {c} : \A v : OpenedBy(t, v) => OpenedBy(t, v)'
          BY <2>1, <3>2 DEF OpenedBy
        <4> QED BY <2>1, <3>2, <4>1, <4>2, <4>3 DEF SessionInv, SessionsOpened, OpenedBy
      <3>6. CheckedOpened'
        <4> SUFFICES ASSUME NEW d \in Calls, call'[d].at \in {"find", "run"}
                     PROVE  /\ call'[d].token # None /\ call'[call'[d].token].at = "loggedIn"
                            /\ OpenedBy(call[d].token, call[d].member)'
          BY DEF CheckedOpened
        <4>1. d # c /\ call'[d] = call[d] /\ call[d].token # None
              /\ call[call[d].token].at = "loggedIn" /\ OpenedBy(call[d].token, call[d].member)
          BY <3>2 DEF SessionInv, CheckedOpened
        <4>2. call[d].token \in Calls \ {c}
          BY <1>0, <2>1, <4>1 DEF TypeOK, Locals
        <4> QED BY <2>1, <3>2, <4>1, <4>2 DEF OpenedBy
      <3>7. RevokedIsGone'
        BY <1>0, <2>1, <3>2 DEF SessionInv, RevokedIsGone, TypeOK
      <3> QED BY <1>0, <3>4, <3>5, <3>6, <3>7 DEF SessionInv
    <2> QED BY <1>4, <2>2, <2>3 DEF LoginFind
  <1>5. ASSUME NEW c \in Calls, LoginSet(c) PROVE SessionInv'
    <2>1. /\ call[c].at = "set" /\ UNCHANGED <<accounts, revoked>>
          /\ \E label \in {"loggedIn", "failed"} : Goto(c, label)
          /\ session' = session \/ session' = [session EXCEPT ![c] = call[c].member]
      BY <1>5 DEF LoginSet
    <2>2. PICK label \in {"loggedIn", "failed"} : Goto(c, label)
      BY <2>1
    <2>3. KeepsAccounts /\ KeepsLogins
      BY <1>0, <2>1, <2>2, GotoKeeps DEF KeepsAccounts
    <2>4. \A d \in Calls : call'[d].at = IF d = c THEN label ELSE call[d].at
      BY <1>0, <2>2, GotoLabels
    <2>5. \A d \in Calls \ {c} : session'[d] = session[d]
      BY <1>0, <2>1 DEF TypeOK
    <2>6. IdleIsNew'
      BY <2>1, <2>2, <2>4, <2>5 DEF SessionInv, IdleIsNew
    <2>7. OpenedBy(c, call[c].member) /\ session[c] = None
      BY <2>1 DEF SessionInv, SessionsOpened
    <2>8. SessionsOpened'
      <3> SUFFICES ASSUME NEW t \in Calls
                   PROVE  /\ (call[t].at = "set" => OpenedBy(t, call[t].member) /\ session[t] = None)'
                          /\ (session[t] # None => OpenedBy(t, session[t]))'
        BY DEF SessionsOpened
      <3>1. CASE t = c
        <4>1. session'[c] \in {None, call[c].member}
          BY <1>0, <2>1, <2>7 DEF TypeOK
        <4>2. OpenedBy(c, call[c].member)' /\ call'[c].member = call[c].member
          <5>1. call'[c].member = call[c].member /\ call[c].member \in Calls
            BY <2>1, <2>3, <2>7 DEF KeepsLogins, OpenedBy
          <5> QED BY <2>1, <2>3, <2>7, <5>1, OpenedIsKept DEF OpenedBy
        <4> QED BY <2>2, <2>4, <3>1, <4>1, <4>2 DEF OpenedBy
      <3>2. CASE t # c
        <4>1. call'[t].at = call[t].at /\ session'[t] = session[t]
          BY <2>4, <2>5, <3>2
        <4>2. ASSUME NEW u \in Calls, OpenedBy(t, u), call[t].at # "idle" PROVE OpenedBy(t, u)'
          BY <2>3, <4>2, OpenedIsKept
        <4>3. call'[t].at = "set" => OpenedBy(t, call[t].member)' /\ session'[t] = None
          <5> SUFFICES ASSUME call'[t].at = "set"
                       PROVE  OpenedBy(t, call[t].member)' /\ session'[t] = None
            OBVIOUS
          <5>1. call[t].at = "set" /\ OpenedBy(t, call[t].member) /\ session[t] = None
            BY <4>1 DEF SessionInv, SessionsOpened
          <5>2. call'[t].member = call[t].member /\ call[t].member \in Calls
            BY <2>3, <5>1 DEF KeepsLogins, OpenedBy
          <5>3. OpenedBy(t, call[t].member)'
            BY <2>3, <5>1, <5>2, OpenedIsKept DEF OpenedBy
          <5> QED BY <4>1, <5>1, <5>3
        <4>4. session'[t] # None => OpenedBy(t, session[t])'
          BY <4>1, <4>2 DEF SessionInv, SessionsOpened, IdleIsNew, OpenedBy
        <4> QED BY <4>3, <4>4
      <3> QED BY <3>1, <3>2
    <2>9. CheckedOpened'
      <3> SUFFICES ASSUME NEW d \in Calls, call'[d].at \in {"find", "run"}
                   PROVE  /\ call'[d].token # None /\ call'[call'[d].token].at = "loggedIn"
                          /\ OpenedBy(call[d].token, call[d].member)'
        BY DEF CheckedOpened
      <3>1. call[d].at \in {"find", "run"}
        BY <2>2, <2>4
      <3>2. /\ call[d].token # None /\ call[call[d].token].at = "loggedIn"
            /\ OpenedBy(call[d].token, call[d].member)
        BY <3>1 DEF SessionInv, CheckedOpened
      <3>3. call'[d].token = call[d].token /\ call'[d].member = call[d].member
        BY <2>3, <3>1 DEF KeepsLogins
      <3>4. call[d].token \in Calls /\ call[d].member \in Calls
        BY <1>0, <3>2 DEF TypeOK, Locals, OpenedBy
      <3> QED BY <2>3, <3>2, <3>3, <3>4, OpenedIsKept DEF OpenedBy, KeepsLogins
    <2>10. RevokedIsGone'
      BY <1>0, <2>1, <2>4, <2>5 DEF SessionInv, RevokedIsGone, TypeOK
    <2> QED BY <1>0, <2>6, <2>8, <2>9, <2>10 DEF SessionInv
  <1>6. ASSUME NEW c \in Calls, NEW t \in Shown, AuthGet(c, t) PROVE SessionInv'
    <2>1. call[c].at = "idle" /\ UNCHANGED <<accounts, session, revoked>> /\ KeepsAccounts
      BY <1>6 DEF AuthGet, KeepsAccounts
    <2>2. CASE Goto(c, "refused")
      <3>1. RevokedIsGone'
        BY <1>2, <2>1, <2>2
      <3> QED BY <1>1, <2>1, <2>2, <3>1 DEF Answers
    <2>3. CASE /\ Known(t)
               /\ call' = [call EXCEPT ![c] = [at |-> "find", email |-> None, secret |-> None,
                                               token |-> t, member |-> session[t]]]
      <3>1. /\ t \in Calls /\ t # None /\ call[t].at = "loggedIn" /\ t # c
            /\ OpenedBy(t, session[t])
        BY <2>1, <2>3 DEF Known, Shown, SessionInv, SessionsOpened
      <3>2. /\ call'[c].at = "find" /\ call'[c].token = t /\ call'[c].member = session[t]
            /\ \A d \in Calls \ {c} : call'[d] = call[d]
        BY <1>0, <2>3 DEF TypeOK
      <3>3. \A d \in Calls \ {c} : \A v : OpenedBy(d, v) => OpenedBy(d, v)'
        BY <2>1, <3>2 DEF OpenedBy
      <3>4. IdleIsNew'
        BY <2>1, <3>2 DEF SessionInv, IdleIsNew
      <3>5. session[c] = None
        BY <2>1 DEF SessionInv, IdleIsNew
      <3>6. SessionsOpened'
        BY <2>1, <3>2, <3>3, <3>5 DEF SessionInv, SessionsOpened, OpenedBy
      <3>7. CheckedOpened'
        <4> SUFFICES ASSUME NEW d \in Calls, call'[d].at \in {"find", "run"}
                     PROVE  /\ call'[d].token # None /\ call'[call'[d].token].at = "loggedIn"
                            /\ OpenedBy(call[d].token, call[d].member)'
          BY DEF CheckedOpened
        <4>1. CASE d = c
          BY <2>1, <3>1, <3>2, <4>1 DEF OpenedBy
        <4>2. CASE d # c
          <5>1. /\ call'[d] = call[d] /\ call[d].token # None
                /\ call[call[d].token].at = "loggedIn" /\ OpenedBy(call[d].token, call[d].member)
            BY <3>2, <4>2 DEF SessionInv, CheckedOpened
          <5>2. call[d].token \in Calls \ {c}
            BY <1>0, <2>1, <5>1 DEF TypeOK, Locals
          <5> QED BY <2>1, <3>2, <5>1, <5>2 DEF OpenedBy
        <4> QED BY <4>1, <4>2
      <3>8. RevokedIsGone'
        BY <1>0, <2>1, <3>2 DEF SessionInv, RevokedIsGone, TypeOK
      <3> QED BY <1>0, <3>4, <3>6, <3>7, <3>8 DEF SessionInv
    <2> QED BY <1>6, <2>2, <2>3 DEF AuthGet
  <1>7. ASSUME NEW c \in Calls, AuthFind(c) PROVE SessionInv'
    <2>1. /\ call[c].at = "find" /\ UNCHANGED <<accounts, session, revoked>> /\ KeepsAccounts
          /\ \E label \in {"run", "refused"} : Goto(c, label)
      BY <1>7 DEF AuthFind, KeepsAccounts
    <2>2. PICK label \in {"run", "refused"} : Goto(c, label)
      BY <2>1
    <2>3. RevokedIsGone'
      BY <1>2, <2>1, <2>2
    <2> QED BY <1>1, <2>1, <2>2, <2>3 DEF Answers
  <1>8. ASSUME NEW c \in Calls, Logout(c) PROVE SessionInv'
    <2>1. call[c].at = "run" /\ Goto(c, "done") /\ UNCHANGED accounts /\ KeepsAccounts
      BY <1>8 DEF Logout, KeepsAccounts
    <2>2. \A t \in Calls : session'[t] \in {None, session[t]}
      BY <1>0, <1>8 DEF Logout, TypeOK
    <2>3. call[c].token \in Calls /\ call[c].token # None /\ call[call[c].token].at = "loggedIn"
      BY <1>0, <2>1 DEF SessionInv, CheckedOpened, TypeOK, Locals
    <2>4. RevokedIsGone'
      <3> SUFFICES ASSUME NEW t \in revoked'
                   PROVE  t # None /\ call'[t].at = "loggedIn" /\ session'[t] = None
        BY DEF RevokedIsGone
      <3>1. CASE t \in revoked
        <4>1. t \in Calls /\ t # None /\ call[t].at = "loggedIn" /\ session[t] = None
          BY <1>0, <3>1 DEF SessionInv, RevokedIsGone, TypeOK
        <4> QED BY <1>0, <2>1, <2>2, <4>1, GotoLabels
      <3>2. CASE t \notin revoked
        <4>1. t = call[c].token /\ session' = [session EXCEPT ![t] = None]
          BY <1>8, <3>2 DEF Logout
        <4> QED BY <1>0, <2>1, <2>3, <4>1, GotoLabels DEF TypeOK
      <3> QED BY <3>1, <3>2
    <2> QED BY <1>1, <2>1, <2>2, <2>4 DEF Answers
  <1>9. ASSUME NEW c \in Calls, NEW target \in Calls, NEW name, UpdateName(c, target, name)
        PROVE  SessionInv'
    <2>1. /\ call[c].at = "run" /\ UNCHANGED <<session, revoked>>
          /\ \E label \in {"done", "refused"} : Goto(c, label)
      BY <1>9 DEF UpdateName
    <2>2. PICK label \in {"done", "refused"} : Goto(c, label)
      BY <2>1
    <2>3. \/ accounts' = accounts
          \/ /\ accounts[target] # None
             /\ accounts' = [accounts EXCEPT ![target].name = name]
      BY <1>9 DEF UpdateName
    <2>4. KeepsAccounts /\ \A d \in Calls : accounts[d] = None => accounts'[d] = accounts[d]
      <3>1. CASE accounts' = accounts
        BY <3>1 DEF KeepsAccounts
      <3>2. CASE accounts[target] # None /\ accounts' = [accounts EXCEPT ![target].name = name]
        <4>1. accounts'[target] = [accounts[target] EXCEPT !.name = name]
              /\ accounts[target] \in Accounts
              /\ \A d \in Calls \ {target} : accounts'[d] = accounts[d]
          BY <1>0, <3>2 DEF TypeOK
        <4>2. /\ accounts'[target] # None
              /\ accounts'[target].email = accounts[target].email
              /\ accounts'[target].secret = accounts[target].secret
          <5>1. accounts'[target] \in Accounts \cup {None}
            BY <1>0 DEF TypeOK
          <5>2. /\ accounts'[target].email = accounts[target].email
                /\ accounts'[target].secret = accounts[target].secret
            BY <4>1 DEF Accounts
          <5>3. accounts'[target] \in [email : Emails, secret : Secrets, name : {name}]
            BY <4>1 DEF Accounts
          <5>4. name \in Names
            BY <1>9, <3>2, <4>1 DEF UpdateName, Accounts
          <5> QED BY <5>2, <5>3, <5>4, AccountAssumption DEF Accounts
        <4> QED BY <3>2, <4>1, <4>2 DEF KeepsAccounts
      <3> QED BY <2>3, <3>1, <3>2
    <2>5. RevokedIsGone'
      BY <1>2, <2>1, <2>2
    <2> QED BY <1>1, <2>1, <2>2, <2>4, <2>5 DEF Answers
  <1>10. ASSUME NEW c \in Calls, SearchUsers(c) PROVE SessionInv'
    <2>1. RevokedIsGone'
      BY <1>2, <1>10 DEF SearchUsers
    <2> QED BY <1>1, <1>10, <2>1 DEF SearchUsers, Answers, KeepsAccounts
  <1>11. CASE Crash
    <2>1. UNCHANGED <<accounts, session, revoked>> /\ KeepsAccounts
      BY <1>11 DEF Crash, KeepsAccounts
    <2>2. ASSUME NEW c \in Calls
          PROVE  /\ call'[c].email = call[c].email /\ call'[c].secret = call[c].secret
                 /\ call'[c].token = call[c].token /\ call'[c].member = call[c].member
                 /\ call'[c].at = IF call[c].at \in InFlightSteps THEN "dead" ELSE call[c].at
      <3>1. call[c] \in Locals
        BY <1>0 DEF TypeOK
      <3> QED BY <1>11, <3>1 DEF Crash, Locals
    <2>3. KeepsLogins
      BY <2>2 DEF KeepsLogins, InFlightSteps
    <2>4. RevokedIsGone'
      BY <1>0, <2>1, <2>2 DEF SessionInv, RevokedIsGone, TypeOK, InFlightSteps
    <2> QED BY <1>0, <2>1, <2>2, <2>3, <2>4, QuietStep DEF InFlightSteps
  <1>12. ASSUME NEW t \in Calls, Expire(t) PROVE SessionInv'
    <2>1. UNCHANGED <<accounts, call, revoked>> /\ KeepsAccounts /\ KeepsLogins
      BY <1>12 DEF Expire, KeepsAccounts, KeepsLogins
    <2>2. \A d \in Calls : session'[d] \in {None, session[d]}
      BY <1>0, <1>12 DEF Expire, TypeOK
    <2>3. RevokedIsGone'
      BY <1>0, <2>1, <2>2 DEF SessionInv, RevokedIsGone, TypeOK
    <2> QED BY <1>0, <2>1, <2>2, <2>3, QuietStep
  <1>13. CASE UNCHANGED vars
    BY <1>0, <1>13
    DEF vars, SessionInv, IdleIsNew, SessionsOpened, CheckedOpened, RevokedIsGone, OpenedBy
  <1> QED
    BY <1>3, <1>4, <1>5, <1>6, <1>7, <1>8, <1>9, <1>10, <1>11, <1>12, <1>13
    DEF Next, PublicStep, ProtectedStep

THEOREM SessionInvariant == Spec => []SessionInv
  BY SessionInit, SessionStep, PTL DEF Spec

-----------------------------------------------------------------------------

(* The rows, the keys and the calls are well typed in every state.          *)
THEOREM SessionTypeCorrect == Spec => []TypeOK
  <1>1. SessionInv => TypeOK
    BY DEF SessionInv
  <1> QED BY <1>1, SessionInvariant, PTL

(* A request that was let in acts for the member whose password opened its  *)
(* session.                                                                 *)
THEOREM ActsForItself == Spec => []ActsForItsMember
  <1>1. SessionInv => ActsForItsMember
    BY DEF SessionInv, CheckedOpened, ActsForItsMember
  <1> QED BY <1>1, SessionInvariant, PTL

(* A token whose key a logout has removed lets no later request in.         *)
THEOREM LogoutIsFinal == Spec => LoggedOutStaysOut
  <1>1. SessionInv /\ [Next]_vars =>
          [\A c \in Calls :
             call[c].at = "idle" /\ call'[c].at = "find" => call'[c].token \notin revoked]_vars
    <2> SUFFICES ASSUME SessionInv, [Next]_vars, NEW c \in Calls,
                        call[c].at = "idle", call'[c].at = "find"
                 PROVE  call'[c].token \notin revoked
      OBVIOUS
    <2>0. TypeOK
      BY DEF SessionInv
    <2>1. ASSUME NEW d \in Calls, NEW label, Goto(d, label), label # "find" PROVE FALSE
      BY <2>0, <2>1, GotoLabels
    <2>2. PICK d \in Calls, t \in Shown : AuthGet(d, t)
      <3>1. CASE Crash
        <4>1. call'[c] = call[c]
          BY <3>1 DEF Crash, InFlightSteps
        <4> QED BY <4>1
      <3>2. ASSUME NEW d \in Calls, NEW email, NEW secret, LoginFind(d, email, secret)
            PROVE  FALSE
        <4>1. PICK u \in FindByEmailAndPassword(email, secret) :
                call' = [call EXCEPT ![d] = [at |-> "set", email |-> email, secret |-> secret,
                                             token |-> None, member |-> u]]
          BY <2>1, <3>2 DEF LoginFind
        <4> QED BY <2>0, <4>1 DEF TypeOK
      <3>3. CASE UNCHANGED vars \/ \E t \in Calls : Expire(t)
        BY <3>3 DEF vars, Expire
      <3>4. ASSUME NEW e \in Calls, NEW email, NEW secret, NEW name,
                   Register(e, email, secret, name)
            PROVE  FALSE
        BY <2>1, <3>4 DEF Register
      <3>5. ASSUME NEW e \in Calls, LoginSet(e) \/ AuthFind(e) PROVE FALSE
        BY <2>1, <3>5 DEF LoginSet, AuthFind
      <3>6. ASSUME NEW e \in Calls, Logout(e) \/ SearchUsers(e) PROVE FALSE
        BY <2>1, <3>6 DEF Logout, SearchUsers
      <3>7. ASSUME NEW e \in Calls, NEW target, NEW name, UpdateName(e, target, name) PROVE FALSE
        BY <2>1, <3>7 DEF UpdateName
      <3> QED
        BY <3>1, <3>2, <3>3, <3>4, <3>5, <3>6, <3>7 DEF Next, PublicStep, ProtectedStep
    <2>3. /\ Known(t)
          /\ call' = [call EXCEPT ![d] = [at |-> "find", email |-> None, secret |-> None,
                                          token |-> t, member |-> session[t]]]
      BY <2>1, <2>2 DEF AuthGet
    <2>4. c = d /\ call'[c].token = t
      BY <2>0, <2>3 DEF TypeOK
    <2> QED BY <2>3, <2>4 DEF Known, SessionInv, RevokedIsGone
  <1> QED BY <1>1, SessionInvariant, PTL DEF Spec, LoggedOutStaysOut

(* Only a request with a session that its password opened changes a member. *)
THEOREM RenamesOnlyItself == Spec => RenamedByItsOwner
  <1> DEFINE Renamed ==
        \A u \in Calls :
          accounts[u] # None /\ accounts'[u] # accounts[u] =>
            /\ accounts'[u] = [accounts[u] EXCEPT !.name = accounts'[u].name]
            /\ \E c \in Calls : /\ call[c].at = "run" /\ call'[c].at = "done"
                                /\ OpenedBy(call[c].token, u)
  <1>1. SessionInv /\ [Next]_vars => [Renamed]_vars
    <2> SUFFICES ASSUME SessionInv, [Next]_vars, NEW u \in Calls,
                        accounts[u] # None, accounts'[u] # accounts[u]
                 PROVE  /\ accounts'[u] = [accounts[u] EXCEPT !.name = accounts'[u].name]
                        /\ \E c \in Calls : /\ call[c].at = "run" /\ call'[c].at = "done"
                                            /\ OpenedBy(call[c].token, u)
      OBVIOUS
    <2>0. TypeOK
      BY DEF SessionInv
    <2>1. PICK c \in Calls, target \in Calls, name \in Names \cup {Malformed} :
            UpdateName(c, target, name)
      <3>1. ASSUME NEW c \in Calls, NEW email, NEW secret, NEW name,
                   Register(c, email, secret, name)
            PROVE  FALSE
        <4>1. accounts[c] = None /\ (accounts' = accounts \/ \E row : accounts' = [accounts EXCEPT ![c] = row])
          BY <3>1 DEF Register, Save, SessionInv, IdleIsNew
        <4> QED BY <2>0, <4>1 DEF TypeOK
      <3> QED
        BY <3>1
        DEF Next, PublicStep, ProtectedStep, LoginFind, LoginSet, AuthGet, AuthFind, Logout,
            SearchUsers, Expire, Crash, vars
    <2>2. /\ call[c].at = "run" /\ MayRename(c, target) /\ Goto(c, "done")
          /\ accounts' = [accounts EXCEPT ![target].name = name]
      BY <2>1 DEF UpdateName
    <2>3. u = target /\ accounts'[u] = [accounts[u] EXCEPT !.name = name]
      BY <2>0, <2>2 DEF TypeOK
    <2>4. accounts[u] \in Accounts
      BY <2>0 DEF TypeOK
    <2>5. accounts'[u].name = name
      BY <2>3, <2>4 DEF Accounts
    <2>6. OpenedBy(call[c].token, u)
      BY <2>2, <2>3 DEF SessionInv, CheckedOpened, MayRename
    <2>7. call'[c].at = "done"
      BY <2>0, <2>2, GotoLabels
    <2> QED BY <2>2, <2>3, <2>5, <2>6, <2>7
  <1> QED BY <1>1, SessionInvariant, PTL DEF Spec, RenamedByItsOwner

-----------------------------------------------------------------------------
(* The refinement of Membership.                                            *)

EmailsApart ==
  \A u, v \in Calls :
    /\ accounts[u] # None /\ accounts[v] # None
    /\ accounts[u].email = accounts[v].email
    => u = v

(* How the accounts change: a call adds its own, or one gets a new name.    *)
Joins(c) ==
  /\ accounts[c] = None
  /\ \E row \in Accounts :
       /\ \A u \in Calls : accounts[u] # None => accounts[u].email # row.email
       /\ accounts' = [accounts EXCEPT ![c] = row]

LEMMA UpdateRenames ==
  ASSUME TypeOK, NEW c \in Calls, NEW u \in Calls, NEW name, UpdateName(c, u, name),
         accounts' # accounts
  PROVE  call[c].member = u /\ accounts[u] # None /\ Member!Rename(u)
<1> DEFINE row == [accounts[u] EXCEPT !.name = name]
<1>1. /\ name \in Names /\ accounts[u] # None /\ call[c].member = u
      /\ accounts' = [accounts EXCEPT ![u] = row]
  BY DEF UpdateName, MayRename
<1>2. row \in Accounts /\ row.email = accounts[u].email /\ row.secret = accounts[u].secret
  BY <1>1 DEF TypeOK, Accounts
<1> QED
  BY <1>1, <1>2 DEF Member!Rename

LEMMA AccountsChange ==
  ASSUME SessionInv, [Next]_vars
  PROVE  \/ accounts' = accounts
         \/ \E c \in Calls : Joins(c)
         \/ \E u \in Calls : accounts[u] # None /\ Member!Rename(u)
<1>0. TypeOK
  BY DEF SessionInv
<1>1. ASSUME NEW c \in Calls, NEW email, NEW secret, NEW name, Register(c, email, secret, name),
             accounts' # accounts
      PROVE  Joins(c)
  BY <1>1 DEF Register, Save, EmailTaken, Joins, SessionInv, IdleIsNew
<1>2. ASSUME NEW c \in Calls, NEW u \in Calls, NEW name, UpdateName(c, u, name),
             accounts' # accounts
      PROVE  accounts[u] # None /\ Member!Rename(u)
  BY <1>0, <1>2, UpdateRenames
<1> QED
  BY <1>1, <1>2
  DEF Next, PublicStep, ProtectedStep, LoginFind, LoginSet, AuthGet, AuthFind, Logout,
      SearchUsers, Expire, Crash, vars

LEMMA EmailsStep ==
  ASSUME SessionInv, EmailsApart, [Next]_vars
  PROVE  EmailsApart'
<1>0. TypeOK
  BY DEF SessionInv
<1>1. ASSUME NEW c \in Calls, Joins(c)
      PROVE  EmailsApart'
  BY <1>0, <1>1 DEF Joins, EmailsApart, TypeOK
<1>2. ASSUME NEW u \in Calls, accounts[u] # None, Member!Rename(u)
      PROVE  EmailsApart'
  BY <1>0, <1>2 DEF Member!Rename, EmailsApart, TypeOK
<1>3. CASE accounts' = accounts
  BY <1>3 DEF EmailsApart
<1> QED
  BY <1>1, <1>2, <1>3, AccountsChange

(* What a Goto means to a reader of Membership.                             *)
LEMMA Answered ==
  ASSUME TypeOK, NEW c \in Calls, NEW label \in Answers, Goto(c, label)
  PROVE  Fresh' = Fresh \ {c} /\ Acting' = [Acting EXCEPT ![c] = None]
<1>1. \A d \in Calls : call'[d].at = IF d = c THEN label ELSE call[d].at
  BY GotoLabels
<1>2. \A d \in Calls \ {c} : call'[d].member = call[d].member
  BY DEF Goto, TypeOK
<1>3. label \notin {"idle", "set", "find", "run"}
  BY DEF Answers
<1> QED
  BY <1>1, <1>2, <1>3 DEF Fresh, Acting

LEMMA Declined ==
  ASSUME TypeOK, NEW c \in Calls, NEW label \in Answers, Goto(c, label),
         call[c].at \in {"idle", "set"}
  PROVE  Member!Begin(c) /\ Acting' = Acting
<1>1. c \in Fresh /\ Acting[c] = None
  BY DEF Fresh, Acting
<1> QED
  BY <1>1, Answered DEF Member!Begin, Acting

LEMMA LetIn ==
  ASSUME SessionInv, NEW c \in Calls, call[c].at \in {"find", "run"}
  PROVE  /\ Acting[c] = call[c].member /\ Acting[c] \in Calls /\ Acting[c] # None
         /\ c \notin Fresh
BY SessionAssumption DEF SessionInv, CheckedOpened, OpenedBy, Acting, Fresh

LEMMA MemberStep ==
  ASSUME SessionInv, EmailsApart, [Next]_vars
  PROVE  [Member!Next]_Member!memberVars
<1>0. TypeOK
  BY DEF SessionInv
<1>1. ASSUME NEW c \in Calls, NEW email, NEW secret, NEW name, Register(c, email, secret, name)
      PROVE  Member!Join(c) \/ Member!Decline(c)
  <2>1. Member!Begin(c) /\ Acting' = Acting /\ UNCHANGED session
    BY <1>0, <1>1, Declined DEF Register, Answers
  <2>2. accounts' = accounts \/ Joins(c)
    BY <1>1 DEF Register, Save, EmailTaken, Joins, SessionInv, IdleIsNew
  <2> QED
    BY <2>1, <2>2 DEF Joins, Member!Join, Member!Decline
<1>2. ASSUME NEW c \in Calls, NEW email, NEW secret, LoginFind(c, email, secret)
      PROVE  Member!Decline(c) \/ UNCHANGED Member!memberVars
  <2>1. UNCHANGED <<accounts, session>> /\ call[c].at = "idle"
    BY <1>2 DEF LoginFind
  <2>2. CASE Goto(c, "refused")
    BY <1>0, <2>1, <2>2, Declined DEF Member!Decline, Answers
  <2>3. ASSUME NEW u, call' = [call EXCEPT ![c] = [at |-> "set", email |-> email,
                                 secret |-> secret, token |-> None, member |-> u]]
        PROVE  UNCHANGED <<Fresh, Acting>>
    <3>1. call'[c].at = "set" /\ \A d \in Calls \ {c} : call'[d] = call[d]
      BY <1>0, <2>3 DEF TypeOK
    <3> QED
      BY <2>1, <3>1 DEF Fresh, Acting
  <2> QED
    BY <1>2, <2>1, <2>2, <2>3 DEF LoginFind, Member!memberVars
<1>3. ASSUME NEW c \in Calls, LoginSet(c)
      PROVE  Member!Open(c) \/ Member!Decline(c)
  <2>1. Member!Begin(c) /\ Acting' = Acting /\ UNCHANGED accounts
    BY <1>0, <1>3, Declined DEF LoginSet, Answers
  <2>2. call[c].member \in Calls /\ accounts[call[c].member] # None
    BY <1>3 DEF LoginSet, SessionInv, SessionsOpened, OpenedBy
  <2> QED
    BY <1>3, <2>1, <2>2 DEF LoginSet, Member!Open, Member!Decline
<1>4. ASSUME NEW c \in Calls, NEW t \in Shown, AuthGet(c, t)
      PROVE  Member!Decline(c) \/ \E s \in Calls : Member!Admit(c, s)
  <2>1. UNCHANGED <<accounts, session>> /\ call[c].at = "idle"
    BY <1>4 DEF AuthGet
  <2>2. CASE Goto(c, "refused")
    BY <1>0, <2>1, <2>2, Declined DEF Member!Decline, Answers
  <2>3. CASE /\ Known(t)
             /\ call' = [call EXCEPT ![c] = [at |-> "find", email |-> None, secret |-> None,
                                             token |-> t, member |-> session[t]]]
    <3>1. t \in Calls /\ session[t] # None
      BY <2>3 DEF Known, Shown
    <3>2. /\ call'[c].at = "find" /\ call'[c].member = session[t]
          /\ \A d \in Calls \ {c} : call'[d] = call[d]
      BY <1>0, <2>3 DEF TypeOK
    <3>3. c \in Fresh /\ Fresh' = Fresh \ {c} /\ Acting' = [Acting EXCEPT ![c] = session[t]]
      BY <2>1, <3>2 DEF Fresh, Acting
    <3> QED
      BY <2>1, <3>1, <3>3 DEF Member!Admit, Member!Begin
  <2> QED
    BY <1>4, <2>2, <2>3 DEF AuthGet
<1>5. ASSUME NEW c \in Calls, AuthFind(c)
      PROVE  Member!Act(c) \/ UNCHANGED Member!memberVars
  <2>1. UNCHANGED <<accounts, session>> /\ call[c].at = "find"
    BY <1>5 DEF AuthFind
  <2>2. CASE Goto(c, "run")
    <3>1. \A d \in Calls : call'[d].at = IF d = c THEN "run" ELSE call[d].at
      BY <1>0, <2>2, GotoLabels
    <3>2. \A d \in Calls : call'[d].member = call[d].member
      BY <1>0, <2>2 DEF Goto, TypeOK, Locals
    <3> QED
      BY <2>1, <3>1, <3>2 DEF Fresh, Acting, Member!memberVars
  <2>3. CASE Goto(c, "refused")
    <3>1. "refused" \in Answers
      BY DEF Answers
    <3>2. /\ Acting[c] # None /\ c \notin Fresh
          /\ Acting' = [Acting EXCEPT ![c] = None] /\ Fresh' = Fresh \ {c}
      BY <1>0, <2>1, <2>3, <3>1, Answered, LetIn
    <3>3. Fresh' = Fresh
      BY <3>2
    <3> QED
      BY <2>1, <3>2, <3>3 DEF Member!Act
  <2> QED
    BY <1>5, <2>2, <2>3 DEF AuthFind
<1>6. ASSUME NEW c \in Calls, call[c].at = "run", NEW label \in Answers, Goto(c, label),
             \/ UNCHANGED <<accounts, session>>
             \/ UNCHANGED session /\ Member!Rename(call[c].member)
             \/ UNCHANGED accounts /\ \E t \in Calls : session[t] = call[c].member /\ Member!Close(t)
      PROVE  Member!Act(c)
  <2>1. /\ Acting[c] = call[c].member /\ Acting[c] # None
        /\ Acting' = [Acting EXCEPT ![c] = None]
    BY <1>0, <1>6, Answered, LetIn
  <2>2. Fresh' = Fresh
    <3>1. Fresh' = Fresh \ {c}
      BY <1>0, <1>6, Answered
    <3>2. c \notin Fresh
      BY <1>6, LetIn
    <3> QED
      BY <3>1, <3>2
  <2>3. CASE UNCHANGED <<accounts, session>>
    BY <2>1, <2>2, <2>3 DEF Member!Act
  <2>4. CASE UNCHANGED session /\ Member!Rename(call[c].member)
    BY <2>1, <2>2, <2>4 DEF Member!Act
  <2>5. CASE UNCHANGED accounts /\ \E t \in Calls : session[t] = call[c].member /\ Member!Close(t)
    BY <2>1, <2>2, <2>5 DEF Member!Act
  <2> QED
    BY <1>6, <2>3, <2>4, <2>5
<1>7. ASSUME NEW c \in Calls, Logout(c)
      PROVE  Member!Act(c)
  <2> DEFINE t == call[c].token
  <2>1. /\ call[c].at = "run" /\ Goto(c, "done") /\ UNCHANGED accounts
        /\ session' = session \/ session' = [session EXCEPT ![t] = None]
    BY <1>7 DEF Logout
  <2>2. t \in Calls /\ OpenedBy(t, call[c].member)
    BY <1>0, <2>1 DEF SessionInv, CheckedOpened, TypeOK, Locals
  <2>3. session[t] = None \/ session[t] = call[c].member
    BY <1>0, <2>2 DEF SessionInv, SessionsOpened, OpenedBy, EmailsApart
  <2>4. CASE session[t] = None
    BY <1>0, <1>6, <2>1, <2>2, <2>4 DEF Answers, TypeOK
  <2>5. CASE session[t] = call[c].member
    BY <1>6, <2>1, <2>2, <2>5 DEF Answers, Member!Close
  <2> QED
    BY <2>3, <2>4, <2>5
<1>8. ASSUME NEW c \in Calls, NEW u \in Calls, NEW name, UpdateName(c, u, name)
      PROVE  Member!Act(c)
  <2>1. call[c].at = "run" /\ UNCHANGED session /\ \E label \in Answers : Goto(c, label)
    BY <1>8 DEF UpdateName, Answers
  <2>2. CASE accounts' = accounts
    BY <1>6, <2>1, <2>2
  <2>3. CASE accounts' # accounts
    BY <1>0, <1>6, <1>8, <2>1, <2>3, UpdateRenames
  <2> QED
    BY <2>2, <2>3
<1>9. ASSUME NEW c \in Calls, SearchUsers(c)
      PROVE  Member!Act(c)
  BY <1>6, <1>9 DEF SearchUsers, Answers
<1>10. ASSUME NEW t \in Calls, Expire(t)
       PROVE  Member!Expire(t)
  BY <1>10 DEF Expire, Member!Expire, Member!Close, Fresh, Acting
<1>11. CASE Crash
  <2>1. \A c \in Calls : call'[c].at = IF call[c].at \in InFlightSteps THEN "dead" ELSE call[c].at
    BY <1>0, <1>11 DEF Crash, TypeOK, Locals
  <2>2. Acting' = [c \in Calls |-> None] /\ Fresh' \subseteq Fresh
    BY <2>1 DEF Acting, Fresh, InFlightSteps
  <2> QED
    BY <1>11, <2>2 DEF Crash, Member!GiveUp, Member!Next
<1>12. CASE UNCHANGED vars
  BY <1>12 DEF vars, Fresh, Acting, Member!memberVars
<1> QED
  BY <1>1, <1>2, <1>3, <1>4, <1>5, <1>7, <1>8, <1>9, <1>10, <1>11, <1>12
  DEF Next, PublicStep, ProtectedStep, Member!Next, Member!memberVars

(* The calls to MySQL and Redis, with everything that can go wrong between  *)
(* them, implement the one-step accounts and sessions of Membership.        *)
THEOREM SessionImplementsMembership == Spec => ImplementsMembership
<1>1. Init => EmailsApart /\ Member!Init
  BY DEF Init, Idle, EmailsApart, Member!Init, Fresh, Acting
<1>2. SessionInv /\ EmailsApart /\ [Next]_vars => EmailsApart' /\ [Member!Next]_Member!memberVars
  BY EmailsStep, MemberStep
<1> QED
  BY <1>1, <1>2, SessionInvariant, PTL DEF Spec, ImplementsMembership, Member!Spec
=============================================================================
