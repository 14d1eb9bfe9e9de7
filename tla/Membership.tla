----------------------------- MODULE Membership ----------------------------
(***************************************************************************)
(* What the service promises about members and sessions, with no call to   *)
(* MySQL or Redis in it: an e-mail belongs to one account, only its name   *)
(* ever changes, a token opens one session of one member, once, and a      *)
(* request acts for the member whose session was open when it was let in.  *)
(***************************************************************************)
CONSTANTS Accounts, Calls, None

VARIABLES
  accounts,  \* the accounts, named by the calls that created them
  session,   \* token -> the member whose session it is
  fresh,     \* calls that have done nothing yet that anybody could notice
  acting     \* call -> the member it has been let in for

memberVars == <<accounts, session, fresh, acting>>

Init ==
  /\ accounts = [c \in Calls |-> None]
  /\ session = [c \in Calls |-> None]
  /\ fresh = Calls
  /\ acting = [c \in Calls |-> None]

Begin(c) == c \in fresh /\ fresh' = fresh \ {c}

Join(c) ==
  /\ Begin(c)
  /\ accounts[c] = None
  /\ \E row \in Accounts :
       /\ \A u \in Calls : accounts[u] # None => accounts[u].email # row.email
       /\ accounts' = [accounts EXCEPT ![c] = row]
  /\ UNCHANGED <<session, acting>>

Open(c) ==
  /\ Begin(c)
  /\ \E u \in Calls : accounts[u] # None /\ session' = [session EXCEPT ![c] = u]
  /\ UNCHANGED <<accounts, acting>>

Admit(c, t) ==
  /\ Begin(c)
  /\ session[t] # None
  /\ acting' = [acting EXCEPT ![c] = session[t]]
  /\ UNCHANGED <<accounts, session>>

Decline(c) == Begin(c) /\ UNCHANGED <<accounts, session, acting>>

Rename(u) ==
  \E row \in Accounts :
    /\ row.email = accounts[u].email /\ row.secret = accounts[u].secret
    /\ accounts' = [accounts EXCEPT ![u] = row]

Close(t) == session' = [session EXCEPT ![t] = None]

\* Whoever was let in does one thing, for its member, and is done.
Act(c) ==
  /\ acting[c] # None
  /\ acting' = [acting EXCEPT ![c] = None]
  /\ \/ Rename(acting[c]) /\ UNCHANGED session
     \/ (\E t \in Calls : session[t] = acting[c] /\ Close(t)) /\ UNCHANGED accounts
     \/ UNCHANGED <<accounts, session>>
  /\ UNCHANGED fresh

Expire(t) ==
  /\ session[t] # None
  /\ Close(t)
  /\ UNCHANGED <<accounts, fresh, acting>>

\* Whatever is under way is given up; accounts and sessions stay.
GiveUp ==
  /\ acting' = [c \in Calls |-> None]
  /\ fresh' \subseteq fresh
  /\ UNCHANGED <<accounts, session>>

Next ==
  \/ \E c \in Calls : Join(c) \/ Open(c) \/ Decline(c) \/ Act(c)
  \/ \E c, t \in Calls : Admit(c, t)
  \/ \E t \in Calls : Expire(t)
  \/ GiveUp

Spec == Init /\ [][Next]_memberVars
=============================================================================
