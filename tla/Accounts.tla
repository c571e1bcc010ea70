------------------------------ MODULE Accounts ------------------------------
(***************************************************************************)
(* What the console promises of its accounts: every operation on them      *)
(* takes effect at once or not at all.  A login alone has two effects: the *)
(* credentials are found right, and later, or never, a session is opened.  *)
(* Nothing is said of how names are typed, of what an operation reads      *)
(* before it writes, or of processes; WebAuth has them, and implements     *)
(* this module.                                                            *)
(***************************************************************************)
CONSTANTS
  Clients,    \* who logs in, one login at a time
  Names, Passwords, Tokens,
  Admin,      \* the first account, never deleted or disabled
  Default,    \* its first password
  NoUser, NoSession

VARIABLES
  accounts,   \* accounts[n]: password and state of n, or NoUser
  owner,      \* owner[t]: whose session t is, or NoSession
  admitted    \* admitted[c]: the credentials of c that were right, or NoSession

vars == <<accounts, owner, admitted>>

Account(password, active) == [password |-> password, active |-> active]

Init ==
  /\ accounts = [n \in Names |-> NoUser]
  /\ owner = [t \in Tokens |-> NoSession]
  /\ admitted = [c \in Clients |-> NoSession]

-----------------------------------------------------------------------------

\* The administrator is the first of all accounts.
Found ==
  /\ \A n \in Names : accounts[n] = NoUser
  /\ accounts' = [accounts EXCEPT ![Admin] = Account(Default, TRUE)]
  /\ UNCHANGED <<owner, admitted>>

Create(n, p) ==
  /\ accounts[n] = NoUser /\ \E m \in Names : accounts[m] # NoUser
  /\ accounts' = [accounts EXCEPT ![n] = Account(p, TRUE)]
  /\ UNCHANGED <<owner, admitted>>

SetPassword(n, p) ==
  /\ accounts[n] # NoUser
  /\ accounts' = [accounts EXCEPT ![n].password = p]
  /\ UNCHANGED <<owner, admitted>>

SetActive(n, active) ==
  /\ accounts[n] # NoUser /\ (n = Admin => active)
  /\ accounts' = [accounts EXCEPT ![n].active = active]
  /\ UNCHANGED <<owner, admitted>>

\* An account goes together with all its sessions.
Delete(n) ==
  /\ accounts[n] # NoUser /\ n # Admin
  /\ accounts' = [accounts EXCEPT ![n] = NoUser]
  /\ owner' = [t \in Tokens |-> IF owner[t] = n THEN NoSession ELSE owner[t]]
  /\ UNCHANGED admitted

-----------------------------------------------------------------------------

\* c has shown the password of n, whose account is active.
Admit(c, n) ==
  /\ accounts[n] # NoUser /\ accounts[n].active
  /\ admitted' = [admitted EXCEPT ![c] = [user |-> n, password |-> accounts[n].password]]
  /\ UNCHANGED <<accounts, owner>>

\* c gets a session of the account it was admitted to, which is still there;
\* it may have another password or be disabled by now.
Enter(c, t) ==
  /\ admitted[c] # NoSession /\ accounts[admitted[c].user] # NoUser
  /\ owner[t] = NoSession
  /\ owner' = [owner EXCEPT ![t] = admitted[c].user]
  /\ admitted' = [admitted EXCEPT ![c] = NoSession]
  /\ UNCHANGED accounts

\* The login of c comes to nothing.
GiveUp(c) ==
  /\ admitted' = [admitted EXCEPT ![c] = NoSession]
  /\ UNCHANGED <<accounts, owner>>

\* The sessions T end: logout, expiry.
End(T) ==
  /\ owner' = [t \in Tokens |-> IF t \in T THEN NoSession ELSE owner[t]]
  /\ UNCHANGED <<accounts, admitted>>

Next ==
  \/ \E T \in SUBSET Tokens : End(T)
  \/ Found
  \/ \E n \in Names :
       \/ Delete(n)
       \/ \E p \in Passwords : Create(n, p) \/ SetPassword(n, p)
       \/ \E active \in BOOLEAN : SetActive(n, active)
       \/ \E c \in Clients : Admit(c, n)
  \/ \E c \in Clients : GiveUp(c) \/ \E t \in Tokens : Enter(c, t)

Spec == Init /\ [][Next]_vars
=============================================================================
