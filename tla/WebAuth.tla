------------------------------ MODULE WebAuth ------------------------------
(***************************************************************************)
(* The console's users and web sessions: UserRepository, called by the     *)
(* start of each process (init_db), by the user commands and pages, by the *)
(* login and by every authenticated request.                               *)
(*                                                                         *)
(* Each worker is a thread or process with a connection of its own.  One   *)
(* write transaction of `_write` or `_best_effort_write` is one step; what *)
(* an operation has read before it is not locked, so that other workers    *)
(* come between its reads and its writes.  A write can fail because the    *)
(* storage stays busy through all its retries.                             *)
(***************************************************************************)
EXTENDS FiniteSets

CONSTANTS
  Workers,    \* threads and processes
  Typed,      \* user names as they are typed
  Names,      \* user names as they are stored
  NormalOf,   \* NormalOf[t]: what validate_username makes of t
  BadName,    \* it raises
  Admin,      \* the name of the default administrator
  Passwords,  \* those hash_password takes: it raises on others, before any write
  Default,    \* the password the default administrator starts with
  Tokens,     \* bound: the session tokens that are ever handed out
  NoUser, NoSession

ASSUME AuthAssumption ==
  /\ Names \subseteq Typed
  /\ NormalOf \in [Typed -> Names \cup {BadName}]
  /\ \A n \in Names : NormalOf[n] = n
  /\ BadName \notin Names
  /\ Admin \in Names /\ Default \in Passwords
  /\ NoUser \notin [password : Passwords, active : BOOLEAN]
  /\ NoSession \notin [user : Names, expired : BOOLEAN] \cup Names
                      \cup [user : Names, password : Passwords]

VARIABLES
  users,     \* users[n]: the row of n
  sessions,  \* sessions[t]: the row of token t
  issued,    \* the tokens some browser has or had in its cookie
  pc,        \* what each worker does next
  job,       \* job[w]: the arguments of the operation w is in
  result     \* result[w]: how the last operation of w ended

vars == <<users, sessions, issued, pc, job, result>>

User(password, active) == [password |-> password, active |-> active]
Session(name, expired) == [user |-> name, expired |-> expired]

Exists(n) == n \in Names /\ users[n] # NoUser

\* Every variable has its type.
TypeOK ==
  /\ users \in [Names -> [password : Passwords, active : BOOLEAN] \cup {NoUser}]
  /\ sessions \in [Tokens -> [user : Names, expired : BOOLEAN] \cup {NoSession}]
  /\ issued \subseteq Tokens
  /\ pc \in [Workers -> {"down", "purge", "idle", "setPassword",
                         "insertSession", "dropSession"}]
  /\ job \in [Workers -> [user : Names, password : Passwords, token : Tokens]]
  /\ result \in [Workers -> {"none", "ok", "refused", "busy", "integrity"}]

Init ==
  /\ users = [n \in Names |-> NoUser]
  /\ sessions = [t \in Tokens |-> NoSession]
  /\ issued = {}
  /\ pc = [w \in Workers |-> "down"]
  /\ job \in [Workers -> [user : {Admin}, password : {Default}, token : Tokens]]
  /\ \A v, w \in Workers : job[v] = job[w]
  /\ result = [w \in Workers |-> "none"]

-----------------------------------------------------------------------------

\* Worker w goes to `next` and its operation has ended so, or not yet.
Ends(w, next, how) ==
  /\ pc' = [pc EXCEPT ![w] = next]
  /\ result' = [result EXCEPT ![w] = how]

\* The operation of w is refused with an AuthError, or its write stays busy.
Refused(w) == Ends(w, "idle", "refused") /\ UNCHANGED <<users, sessions, issued, job>>
Busy(w) == Ends(w, "idle", "busy") /\ UNCHANGED <<users, sessions, issued, job>>

\* validate_username
Normal(typed) == NormalOf[typed]

\* Wrong on purpose: the name is compared before it is normalised.
ProtectsTyped(typed) == typed = Admin

\* set_active and delete_user refuse to touch the default administrator.
Protects(typed) == Normal(typed) = Admin

-----------------------------------------------------------------------------
\* The start of a process: init_db, then, in the web server, the purge

\* Wrong on purpose: the process goes on without the administrator.
GoesOn(w) == Ends(w, "purge", "busy")

\* A start that fails in init_db is tried again by hand.
StartFails(w) == Ends(w, "down", "busy")

\* ensure_default_admin inserts the administrator into an empty table.
WithAdmin ==
  IF \E n \in Names : Exists(n) THEN users ELSE [users EXCEPT ![Admin] = User(Default, TRUE)]

\* init_db, as far as the users go.  ensure_default_admin counts and inserts in
\* the transaction that _ensure_flow_columns has opened, so that no other
\* start comes between the two (StorageInit has the steps).
InitDb(w) ==
  /\ pc[w] = "down"
  /\ \/ StartFails(w) /\ UNCHANGED users
     \/ Ends(w, "purge", "none") /\ users' = WithAdmin
  /\ UNCHANGED <<sessions, issued, job>>

Expired(t) == sessions[t] # NoSession /\ sessions[t].expired

\* purge_expired_sessions, whose failure is of no account; the user commands,
\* which do not purge, go on in the same way.
Purge(w) ==
  /\ pc[w] = "purge"
  /\ Ends(w, "idle", "ok")
  /\ \/ sessions' = [t \in Tokens |-> IF Expired(t) THEN NoSession ELSE sessions[t]]
     \/ UNCHANGED sessions
  /\ UNCHANGED <<users, issued, job>>

\* The process ends, whatever it is at.
Stop(w) ==
  /\ pc[w] # "down"
  /\ Ends(w, "down", "none")
  /\ UNCHANGED <<users, sessions, issued, job>>

-----------------------------------------------------------------------------
\* User management

\* Wrong on purpose: INSERT OR REPLACE.
Overwrites(n) == TRUE

\* The primary key refuses a second row of the same name.
Insertable(n) == ~Exists(n)

CreateUser(w) ==
  /\ pc[w] = "idle"
  /\ \E typed \in Typed, p \in Passwords :
       \/ Normal(typed) = BadName /\ Refused(w)
       \/ Normal(typed) # BadName /\ Busy(w)
       \/ Exists(Normal(typed)) /\ Refused(w)
       \/ /\ Normal(typed) # BadName /\ Insertable(Normal(typed))
          /\ users' = [users EXCEPT ![Normal(typed)] = User(p, TRUE)]
          /\ Ends(w, "idle", "ok")
          /\ UNCHANGED <<sessions, issued, job>>

\* The name the UPDATE of set_password selects its row by.
RowName(typed) == Normal(typed)

\* set_password looks for the user...
FindUser(w) ==
  /\ pc[w] = "idle"
  /\ \E typed \in Typed, p \in Passwords :
       IF ~Exists(Normal(typed))
         THEN Refused(w)
         ELSE /\ job' = [job EXCEPT ![w].user = RowName(typed), ![w].password = p]
              /\ Ends(w, "setPassword", "none")
              /\ UNCHANGED <<users, sessions, issued>>

\* Wrong on purpose: an INSERT OR REPLACE of the whole row.
Replaced(n, p) == [users EXCEPT ![n] = User(p, TRUE)]

\* UPDATE users SET password_hash=? WHERE username=?
WithPassword(n, p) == IF Exists(n) THEN [users EXCEPT ![n].password = p] ELSE users

\* ...and then updates the row, if it is still there: nobody looks at the
\* number of rows.
SetPassword(w) ==
  /\ pc[w] = "setPassword"
  /\ \/ Busy(w)
     \/ /\ users' = WithPassword(job[w].user, job[w].password)
        /\ Ends(w, "idle", "ok")
        /\ UNCHANGED <<sessions, issued, job>>

SetActive(w) ==
  /\ pc[w] = "idle"
  /\ \E typed \in Typed, active \in BOOLEAN :
       IF Normal(typed) = BadName \/ (Protects(typed) /\ ~active)
         THEN Refused(w)
         ELSE \/ Busy(w)
              \/ ~Exists(Normal(typed)) /\ Refused(w)
              \/ /\ Exists(Normal(typed))
                 /\ users' = [users EXCEPT ![Normal(typed)].active = active]
                 /\ Ends(w, "idle", "ok")
                 /\ UNCHANGED <<sessions, issued, job>>

\* Wrong on purpose: foreign keys are off, the sessions of n stay.
SessionsKept(n) == sessions

\* ON DELETE CASCADE, with PRAGMA foreign_keys=ON on every connection.
SessionsWithout(n) ==
  [t \in Tokens |-> IF sessions[t] # NoSession /\ sessions[t].user = n
                      THEN NoSession ELSE sessions[t]]

DeleteUser(w) ==
  /\ pc[w] = "idle"
  /\ \E typed \in Typed :
       IF Normal(typed) = BadName \/ Protects(typed)
         THEN Refused(w)
         ELSE \/ Busy(w)
              \/ ~Exists(Normal(typed)) /\ Refused(w)
              \/ /\ Exists(Normal(typed))
                 /\ users' = [users EXCEPT ![Normal(typed)] = NoUser]
                 /\ sessions' = SessionsWithout(Normal(typed))
                 /\ Ends(w, "idle", "ok")
                 /\ UNCHANGED <<issued, job>>

-----------------------------------------------------------------------------
\* Login, requests, logout

\* authenticate; its note of the login time is best effort.
Authenticate(w) ==
  /\ pc[w] = "idle"
  /\ \E typed \in Typed, p \in Passwords :
       IF \/ ~Exists(Normal(typed)) \/ ~users[Normal(typed)].active
          \/ users[Normal(typed)].password # p
         THEN Refused(w)
         ELSE /\ job' = [job EXCEPT ![w].user = Normal(typed), ![w].password = p]
              /\ Ends(w, "insertSession", "none")
              /\ UNCHANGED <<users, sessions, issued>>

\* create_session for the user found then.  When the user is gone by now the
\* foreign key makes the INSERT raise an IntegrityError, which nothing catches.
InsertSession(w) ==
  /\ pc[w] = "insertSession"
  /\ \/ Busy(w)
     \/ /\ ~Exists(job[w].user)
        /\ Ends(w, "idle", "integrity")
        /\ UNCHANGED <<users, sessions, issued, job>>
     \/ /\ Exists(job[w].user)
        /\ \E t \in Tokens \ issued :
             /\ sessions' = [sessions EXCEPT ![t] = Session(job[w].user, FALSE)]
             /\ issued' = issued \cup {t}
        /\ Ends(w, "idle", "ok")
        /\ UNCHANGED <<users, job>>

\* What get_session_user finds wrong with the row of t and its user.
Unusable(t) == sessions[t].expired \/ ~users[sessions[t].user].active

\* get_session_user: it only reads, unless the session has become unusable.
CheckSession(w) ==
  /\ pc[w] = "idle"
  /\ \E t \in issued :
       IF sessions[t] = NoSession
         THEN Refused(w) \/ Busy(w)
         ELSE /\ IF Unusable(t)
                   THEN Ends(w, "dropSession", "refused") /\ job' = [job EXCEPT ![w].token = t]
                   ELSE Ends(w, "idle", "ok") /\ UNCHANGED job
              /\ UNCHANGED <<users, sessions, issued>>

\* The best effort to delete it, by its token.
DropSession(w) ==
  /\ pc[w] = "dropSession"
  /\ sessions' = [sessions EXCEPT ![job[w].token] = NoSession] \/ UNCHANGED sessions
  /\ Ends(w, "idle", "refused")
  /\ UNCHANGED <<users, issued, job>>

\* delete_session, a best effort too.
Logout(w) ==
  /\ pc[w] = "idle"
  /\ \E t \in issued :
       sessions' = [sessions EXCEPT ![t] = NoSession] \/ UNCHANGED sessions
  /\ Ends(w, "idle", "ok")
  /\ UNCHANGED <<users, issued, job>>

\* Twelve hours later.
Expire(t) ==
  /\ sessions[t] # NoSession /\ ~sessions[t].expired
  /\ sessions' = [sessions EXCEPT ![t].expired = TRUE]
  /\ UNCHANGED <<users, issued, pc, job, result>>

Work(w) ==
  \/ InitDb(w) \/ Purge(w) \/ Stop(w)
  \/ CreateUser(w) \/ FindUser(w) \/ SetPassword(w) \/ SetActive(w) \/ DeleteUser(w)
  \/ Authenticate(w) \/ InsertSession(w) \/ CheckSession(w) \/ DropSession(w) \/ Logout(w)

Next == (\E w \in Workers : Work(w)) \/ (\E t \in Tokens : Expire(t))

Spec == Init /\ [][Next]_vars

-----------------------------------------------------------------------------
\* Correctness

\* A session belongs to a user that exists: a login that raced with the
\* deletion of its user leaves no session behind, and neither does the
\* deletion of a user who is logged in on several browsers.
SessionsHaveUsers ==
  \A t \in Tokens : sessions[t] # NoSession => Exists(sessions[t].user)

\* The default administrator, once there, is neither deleted nor disabled,
\* however its name is typed (set_active and delete_user refuse to).
AdminStays ==
  [][Exists(Admin) => users'[Admin] # NoUser /\ users'[Admin].active]_vars

\* Nothing but set_password, for the user it was called for, changes the
\* password of an existing user: neither a second registration of the name,
\* typed in another way, nor the start of another process.
PasswordsOnlySet ==
  [][\A n \in Names :
       Exists(n) /\ users'[n] # NoUser /\ users'[n].password # users[n].password
         => \E w \in Workers : SetPassword(w) /\ job[w].user = n]_vars

\* No user is created before the default administrator: the first user of a
\* fresh database would otherwise keep it from ever being created, because
\* ensure_default_admin only looks whether there is some user.
AdminBeforeOthers == (\E n \in Names : Exists(n)) => Exists(Admin)

\* The operations implement those of the abstract accounts, each at the step
\* that writes: what one has read before is acted on only where it still holds,
\* but for the password and the state that a login has looked at.
Owner == [t \in Tokens |-> IF sessions[t] = NoSession THEN NoSession ELSE sessions[t].user]

Admitted ==
  [w \in Workers |->
     IF pc[w] = "insertSession" THEN [user |-> job[w].user, password |-> job[w].password]
                                ELSE NoSession]

Abstract == INSTANCE Accounts
  WITH Clients <- Workers, accounts <- users, owner <- Owner, admitted <- Admitted

ImplementsAccounts == Abstract!Spec
=============================================================================
