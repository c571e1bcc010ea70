--------------------------- MODULE WebAuthProofs ---------------------------
(***************************************************************************)
(* Theorems about WebAuth, for any number of workers, users, passwords and *)
(* session tokens: its invariants, its action properties, and that it      *)
(* implements Accounts.                                                    *)
(***************************************************************************)
EXTENDS WebAuth, TLAPS

\* Rows of the two tables, and what an operation notes for its next step.
Rows == [password : Passwords, active : BOOLEAN]
SessionRows == [user : Names, expired : BOOLEAN]
Jobs == [user : Names, password : Passwords, token : Tokens]

\* Every step keeps the types.
LEMMA TypeStep == ASSUME TypeOK, [Next]_vars PROVE TypeOK'
<1> USE AuthAssumption DEF TypeOK, Ends, Refused, Busy
<1>0. ASSUME NEW w \in Workers, Refused(w) \/ Busy(w) PROVE TypeOK'
  <2>1. CASE Refused(w)
    BY <2>1
  <2>2. CASE Busy(w)
    BY <2>2
  <2> QED
    BY <1>0, <2>1, <2>2
<1>2. ASSUME NEW w \in Workers, InitDb(w) PROVE TypeOK'
  <2>1. User(Default, TRUE) \in Rows
    BY DEF User, Rows
  <2>2. WithAdmin \in [Names -> Rows \cup {NoUser}]
    BY <2>1 DEF WithAdmin, Rows
  <2> QED
    BY <1>2, <2>2 DEF InitDb, StartFails, Rows
<1>3. ASSUME NEW w \in Workers, Purge(w) PROVE TypeOK'
  BY <1>3 DEF Purge, Expired
<1>4. ASSUME NEW w \in Workers, Stop(w) PROVE TypeOK'
  BY <1>4 DEF Stop
<1>5. ASSUME NEW w \in Workers, CreateUser(w) PROVE TypeOK'
  <2>1. PICK typed \in Typed, p \in Passwords :
          \/ Refused(w) \/ Busy(w)
          \/ /\ Normal(typed) # BadName
             /\ users' = [users EXCEPT ![Normal(typed)] = User(p, TRUE)]
             /\ Ends(w, "idle", "ok")
             /\ UNCHANGED <<sessions, issued, job>>
    BY <1>5 DEF CreateUser, Insertable
  <2>2. CASE Refused(w) \/ Busy(w)
    BY <2>2, <1>0
  <2>3. CASE /\ Normal(typed) # BadName
             /\ users' = [users EXCEPT ![Normal(typed)] = User(p, TRUE)]
             /\ Ends(w, "idle", "ok")
             /\ UNCHANGED <<sessions, issued, job>>
    <3>1. User(p, TRUE) \in Rows
      BY DEF User, Rows
    <3>2. users' \in [Names -> Rows \cup {NoUser}]
      BY <2>3, <3>1 DEF Rows
    <3> QED
      BY <2>3, <3>2 DEF Rows
  <2> QED
    BY <2>1, <2>2, <2>3
<1>6. ASSUME NEW w \in Workers, FindUser(w) PROVE TypeOK'
  <2>1. PICK typed \in Typed, p \in Passwords :
          \/ Refused(w)
          \/ /\ Normal(typed) \in Names
             /\ job' = [job EXCEPT ![w].user = Normal(typed), ![w].password = p]
             /\ Ends(w, "setPassword", "none")
             /\ UNCHANGED <<users, sessions, issued>>
    BY <1>6 DEF FindUser, RowName, Exists
  <2>2. CASE Refused(w)
    BY <2>2, <1>0
  <2>3. CASE /\ Normal(typed) \in Names
             /\ job' = [job EXCEPT ![w].user = Normal(typed), ![w].password = p]
             /\ Ends(w, "setPassword", "none")
             /\ UNCHANGED <<users, sessions, issued>>
    <3>1. job[w] \in Jobs
      BY DEF Jobs
    <3>2. [job[w] EXCEPT !.user = Normal(typed), !.password = p] \in Jobs
      BY <2>3, <3>1 DEF Jobs
    <3>3. job' = [job EXCEPT ![w] = [job[w] EXCEPT !.user = Normal(typed), !.password = p]]
      BY <2>3
    <3>4. job' \in [Workers -> Jobs]
      BY <3>2, <3>3 DEF Jobs
    <3> QED
      BY <2>3, <3>4 DEF Jobs
  <2> QED
    BY <2>1, <2>2, <2>3
<1>7. ASSUME NEW w \in Workers, SetPassword(w) PROVE TypeOK'
  <2>1. CASE Busy(w)
    BY <2>1
  <2>2. CASE /\ users' = IF Exists(job[w].user)
                           THEN [users EXCEPT ![job[w].user].password = job[w].password]
                           ELSE users
             /\ Ends(w, "idle", "ok")
             /\ UNCHANGED <<sessions, issued, job>>
    <3>1. job[w].user \in Names /\ job[w].password \in Passwords
      OBVIOUS
    <3>2. Exists(job[w].user) => users[job[w].user] \in Rows
      BY DEF Exists, Rows
    <3>3. users' \in [Names -> Rows \cup {NoUser}]
      BY <2>2, <3>1, <3>2 DEF Rows
    <3> QED
      BY <2>2, <3>3 DEF Rows
  <2> QED
    BY <1>7, <2>1, <2>2 DEF SetPassword, WithPassword
<1>8. ASSUME NEW w \in Workers, SetActive(w) PROVE TypeOK'
  <2>1. PICK typed \in Typed, active \in BOOLEAN :
          \/ Refused(w) \/ Busy(w)
          \/ /\ Exists(Normal(typed))
             /\ users' = [users EXCEPT ![Normal(typed)].active = active]
             /\ Ends(w, "idle", "ok")
             /\ UNCHANGED <<sessions, issued, job>>
    BY <1>8 DEF SetActive
  <2>2. CASE Refused(w) \/ Busy(w)
    BY <2>2, <1>0
  <2>3. CASE /\ Exists(Normal(typed))
             /\ users' = [users EXCEPT ![Normal(typed)].active = active]
             /\ Ends(w, "idle", "ok")
             /\ UNCHANGED <<sessions, issued, job>>
    <3>1. Normal(typed) \in Names /\ users[Normal(typed)] \in Rows
      BY <2>3 DEF Exists, Rows
    <3>2. users' \in [Names -> Rows \cup {NoUser}]
      BY <2>3, <3>1 DEF Rows
    <3> QED
      BY <2>3, <3>2 DEF Rows
  <2> QED
    BY <2>1, <2>2, <2>3
<1>9. ASSUME NEW w \in Workers, DeleteUser(w) PROVE TypeOK'
  <2>1. PICK typed \in Typed :
          \/ Refused(w) \/ Busy(w)
          \/ /\ Exists(Normal(typed))
             /\ users' = [users EXCEPT ![Normal(typed)] = NoUser]
             /\ sessions' = SessionsWithout(Normal(typed))
             /\ Ends(w, "idle", "ok")
             /\ UNCHANGED <<issued, job>>
    BY <1>9 DEF DeleteUser
  <2>2. CASE Refused(w) \/ Busy(w)
    BY <2>2, <1>0
  <2>3. CASE /\ users' = [users EXCEPT ![Normal(typed)] = NoUser]
             /\ sessions' = SessionsWithout(Normal(typed))
             /\ Ends(w, "idle", "ok")
             /\ UNCHANGED <<issued, job>>
    <3>1. users' \in [Names -> Rows \cup {NoUser}]
      BY <2>3 DEF Rows
    <3>2. sessions' \in [Tokens -> SessionRows \cup {NoSession}]
      BY <2>3 DEF SessionsWithout, SessionRows
    <3> QED BY <2>3, <3>1, <3>2 DEF Rows, SessionRows
  <2> QED BY <2>1, <2>2, <2>3
<1>10. ASSUME NEW w \in Workers, Authenticate(w) PROVE TypeOK'
  <2>1. PICK typed \in Typed, p \in Passwords :
          \/ Refused(w)
          \/ /\ Normal(typed) \in Names
             /\ job' = [job EXCEPT ![w].user = Normal(typed), ![w].password = p]
             /\ Ends(w, "insertSession", "none")
             /\ UNCHANGED <<users, sessions, issued>>
    BY <1>10 DEF Authenticate, Exists
  <2>2. CASE Refused(w)
    BY <2>2, <1>0
  <2>3. CASE /\ Normal(typed) \in Names
             /\ job' = [job EXCEPT ![w].user = Normal(typed), ![w].password = p]
             /\ Ends(w, "insertSession", "none")
             /\ UNCHANGED <<users, sessions, issued>>
    <3>1. job[w] \in Jobs
      BY DEF Jobs
    <3>2. [job[w] EXCEPT !.user = Normal(typed), !.password = p] \in Jobs
      BY <2>3, <3>1 DEF Jobs
    <3>3. job' = [job EXCEPT ![w] = [job[w] EXCEPT !.user = Normal(typed), !.password = p]]
      BY <2>3
    <3>4. job' \in [Workers -> Jobs]
      BY <3>2, <3>3 DEF Jobs
    <3> QED
      BY <2>3, <3>4 DEF Jobs
  <2> QED
    BY <2>1, <2>2, <2>3
<1>11. ASSUME NEW w \in Workers, InsertSession(w) PROVE TypeOK'
  <2>1. CASE Busy(w)
    BY <2>1, <1>0
  <2>2. CASE Ends(w, "idle", "integrity") /\ UNCHANGED <<users, sessions, issued, job>>
    BY <2>2
  <2>3. ASSUME NEW t \in Tokens,
               sessions' = [sessions EXCEPT ![t] = Session(job[w].user, FALSE)],
               issued' = issued \cup {t}, Ends(w, "idle", "ok"), UNCHANGED <<users, job>>
        PROVE  TypeOK'
    <3>1. Session(job[w].user, FALSE) \in SessionRows
      BY DEF Session, SessionRows
    <3>2. sessions' \in [Tokens -> SessionRows \cup {NoSession}]
      BY <2>3, <3>1 DEF SessionRows
    <3>3. pc' \in [Workers -> {"down", "purge", "idle", "setPassword",
                              "insertSession", "dropSession"}]
      BY <2>3
    <3>4. result' \in [Workers -> {"none", "ok", "refused", "busy", "integrity"}]
      BY <2>3
    <3> HIDE AuthAssumption DEF Ends
    <3> QED BY <2>3, <3>2, <3>3, <3>4 DEF SessionRows
  <2> QED
    BY <1>11, <2>1, <2>2, <2>3 DEF InsertSession
<1>12. ASSUME NEW w \in Workers, CheckSession(w) PROVE TypeOK'
  <2>1. CASE Refused(w) \/ Busy(w)
    BY <2>1, <1>0
  <2>2. ASSUME NEW t \in issued, job' = [job EXCEPT ![w].token = t],
               Ends(w, "dropSession", "refused") \/ Ends(w, "idle", "ok"),
               UNCHANGED <<users, sessions, issued>>
        PROVE  TypeOK'
    <3>1. job' \in [Workers -> Jobs]
      BY <2>2 DEF Jobs
    <3>2. CASE Ends(w, "dropSession", "refused")
      BY <2>2, <3>1, <3>2 DEF Jobs
    <3>3. CASE Ends(w, "idle", "ok")
      BY <2>2, <3>1, <3>3 DEF Jobs
    <3> QED
      BY <2>2, <3>2, <3>3
  <2> QED
    BY <1>12, <2>1, <2>2 DEF CheckSession
<1>13. ASSUME NEW w \in Workers, DropSession(w) PROVE TypeOK'
  BY <1>13 DEF DropSession
<1>14. ASSUME NEW w \in Workers, Logout(w) PROVE TypeOK'
  BY <1>14 DEF Logout
<1>15. ASSUME NEW t \in Tokens, Expire(t) PROVE TypeOK'
  <2>1. sessions[t] \in SessionRows
    BY <1>15 DEF Expire, SessionRows
  <2>2. [sessions[t] EXCEPT !.expired = TRUE] \in SessionRows
    BY <2>1 DEF SessionRows
  <2>3. sessions' = [sessions EXCEPT ![t] = [sessions[t] EXCEPT !.expired = TRUE]]
    BY <1>15 DEF Expire
  <2>4. sessions' \in [Tokens -> SessionRows \cup {NoSession}]
    BY <2>2, <2>3 DEF SessionRows
  <2> QED
    BY <1>15, <2>4 DEF Expire, SessionRows
<1>16. CASE UNCHANGED vars
  BY <1>16 DEF vars
<1> QED
  BY <1>2, <1>3, <1>4, <1>5, <1>6, <1>7, <1>8, <1>9, <1>10, <1>11, <1>12, <1>13, <1>14, <1>15, <1>16 DEF Next, Work

\* Every variable has its type: no operation stores a name that is not
\* normalised, or a state no operation knows.
THEOREM TypeCorrect == Spec => []TypeOK
<1>1. Init => TypeOK
  BY AuthAssumption DEF Init, TypeOK
<1> QED
  BY <1>1, TypeStep, PTL DEF Spec

-----------------------------------------------------------------------------
(***************************************************************************)
(* The inductive invariant.                                                *)
(***************************************************************************)

\* A worker that serves has made sure of the administrator.
AdminServes == \A w \in Workers : pc[w] # "down" => Exists(Admin)

AdminActive == Exists(Admin) => users[Admin].active

IInv == SessionsHaveUsers /\ AdminServes /\ AdminActive /\ AdminBeforeOthers

-----------------------------------------------------------------------------
\* Rows of users disappear only together with their sessions.
LEMMA SessionStep ==
  ASSUME TypeOK, TypeOK', SessionsHaveUsers, [Next]_vars PROVE SessionsHaveUsers'
<1> USE AuthAssumption DEF TypeOK, Ends, Refused, Busy, Exists, User, SessionsHaveUsers
<1>2. ASSUME NEW w \in Workers, InitDb(w) PROVE SessionsHaveUsers'
  BY <1>2 DEF InitDb, StartFails, WithAdmin
<1>3. ASSUME NEW w \in Workers, Purge(w) PROVE SessionsHaveUsers'
  BY <1>3 DEF Purge, Expired
<1>4. ASSUME NEW w \in Workers, Stop(w) PROVE SessionsHaveUsers'
  BY <1>4 DEF Stop
<1>5. ASSUME NEW w \in Workers, CreateUser(w) PROVE SessionsHaveUsers'
  BY <1>5 DEF CreateUser, Insertable, Normal
<1>6. ASSUME NEW w \in Workers, FindUser(w) PROVE SessionsHaveUsers'
  BY <1>6 DEF FindUser, Normal, RowName
<1>7. ASSUME NEW w \in Workers, SetPassword(w) PROVE SessionsHaveUsers'
  BY <1>7 DEF SetPassword, WithPassword
<1>8. ASSUME NEW w \in Workers, SetActive(w) PROVE SessionsHaveUsers'
  BY <1>8 DEF SetActive, Normal, Protects
<1>9. ASSUME NEW w \in Workers, DeleteUser(w) PROVE SessionsHaveUsers'
  BY <1>9 DEF DeleteUser, Normal, Protects, SessionsWithout
<1>10. ASSUME NEW w \in Workers, Authenticate(w) PROVE SessionsHaveUsers'
  BY <1>10 DEF Authenticate, Normal
<1>11. ASSUME NEW w \in Workers, InsertSession(w) PROVE SessionsHaveUsers'
  BY <1>11 DEF InsertSession, Session
<1>12. ASSUME NEW w \in Workers, CheckSession(w) PROVE SessionsHaveUsers'
  BY <1>12 DEF CheckSession
<1>13. ASSUME NEW w \in Workers, DropSession(w) PROVE SessionsHaveUsers'
  BY <1>13 DEF DropSession
<1>14. ASSUME NEW w \in Workers, Logout(w) PROVE SessionsHaveUsers'
  BY <1>14 DEF Logout
<1>15. ASSUME NEW t \in Tokens, Expire(t) PROVE SessionsHaveUsers'
  BY <1>15 DEF Expire
<1>16. CASE UNCHANGED vars
  BY <1>16 DEF vars
<1> QED
  BY <1>2, <1>3, <1>4, <1>5, <1>6, <1>7, <1>8, <1>9, <1>10, <1>11, <1>12, <1>13, <1>14, <1>15, <1>16 DEF Next, Work

\* The administrator is the first user and is neither deleted nor disabled.
LEMMA AdminStep ==
  ASSUME TypeOK, TypeOK', AdminServes, AdminActive, AdminBeforeOthers, [Next]_vars
  PROVE  AdminServes' /\ AdminActive' /\ AdminBeforeOthers'
<1> USE AuthAssumption DEF TypeOK, Ends, Refused, Busy, Exists, User, AdminServes, AdminActive, AdminBeforeOthers
<1> DEFINE Goal == AdminServes /\ AdminActive /\ AdminBeforeOthers
<1>2. ASSUME NEW w \in Workers, InitDb(w) PROVE Goal'
  <2>1. CASE StartFails(w) /\ UNCHANGED users
    BY <1>2, <2>1 DEF InitDb, StartFails
  <2>2. CASE Ends(w, "purge", "none") /\ users' = WithAdmin
    <3>1. CASE \E n \in Names : Exists(n)
      BY <2>2, <3>1 DEF WithAdmin
    <3>2. CASE ~\E n \in Names : Exists(n)
      <4> HIDE DEF User
      <4>1. User(Default, TRUE) \in Rows /\ User(Default, TRUE).active
        BY DEF Rows, User
      <4>2. User(Default, TRUE) # NoUser
        BY <4>1 DEF Rows
      <4>3. users' = [users EXCEPT ![Admin] = User(Default, TRUE)]
        BY <2>2, <3>2 DEF WithAdmin
      <4>4. users'[Admin] = User(Default, TRUE)
        BY <4>3
      <4> QED
        BY <4>1, <4>2, <4>4
    <3> QED
      BY <3>1, <3>2
  <2> QED
    BY <1>2, <2>1, <2>2 DEF InitDb
<1>3. ASSUME NEW w \in Workers, Purge(w) PROVE Goal'
  BY <1>3 DEF Purge, Expired
<1>4. ASSUME NEW w \in Workers, Stop(w) PROVE Goal'
  BY <1>4 DEF Stop
<1>5. ASSUME NEW w \in Workers, CreateUser(w) PROVE Goal'
  BY <1>5 DEF CreateUser, Insertable, Normal
<1>6. ASSUME NEW w \in Workers, FindUser(w) PROVE Goal'
  BY <1>6 DEF FindUser, Normal, RowName
<1>7. ASSUME NEW w \in Workers, SetPassword(w) PROVE Goal'
  BY <1>7 DEF SetPassword, WithPassword
<1>8. ASSUME NEW w \in Workers, SetActive(w) PROVE Goal'
  BY <1>8 DEF SetActive, Normal, Protects
<1>9. ASSUME NEW w \in Workers, DeleteUser(w) PROVE Goal'
  BY <1>9 DEF DeleteUser, Normal, Protects, SessionsWithout
<1>10. ASSUME NEW w \in Workers, Authenticate(w) PROVE Goal'
  BY <1>10 DEF Authenticate, Normal
<1>11. ASSUME NEW w \in Workers, InsertSession(w) PROVE Goal'
  BY <1>11 DEF InsertSession, Session
<1>12. ASSUME NEW w \in Workers, CheckSession(w) PROVE Goal'
  BY <1>12 DEF CheckSession
<1>13. ASSUME NEW w \in Workers, DropSession(w) PROVE Goal'
  BY <1>13 DEF DropSession
<1>14. ASSUME NEW w \in Workers, Logout(w) PROVE Goal'
  BY <1>14 DEF Logout
<1>15. ASSUME NEW t \in Tokens, Expire(t) PROVE Goal'
  BY <1>15 DEF Expire
<1>16. CASE UNCHANGED vars
  BY <1>16 DEF vars
<1> QED
  BY <1>2, <1>3, <1>4, <1>5, <1>6, <1>7, <1>8, <1>9, <1>10, <1>11, <1>12, <1>13, <1>14, <1>15, <1>16 DEF Next, Work

\* The inductive invariant holds in every reachable state.
THEOREM Invariant == Spec => []IInv
<1>1. Init => IInv
  BY AuthAssumption DEF Init, IInv, SessionsHaveUsers, AdminServes, AdminActive,
                        AdminBeforeOthers, Exists
<1>2. TypeOK /\ TypeOK' /\ IInv /\ [Next]_vars => IInv'
  BY SessionStep, AdminStep DEF IInv
<1> QED
  BY <1>1, <1>2, TypeCorrect, PTL DEF Spec

\* No session is left without its user, whatever races with its creation.
THEOREM SessionsBelong == Spec => []SessionsHaveUsers
<1>1. IInv => SessionsHaveUsers
  BY DEF IInv
<1> QED
  BY <1>1, Invariant, PTL

\* No user of a fresh database precedes the default administrator, however
\* many processes start on it.
THEOREM AdminIsFirst == Spec => []AdminBeforeOthers
<1>1. IInv => AdminBeforeOthers
  BY DEF IInv
<1> QED
  BY <1>1, Invariant, PTL

\* set_active and delete_user leave the administrator alone, and so does
\* everything else.
THEOREM AdminIsKept == Spec => AdminStays
<1> DEFINE Kept == Exists(Admin) => users'[Admin] # NoUser /\ users'[Admin].active
<1>1. ASSUME TypeOK, TypeOK', IInv, IInv', [Next]_vars PROVE Kept
  <2> USE <1>1, AuthAssumption DEF TypeOK, Ends, Refused, Busy, Exists, User, IInv, AdminActive
    <2>2. ASSUME NEW w \in Workers, InitDb(w) PROVE Kept
    BY <2>2 DEF InitDb, StartFails, WithAdmin
  <2>3. ASSUME NEW w \in Workers, Purge(w) PROVE Kept
    BY <2>3 DEF Purge, Expired
  <2>4. ASSUME NEW w \in Workers, Stop(w) PROVE Kept
    BY <2>4 DEF Stop
  <2>5. ASSUME NEW w \in Workers, CreateUser(w) PROVE Kept
    BY <2>5 DEF CreateUser, Insertable, Normal
  <2>6. ASSUME NEW w \in Workers, FindUser(w) PROVE Kept
    BY <2>6 DEF FindUser, Normal, RowName
  <2>7. ASSUME NEW w \in Workers, SetPassword(w) PROVE Kept
    BY <2>7 DEF SetPassword, WithPassword
  <2>8. ASSUME NEW w \in Workers, SetActive(w) PROVE Kept
    BY <2>8 DEF SetActive, Normal, Protects
  <2>9. ASSUME NEW w \in Workers, DeleteUser(w) PROVE Kept
    BY <2>9 DEF DeleteUser, Normal, Protects, SessionsWithout
  <2>10. ASSUME NEW w \in Workers, Authenticate(w) PROVE Kept
    BY <2>10 DEF Authenticate, Normal
  <2>11. ASSUME NEW w \in Workers, InsertSession(w) PROVE Kept
    BY <2>11 DEF InsertSession, Session
  <2>12. ASSUME NEW w \in Workers, CheckSession(w) PROVE Kept
    BY <2>12 DEF CheckSession
  <2>13. ASSUME NEW w \in Workers, DropSession(w) PROVE Kept
    BY <2>13 DEF DropSession
  <2>14. ASSUME NEW w \in Workers, Logout(w) PROVE Kept
    BY <2>14 DEF Logout
  <2>15. ASSUME NEW t \in Tokens, Expire(t) PROVE Kept
    BY <2>15 DEF Expire
  <2>16. CASE UNCHANGED vars
    BY <2>16 DEF vars
  <2> QED
    BY <2>2, <2>3, <2>4, <2>5, <2>6, <2>7, <2>8, <2>9, <2>10, <2>11, <2>12, <2>13, <2>14, <2>15, <2>16 DEF Next, Work
<1>2. TypeOK /\ TypeOK' /\ IInv /\ IInv' /\ [Next]_vars => [Kept]_vars
  BY <1>1
<1> QED
  BY <1>2, TypeCorrect, Invariant, PTL DEF Spec, AdminStays

\* Only set_password, for the user it was called for, changes the password of
\* an existing user.
THEOREM PasswordsAreSet == Spec => PasswordsOnlySet
<1> DEFINE Changed(n) == Exists(n) /\ users'[n] # NoUser /\ users'[n].password # users[n].password
           OnlySet == \A n \in Names : Changed(n) => \E w \in Workers : SetPassword(w) /\ job[w].user = n
<1>1. ASSUME TypeOK, TypeOK', [Next]_vars PROVE OnlySet
  <2> USE <1>1, AuthAssumption DEF TypeOK, Ends, Refused, Busy, Exists, User
    <2>2. ASSUME NEW w \in Workers, InitDb(w) PROVE OnlySet
    BY <2>2 DEF InitDb, StartFails, WithAdmin
  <2>3. ASSUME NEW w \in Workers, Purge(w) PROVE OnlySet
    BY <2>3 DEF Purge, Expired
  <2>4. ASSUME NEW w \in Workers, Stop(w) PROVE OnlySet
    BY <2>4 DEF Stop
  <2>5. ASSUME NEW w \in Workers, CreateUser(w) PROVE OnlySet
    <3>1. \A n \in Names : Exists(n) => users'[n] = users[n]
      BY <2>5 DEF CreateUser, Insertable, Normal
    <3> QED
      BY <3>1
  <2>6. ASSUME NEW w \in Workers, FindUser(w) PROVE OnlySet
    BY <2>6 DEF FindUser, Normal, RowName
  <2>7. ASSUME NEW w \in Workers, SetPassword(w) PROVE OnlySet
    <3>1. ASSUME NEW n \in Names, Changed(n) PROVE job[w].user = n
      BY <2>7, <3>1 DEF SetPassword, WithPassword
    <3> QED
      BY <2>7, <3>1
  <2>8. ASSUME NEW w \in Workers, SetActive(w) PROVE OnlySet
    BY <2>8 DEF SetActive, Normal, Protects
  <2>9. ASSUME NEW w \in Workers, DeleteUser(w) PROVE OnlySet
    BY <2>9 DEF DeleteUser, Normal, Protects, SessionsWithout
  <2>10. ASSUME NEW w \in Workers, Authenticate(w) PROVE OnlySet
    BY <2>10 DEF Authenticate, Normal
  <2>11. ASSUME NEW w \in Workers, InsertSession(w) PROVE OnlySet
    BY <2>11 DEF InsertSession, Session
  <2>12. ASSUME NEW w \in Workers, CheckSession(w) PROVE OnlySet
    BY <2>12 DEF CheckSession
  <2>13. ASSUME NEW w \in Workers, DropSession(w) PROVE OnlySet
    BY <2>13 DEF DropSession
  <2>14. ASSUME NEW w \in Workers, Logout(w) PROVE OnlySet
    BY <2>14 DEF Logout
  <2>15. ASSUME NEW t \in Tokens, Expire(t) PROVE OnlySet
    BY <2>15 DEF Expire
  <2>16. CASE UNCHANGED vars
    BY <2>16 DEF vars
  <2> QED
    BY <2>2, <2>3, <2>4, <2>5, <2>6, <2>7, <2>8, <2>9, <2>10, <2>11, <2>12, <2>13, <2>14, <2>15, <2>16 DEF Next, Work
<1>2. TypeOK /\ TypeOK' /\ [Next]_vars => [OnlySet]_vars
  BY <1>1
<1> QED
  BY <1>2, TypeCorrect, PTL DEF Spec, PasswordsOnlySet
-----------------------------------------------------------------------------
(***************************************************************************)
(* The refinement of Accounts.                                             *)
(***************************************************************************)

\* A token of which there is a session has been handed out.
HandedOut == \A t \in Tokens : sessions[t] # NoSession => t \in issued

LEMMA HandedOutStep == ASSUME TypeOK, HandedOut, [Next]_vars PROVE HandedOut'
<1> USE AuthAssumption DEF TypeOK, Ends, Refused, Busy, HandedOut
<1>1. ASSUME NEW w \in Workers, InitDb(w) \/ Stop(w) \/ CreateUser(w) \/ FindUser(w)
                               \/ SetPassword(w) \/ SetActive(w) \/ Authenticate(w)
                               \/ CheckSession(w)
      PROVE  HandedOut'
  <2>1. UNCHANGED <<sessions, issued>>
    BY <1>1 DEF InitDb, StartFails, Stop, CreateUser, FindUser, SetPassword, WithPassword, SetActive,
       Authenticate, CheckSession
  <2> QED BY <2>1
<1>2. ASSUME NEW w \in Workers, Purge(w) \/ DropSession(w) \/ Logout(w) \/ DeleteUser(w)
      PROVE  HandedOut'
  <2>1. issued' = issued /\ \A t \in Tokens : sessions'[t] \in {sessions[t], NoSession}
    BY <1>2 DEF Purge, Expired, DropSession, Logout, DeleteUser, SessionsWithout
  <2> QED BY <2>1
<1>3. ASSUME NEW w \in Workers, InsertSession(w) PROVE HandedOut'
  <2>1. \/ UNCHANGED <<sessions, issued>>
        \/ \E t \in Tokens : /\ sessions' = [sessions EXCEPT ![t] = Session(job[w].user, FALSE)]
                            /\ issued' = issued \cup {t}
    BY <1>3 DEF InsertSession
  <2>2. ASSUME NEW t \in Tokens, sessions' = [sessions EXCEPT ![t] = Session(job[w].user, FALSE)],
               issued' = issued \cup {t}
        PROVE  HandedOut'
    <3>1. \A q \in Tokens \ {t} : sessions'[q] = sessions[q]
      BY <2>2
    <3> QED BY <2>2, <3>1
  <2>3. CASE UNCHANGED <<sessions, issued>>
    BY <2>3
  <2> QED BY <2>1, <2>2, <2>3
<1>4. ASSUME NEW t \in Tokens, Expire(t) PROVE HandedOut'
  BY <1>4 DEF Expire
<1>5. CASE UNCHANGED vars
  BY <1>5 DEF vars
<1> QED BY <1>1, <1>2, <1>3, <1>4, <1>5 DEF Next, Work

\* A step of w that neither begins a login nor ends one leaves the admitted alone.
LEMMA AdmittedKept ==
  ASSUME TypeOK, NEW w \in Workers, NEW next, pc[w] # "insertSession", next # "insertSession",
         pc' = [pc EXCEPT ![w] = next], \A v \in Workers \ {w} : job'[v] = job[v]
  PROVE  Admitted' = Admitted
BY DEF TypeOK, Admitted

\* A login of w that ends takes w from the admitted.
LEMMA AdmittedEnds ==
  ASSUME TypeOK, NEW w \in Workers, NEW next, next # "insertSession",
         pc' = [pc EXCEPT ![w] = next], job' = job
  PROVE  Admitted' = [Admitted EXCEPT ![w] = NoSession]
BY DEF TypeOK, Admitted

\* The abstract accounts take a step, or none.
AbstractStep == Abstract!Next \/ UNCHANGED <<users, Owner, Admitted>>

\* Steps that change no account and no session, and end or begin no login.
LEMMA Stutters ==
  ASSUME TypeOK, NEW w \in Workers, NEW next, pc[w] # "insertSession", next # "insertSession",
         pc' = [pc EXCEPT ![w] = next], \A v \in Workers \ {w} : job'[v] = job[v],
         UNCHANGED <<users, sessions>>
  PROVE  AbstractStep
BY AdmittedKept DEF AbstractStep, Owner

\* Sessions that end, whichever they are.
LEMMA SessionsEnd ==
  ASSUME TypeOK, NEW w \in Workers, NEW next, pc[w] # "insertSession", next # "insertSession",
         pc' = [pc EXCEPT ![w] = next], UNCHANGED <<users, job>>,
         DOMAIN sessions' = Tokens,
         \A t \in Tokens : sessions'[t] \in {sessions[t], NoSession}
  PROVE  AbstractStep
<1> DEFINE T == {t \in Tokens : sessions'[t] = NoSession}
<1>1. Owner' = [t \in Tokens |-> IF t \in T THEN NoSession ELSE Owner[t]]
  BY DEF Owner
<1>2. Admitted' = Admitted
  BY AdmittedKept
<1>3. T \in SUBSET Tokens /\ Abstract!End(T)
  BY <1>1, <1>2 DEF Abstract!End
<1> QED BY <1>3 DEF AbstractStep, Abstract!Next

\* Steps of an idle worker that fail, and those that only note what to do next.
LEMMA QuietSteps ==
  ASSUME TypeOK, NEW w \in Workers,
         \/ pc[w] # "insertSession" /\ (Refused(w) \/ Busy(w))
         \/ FindUser(w) \/ CheckSession(w)
  PROVE  AbstractStep
<1>1. PICK next \in {"idle", "setPassword", "dropSession"} : pc' = [pc EXCEPT ![w] = next]
  BY DEF Refused, Busy, FindUser, CheckSession, Ends
<1>2. UNCHANGED <<users, sessions>> /\ pc[w] # "insertSession"
  BY DEF Refused, Busy, FindUser, CheckSession
<1>3. \A v \in Workers \ {w} : job'[v] = job[v]
  BY DEF Refused, Busy, FindUser, CheckSession, TypeOK
<1> QED BY <1>1, <1>2, <1>3, Stutters

\* The start of a process founds the accounts, or finds them.
LEMMA StartSteps ==
  ASSUME TypeOK, NEW w \in Workers, InitDb(w) PROVE AbstractStep
<1>1. /\ pc[w] = "down" /\ UNCHANGED <<sessions, job>>
      /\ \E next \in {"down", "purge"} : pc' = [pc EXCEPT ![w] = next]
  BY DEF InitDb, StartFails, Ends
<1>2. Admitted' = Admitted /\ Owner' = Owner
  BY <1>1, AdmittedKept DEF Owner
<1>3. CASE users' = users
  BY <1>2, <1>3 DEF AbstractStep
<1>4. CASE users' # users
  <2>1. \A n \in Names : users[n] = NoUser
    BY <1>4 DEF InitDb, WithAdmin, Exists
  <2>2. users' = [users EXCEPT ![Admin] = User(Default, TRUE)]
    BY <1>4 DEF InitDb, WithAdmin
  <2>3. Abstract!Found
    BY <1>2, <2>1, <2>2 DEF Abstract!Found, Abstract!Account, User
  <2> QED BY <2>3 DEF AbstractStep, Abstract!Next
<1> QED BY <1>3, <1>4

\* A process that ends gives up the login it is at.
LEMMA StopStep ==
  ASSUME TypeOK, NEW w \in Workers, Stop(w) PROVE AbstractStep
<1>1. Admitted' = [Admitted EXCEPT ![w] = NoSession] /\ UNCHANGED <<users, Owner>>
  BY AdmittedEnds DEF Stop, Ends, Owner
<1> QED BY <1>1 DEF AbstractStep, Abstract!Next, Abstract!GiveUp

\* The operations on users, at the step that writes.
LEMMA UserSteps ==
  ASSUME TypeOK, AdminServes, NEW w \in Workers,
         CreateUser(w) \/ SetPassword(w) \/ SetActive(w) \/ DeleteUser(w)
  PROVE  AbstractStep
<1> USE AuthAssumption
<1>0. ASSUME pc[w] # "insertSession", Ends(w, "idle", "ok"), job' = job
      PROVE  Admitted' = Admitted
  BY <1>0, AdmittedKept DEF Ends
<1>1. CASE CreateUser(w)
  <2>1. PICK typed \in Typed, p \in Passwords :
          \/ Refused(w) \/ Busy(w)
          \/ /\ Normal(typed) # BadName /\ ~Exists(Normal(typed))
             /\ users' = [users EXCEPT ![Normal(typed)] = User(p, TRUE)]
             /\ Ends(w, "idle", "ok")
             /\ UNCHANGED <<sessions, issued, job>>
    BY <1>1 DEF CreateUser, Insertable
  <2>2. pc[w] = "idle" /\ Exists(Admin)
    BY <1>1 DEF CreateUser, AdminServes
  <2>3. CASE Refused(w) \/ Busy(w)
    BY <2>2, <2>3, QuietSteps
  <2>4. CASE /\ Normal(typed) # BadName /\ ~Exists(Normal(typed))
             /\ users' = [users EXCEPT ![Normal(typed)] = User(p, TRUE)]
             /\ Ends(w, "idle", "ok")
             /\ UNCHANGED <<sessions, issued, job>>
    <3>1. Normal(typed) \in Names /\ users[Normal(typed)] = NoUser
      BY <2>4 DEF Normal, Exists
    <3>2. Admitted' = Admitted /\ Owner' = Owner
      BY <1>0, <2>2, <2>4 DEF Owner
    <3>3. Abstract!Create(Normal(typed), p)
      BY <2>2, <2>4, <3>1, <3>2 DEF Abstract!Create, Abstract!Account, User, Exists
    <3> QED BY <3>1, <3>3 DEF AbstractStep, Abstract!Next
  <2> QED BY <2>1, <2>3, <2>4
<1>2. CASE SetPassword(w)
  <2>1. pc[w] = "setPassword"
    BY <1>2 DEF SetPassword, WithPassword
  <2>2. CASE Busy(w)
    BY <2>1, <2>2, QuietSteps
  <2>3. CASE /\ users' = IF Exists(job[w].user)
                           THEN [users EXCEPT ![job[w].user].password = job[w].password]
                           ELSE users
             /\ Ends(w, "idle", "ok")
             /\ UNCHANGED <<sessions, issued, job>>
    <3>1. Admitted' = Admitted /\ Owner' = Owner
      BY <1>0, <2>1, <2>3 DEF Owner
    <3>2. CASE ~Exists(job[w].user)
      BY <2>3, <3>1, <3>2 DEF AbstractStep
    <3>3. CASE Exists(job[w].user)
      <4>1. job[w].user \in Names /\ job[w].password \in Passwords
        BY DEF TypeOK
      <4>2. Abstract!SetPassword(job[w].user, job[w].password)
        BY <2>3, <3>1, <3>3 DEF Abstract!SetPassword, Exists
      <4> QED BY <4>1, <4>2 DEF AbstractStep, Abstract!Next
    <3> QED BY <3>2, <3>3
  <2> QED BY <1>2, <2>2, <2>3 DEF SetPassword, WithPassword
<1>3. CASE SetActive(w)
  <2>1. PICK typed \in Typed, active \in BOOLEAN :
          \/ Refused(w) \/ Busy(w)
          \/ /\ ~(Protects(typed) /\ ~active)
             /\ Exists(Normal(typed))
             /\ users' = [users EXCEPT ![Normal(typed)].active = active]
             /\ Ends(w, "idle", "ok")
             /\ UNCHANGED <<sessions, issued, job>>
    BY <1>3 DEF SetActive
  <2>2. pc[w] = "idle"
    BY <1>3 DEF SetActive
  <2>3. CASE Refused(w) \/ Busy(w)
    BY <2>2, <2>3, QuietSteps
  <2>4. CASE /\ ~(Protects(typed) /\ ~active)
             /\ Exists(Normal(typed))
             /\ users' = [users EXCEPT ![Normal(typed)].active = active]
             /\ Ends(w, "idle", "ok")
             /\ UNCHANGED <<sessions, issued, job>>
    <3>1. Admitted' = Admitted /\ Owner' = Owner
      BY <1>0, <2>2, <2>4 DEF Owner
    <3>2. Normal(typed) \in Names /\ Abstract!SetActive(Normal(typed), active)
      BY <2>4, <3>1 DEF Abstract!SetActive, Exists, Protects
    <3> QED BY <3>2 DEF AbstractStep, Abstract!Next
  <2> QED BY <2>1, <2>3, <2>4
<1>4. CASE DeleteUser(w)
  <2>1. PICK typed \in Typed :
          \/ Refused(w) \/ Busy(w)
          \/ /\ ~Protects(typed) /\ Exists(Normal(typed))
             /\ users' = [users EXCEPT ![Normal(typed)] = NoUser]
             /\ sessions' = SessionsWithout(Normal(typed))
             /\ Ends(w, "idle", "ok")
             /\ UNCHANGED <<issued, job>>
    BY <1>4 DEF DeleteUser
  <2>2. pc[w] = "idle"
    BY <1>4 DEF DeleteUser
  <2>3. CASE Refused(w) \/ Busy(w)
    BY <2>2, <2>3, QuietSteps
  <2>4. CASE /\ ~Protects(typed) /\ Exists(Normal(typed))
             /\ users' = [users EXCEPT ![Normal(typed)] = NoUser]
             /\ sessions' = SessionsWithout(Normal(typed))
             /\ Ends(w, "idle", "ok")
             /\ UNCHANGED <<issued, job>>
    <3> DEFINE n == Normal(typed)
    <3>1. Admitted' = Admitted
      BY <1>0, <2>2, <2>4
    <3>2. Owner' = [t \in Tokens |-> IF Owner[t] = n THEN NoSession ELSE Owner[t]]
      BY <2>4 DEF Owner, SessionsWithout, Exists
    <3>3. n \in Names /\ Abstract!Delete(n)
      BY <2>4, <3>1, <3>2 DEF Abstract!Delete, Exists, Protects
    <3> QED BY <3>3 DEF AbstractStep, Abstract!Next
  <2> QED BY <2>1, <2>3, <2>4
<1> QED BY <1>1, <1>2, <1>3, <1>4

\* A login is admitted with the credentials it has shown, and gets a session of
\* the account they are of, or none.
LEMMA LoginSteps ==
  ASSUME TypeOK, HandedOut, NEW w \in Workers, Authenticate(w) \/ InsertSession(w)
  PROVE  AbstractStep
<1> USE AuthAssumption
<1>1. CASE Authenticate(w)
  <2>1. PICK typed \in Typed, p \in Passwords :
          \/ Refused(w)
          \/ /\ Exists(Normal(typed)) /\ users[Normal(typed)].active
             /\ users[Normal(typed)].password = p
             /\ job' = [job EXCEPT ![w].user = Normal(typed), ![w].password = p]
             /\ Ends(w, "insertSession", "none")
             /\ UNCHANGED <<users, sessions, issued>>
    BY <1>1 DEF Authenticate
  <2>2. pc[w] = "idle"
    BY <1>1 DEF Authenticate
  <2>3. CASE Refused(w)
    BY <2>2, <2>3, QuietSteps
  <2>4. CASE /\ Exists(Normal(typed)) /\ users[Normal(typed)].active
             /\ users[Normal(typed)].password = p
             /\ job' = [job EXCEPT ![w].user = Normal(typed), ![w].password = p]
             /\ Ends(w, "insertSession", "none")
             /\ UNCHANGED <<users, sessions, issued>>
    <3> DEFINE n == Normal(typed)
               c == [user |-> n, password |-> users[n].password]
    <3>1. /\ pc' = [pc EXCEPT ![w] = "insertSession"]
          /\ job'[w].user = n /\ job'[w].password = users[n].password
          /\ \A v \in Workers \ {w} : job'[v] = job[v]
      BY <2>4 DEF Ends, TypeOK
    <3>2. Admitted' = [Admitted EXCEPT ![w] = c]
      <4> HIDE DEF n
      <4> QED BY <3>1 DEF Admitted, TypeOK
    <3>3. n \in Names /\ Owner' = Owner /\ Abstract!Admit(w, n)
      BY <2>4, <3>2 DEF Abstract!Admit, Exists, Owner
    <3> QED BY <3>3 DEF AbstractStep, Abstract!Next
  <2> QED BY <2>1, <2>3, <2>4
<1>2. CASE InsertSession(w)
  <2>0. pc[w] = "insertSession" /\ job' = job /\ pc' = [pc EXCEPT ![w] = "idle"]
    BY <1>2 DEF InsertSession, Busy, Ends
  <2>1. Admitted' = [Admitted EXCEPT ![w] = NoSession]
    BY <2>0, AdmittedEnds
  <2>2. CASE UNCHANGED <<users, sessions>>
    <3>1. Abstract!GiveUp(w)
      BY <2>1, <2>2 DEF Abstract!GiveUp, Owner
    <3> QED BY <3>1 DEF AbstractStep, Abstract!Next
  <2>3. ASSUME NEW t \in Tokens \ issued, Exists(job[w].user), users' = users,
               sessions' = [sessions EXCEPT ![t] = Session(job[w].user, FALSE)]
        PROVE  AbstractStep
    <3>1. sessions[t] = NoSession /\ Owner[t] = NoSession
      BY <2>3 DEF HandedOut, Owner
    <3>2. Admitted[w] = [user |-> job[w].user, password |-> job[w].password]
      BY <2>0 DEF Admitted
    <3>3. Admitted[w].user = job[w].user /\ Admitted[w] # NoSession
      BY <3>2 DEF TypeOK
    <3>4. Owner' = [Owner EXCEPT ![t] = job[w].user]
      <4>1. Session(job[w].user, FALSE).user = job[w].user
        BY DEF Session
      <4>2. Session(job[w].user, FALSE) # NoSession
        <5>1. Session(job[w].user, FALSE) \in SessionRows
          BY DEF Session, SessionRows, TypeOK
        <5> QED BY <5>1 DEF SessionRows
      <4>3. DOMAIN sessions = Tokens
        BY DEF TypeOK
      <4> QED BY <2>3, <4>1, <4>2, <4>3 DEF Owner
    <3>5. Abstract!Enter(w, t)
      BY <2>1, <2>3, <3>1, <3>3, <3>4 DEF Abstract!Enter, Exists
    <3> QED BY <3>5 DEF AbstractStep, Abstract!Next
  <2> QED BY <1>2, <2>2, <2>3 DEF InsertSession, Busy
<1> QED BY <1>1, <1>2

LEMMA RefinementStep ==
  ASSUME TypeOK, AdminServes, HandedOut, [Next]_vars PROVE AbstractStep
<1>1. ASSUME NEW w \in Workers, Purge(w) \/ DropSession(w) \/ Logout(w) PROVE AbstractStep
  <2>1. /\ pc' = [pc EXCEPT ![w] = "idle"] /\ pc[w] # "insertSession"
        /\ UNCHANGED <<users, job>>
    BY <1>1 DEF Purge, DropSession, Logout, Ends
  <2>2. /\ DOMAIN sessions' = Tokens
        /\ \A t \in Tokens : sessions'[t] \in {sessions[t], NoSession}
    BY <1>1 DEF Purge, DropSession, Logout, Expired, TypeOK
  <2> QED BY <2>1, <2>2, SessionsEnd
<1>2. ASSUME NEW t \in Tokens, Expire(t) PROVE AbstractStep
  <2>1. sessions[t] \in SessionRows /\ UNCHANGED <<users, pc, job>>
    BY <1>2 DEF Expire, TypeOK, SessionRows
  <2>2. sessions' = [sessions EXCEPT ![t] = [sessions[t] EXCEPT !.expired = TRUE]]
    BY <1>2 DEF Expire
  <2>3. /\ [sessions[t] EXCEPT !.expired = TRUE].user = sessions[t].user
        /\ [sessions[t] EXCEPT !.expired = TRUE] # NoSession
    BY <2>1, AuthAssumption DEF SessionRows
  <2>4. Owner' = Owner
    BY <1>2, <2>2, <2>3 DEF Owner, TypeOK, Expire
  <2> QED BY <2>1, <2>4 DEF AbstractStep, Admitted
<1>3. CASE UNCHANGED vars
  BY <1>3 DEF vars, AbstractStep, Owner, Admitted
<1> QED
  BY <1>1, <1>2, <1>3, QuietSteps, StartSteps, StopStep, UserSteps, LoginSteps DEF Next, Work

\* The operations of the console, with their reads and writes apart, implement
\* operations on accounts that take effect at once.
THEOREM OperationsAreAtomic == Spec => ImplementsAccounts
<1>1. Init => Abstract!Init /\ HandedOut
  BY DEF Init, Abstract!Init, Owner, Admitted, HandedOut
<1>2. TypeOK /\ IInv /\ HandedOut /\ [Next]_vars => [Abstract!Next]_(Abstract!vars)
  BY RefinementStep DEF IInv, AbstractStep, Abstract!vars
<1>3. TypeOK /\ HandedOut /\ [Next]_vars => HandedOut'
  BY HandedOutStep
<1> QED
  BY <1>1, <1>2, <1>3, TypeCorrect, Invariant, PTL DEF Spec, ImplementsAccounts, Abstract!Spec
=============================================================================
