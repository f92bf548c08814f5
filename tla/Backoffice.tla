----------------------------- MODULE Backoffice -----------------------------
(***************************************************************************)
(* Table backoffice_users and the handlers of /v1/backoffice: login with a *)
(* password, creation of users by admins, passwords, deactivation.         *)
(*                                                                         *)
(* A user is named by its tenant and email, on which the table is unique.  *)
(* What a role allows is decided by the token, which is issued at login    *)
(* and not looked up again.                                                *)
(***************************************************************************)
EXTENDS Naturals, FiniteSets

CONSTANTS
  Users,       \* rows that may come to exist: [tenant, email]
  Passwords,   \* those validatePassword accepts
  Temporary,   \* stands for a generated password: shown to nobody
  NoUser, NoTask,
  Workers      \* handlers that are between two of their statements

ASSUME BackofficeAssumption ==
  /\ Temporary \notin Passwords
  /\ NoUser \notin [password : Passwords \cup {Temporary}, role : {"admin", "member"},
                    mustChange : BOOLEAN, active : BOOLEAN]

VARIABLES
  user,        \* table backoffice_users: [Users -> row, or NoUser]
  tokens,      \* JWTs issued and not expired: [user, role]
  task         \* [Workers -> the rest of a handler, or NoTask]

backofficeVars == <<user, tokens, task>>

Role == {"admin", "member"}
UserExists(u) == user[u] # NoUser

\* The row Repository.Create inserts.
UserRow(password, role) ==
  [password |-> password, role |-> role, mustChange |-> FALSE, active |-> TRUE]

BackofficeInit ==
  /\ user = [u \in Users |-> NoUser]
  /\ tokens = {}
  /\ task = [w \in Workers |-> NoTask]

\* BackofficeAuth passes the bearers of these on as admins.
Admins == {t \in tokens : t.role = "admin"}

validatePassword(p) == p \in Passwords

\* GenerateToken: the role is the row's when the token is made.
Token(u) == [user |-> u, role |-> user[u].role]

MayLogIn(row, p) == row.active /\ row.password = p /\ ~row.mustChange

\* BackofficeService.Login: one SELECT, and a token from the row it returned.
Login(u) ==
  /\ UserExists(u)
  /\ \E p \in Passwords : MayLogIn(user[u], p)
  /\ tokens' = tokens \cup {Token(u)}
  /\ UNCHANGED <<user, task>>

TokenExpires(t) ==
  /\ tokens' = tokens \ {t}
  /\ UNCHANGED <<user, task>>

\* The tenant of the new user is taken from the request.
AnyTenantUserFault(u) ==
  /\ Admins # {} /\ ~UserExists(u)
  /\ \E p \in Passwords, role \in Role : user' = [user EXCEPT ![u] = UserRow(p, role)]
  /\ UNCHANGED <<tokens, task>>

\* Handler.CreateUser: the row goes to the tenant of an admin's token; a row
\* that exists is a conflict.
Creatable(u) == (\E t \in Admins : t.user.tenant = u.tenant) /\ ~UserExists(u)

\* BackofficeService.CreateUser with a password: one INSERT.
CreateUser(u) ==
  /\ Creatable(u)
  /\ \E p \in Passwords, role \in Role : user' = [user EXCEPT ![u] = UserRow(p, role)]
  /\ UNCHANGED <<tokens, task>>

\* Without one: INSERT with a generated password, then the flag.
InviteUser(w, u) ==
  /\ task[w] = NoTask
  /\ Creatable(u)
  /\ \E role \in Role : user' = [user EXCEPT ![u] = UserRow(Temporary, role)]
  /\ task' = [task EXCEPT ![w] = [do |-> "flag", user |-> u]]
  /\ UNCHANGED tokens

FlagMustChange(w) ==
  /\ task[w] # NoTask /\ task[w].do = "flag"
  /\ user' = [user EXCEPT ![task[w].user].mustChange = TRUE]
  /\ task' = [task EXCEPT ![w] = NoTask]
  /\ UNCHANGED tokens

\* An admin changes a password without knowing it.
AdminKnowsFault(t, u, p) == t.role = "admin" \/ user[u].password = p

\* Handler.ChangePassword: one's own, or any for an admin.
MayChange(t, u) == t.user = u \/ t.role = "admin"

\* ChangePassword compares the current password whoever asks.
KnowsPassword(t, u, p) == user[u].password = p

\* ChangePassword up to the comparison: the hash is read and checked here.
CheckPassword(w, t, u) ==
  /\ task[w] = NoTask
  /\ UserExists(u)
  /\ MayChange(t, u)
  /\ \E old, new \in Passwords :
       /\ old # new /\ validatePassword(new)
       /\ KnowsPassword(t, u, old)
       /\ task' = [task EXCEPT ![w] = [do |-> "password", user |-> u, new |-> new]]
  /\ UNCHANGED <<user, tokens>>

\* UpdatePassword also clears the flag, whatever the row has become.
WritePassword(w) ==
  /\ task[w] # NoTask /\ task[w].do = "password"
  /\ user' = [user EXCEPT ![task[w].user].password = task[w].new,
                          ![task[w].user].mustChange = FALSE]
  /\ task' = [task EXCEPT ![w] = NoTask]
  /\ UNCHANGED tokens

\* The handler ends before its second statement: failure, or the process dies.
DropTask(w) ==
  /\ task[w] # NoTask
  /\ task' = [task EXCEPT ![w] = NoTask]
  /\ UNCHANGED <<user, tokens>>

DeactivateUser(u) ==
  /\ Admins # {} /\ UserExists(u)
  /\ user' = [user EXCEPT ![u].active = FALSE]
  /\ UNCHANGED <<tokens, task>>

BackofficeStep ==
  \/ \E u \in Users : \/ Login(u) \/ CreateUser(u) \/ DeactivateUser(u)
                      \/ \E w \in Workers : InviteUser(w, u)
                      \/ \E w \in Workers, t \in tokens : CheckPassword(w, t, u)
  \/ \E t \in tokens : TokenExpires(t)
  \/ \E w \in Workers : FlagMustChange(w) \/ WritePassword(w) \/ DropTask(w)

(***************************************************************************)
(* Properties.                                                             *)
(***************************************************************************)
BackofficeTypeOK ==
  /\ user \in [Users -> [password : Passwords \cup {Temporary}, role : Role,
                         mustChange : BOOLEAN, active : BOOLEAN] \cup {NoUser}]
  /\ tokens \subseteq [user : Users, role : Role]
  /\ task \in [Workers -> [do : {"flag"}, user : Users]
                          \cup [do : {"password"}, user : Users, new : Passwords]
                          \cup {NoTask}]
=============================================================================
