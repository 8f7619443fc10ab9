-------------------------------- MODULE Accounts --------------------------------
(***************************************************************************)
(* Users, roles, permissions, and the pairings that say which role manages *)
(* which (UsersService, RolesService, PermissionsService,                  *)
(* RoleManagementService, ManagedUsersService).  What a request checks and *)
(* what it writes are commands apart; a change of rights is two commands:  *)
(* the rights, then the end of the user's session, which may fail.         *)
(*                                                                         *)
(* Names and slugs are left out (a pairing follows its role's slug), as    *)
(* are passwords, the audit log and notifications.  A session is what the  *)
(* column refresh_token holds, see module Sessions.                        *)
(***************************************************************************)
EXTENDS Tables

CONSTANTS
  Admins,         \* requests of the back office in flight
  Emails,
  MaxUsers, MaxRoles, MaxPermissions  \* bounds: rows ever made

ASSUME AccountBounds == MaxUsers \in Nat /\ MaxRoles \in Nat /\ MaxPermissions \in Nat

VARIABLES
  users,       \* id -> email, active, trashed, roles, direct, session, reset
  roles,       \* id -> its permissions
  permissions, \* set of ids
  pairings,    \* table role_management: <<manager, managed>>
  nextUser, nextRole, nextPermission,
  request      \* what each request of the back office has checked, or has still to write

userTables == <<users, nextUser>>
roleTables == <<roles, permissions, pairings, nextRole, nextPermission>>
accountVars == <<userTables, roleTables, request>>

Idle == [at |-> "idle", id |-> 0, role |-> 0, late |-> {}, dto |-> None]

AccountsInit ==
  /\ users = << >> /\ roles = << >> /\ permissions = {} /\ pairings = {}
  /\ nextUser = 1 /\ nextRole = 1 /\ nextPermission = 1
  /\ request = [e \in Admins |-> Idle]

-----------------------------------------------------------------------------
EmailExists(m, except) == \E u \in DOMAIN users \ {except} : users[u].email = m

(* A session is ended by emptying its column. *)
KeepSession(row) == row
EndSession(row) == [row EXCEPT !.session = None]

(* What the foreign keys do when a row goes. *)
WithoutRole(row, r) == [row EXCEPT !.roles = @ \ {r}]
WithoutPermission(row, p) == [row EXCEPT !.direct = Only(@, permissions \ {p})]

(* A request that waits at a check of role r notes who gets r meanwhile.   *)
Noted(u, rs) ==
  [e \in Admins |-> IF request[e].at = "removing role" /\ request[e].role \in rs
                      THEN [request[e] EXCEPT !.late = @ \cup {u}] ELSE request[e]]

-----------------------------------------------------------------------------
(* POST: the e-mail is looked up, and its index holds at the write.        *)
CreateUserDto == [email : Emails, roles : SUBSET DOMAIN roles]

CreateUser(dto) ==
  /\ nextUser <= MaxUsers
  /\ ~EmailExists(dto.email, 0)
  /\ users' = Put(users, nextUser,
       [email |-> dto.email, active |-> TRUE, trashed |-> FALSE, roles |-> dto.roles,
        direct |-> << >>, session |-> None, reset |-> FALSE])
  /\ nextUser' = nextUser + 1
  /\ request' = Noted(nextUser, dto.roles)
  /\ UNCHANGED roleTables

(* PATCH: one command writes the fields that are given and replaces the    *)
(* roles; if there are roles, the next command ends the session.           *)
UpdateUserDto ==
  [email : Emails \cup {None}, active : BOOLEAN \cup {None},
   roles : (SUBSET DOMAIN roles) \cup {None}]

WriteUser(e, u, dto) ==
  /\ u \in DOMAIN users
  /\ dto.email = None \/ ~EmailExists(dto.email, u)
  /\ users' = [users EXCEPT
       ![u].email = Given(dto.email, @), ![u].active = Given(dto.active, @),
       ![u].roles = Given(dto.roles, @)]
  /\ request' = [Noted(u, Given(dto.roles, {}) \ users[u].roles) EXCEPT
       ![e] = IF dto.roles = None THEN Idle ELSE [Idle EXCEPT !.at = "ending session", !.id = u]]
  /\ UNCHANGED <<nextUser, roleTables>>

EndSessionAfterwards(e) ==
  LET u == request[e].id IN
    /\ request[e].at = "ending session"
    /\ users' = IF u \in DOMAIN users THEN [users EXCEPT ![u] = EndSession(@)] ELSE users
    /\ request' = [request EXCEPT ![e] = Idle]
    /\ UNCHANGED <<nextUser, roleTables>>

(* That command fails, or the server goes down before it: the rights are   *)
(* written and the session goes on.  (The request reports an error, if it  *)
(* still can; asking for the same rights once more ends the session.)      *)
GoesOn(row) == IF row.session = None THEN row ELSE [row EXCEPT !.session.slipped = TRUE]

EndingFails(e) ==
  LET u == request[e].id IN
    /\ request[e].at = "ending session"
    /\ users' = IF u \in DOMAIN users THEN [users EXCEPT ![u] = GoesOn(@)] ELSE users
    /\ request' = [request EXCEPT ![e] = Idle]
    /\ UNCHANGED <<nextUser, roleTables>>

(* A permission granted to a user, or revoked, or neither: the same two    *)
(* commands.                                                               *)
SetUserPermissionDto == [permission : permissions, granted : BOOLEAN \cup {None}]

SetUserPermission(e, u, dto) ==
  /\ request[e].at = "idle"
  /\ users' = [users EXCEPT ![u].direct =
       IF dto.granted = None THEN Only(@, permissions \ {dto.permission})
                             ELSE Put(@, dto.permission, dto.granted)]
  /\ request' = [request EXCEPT ![e] = [Idle EXCEPT !.at = "ending session", !.id = u]]
  /\ UNCHANGED <<nextUser, roleTables>>

TrashUser(u, trashed) ==
  /\ users' = [users EXCEPT ![u].trashed = trashed]
  /\ UNCHANGED <<nextUser, roleTables>>

HardDeleteUser(u) ==
  /\ users' = Only(users, DOMAIN users \ {u})
  /\ UNCHANGED <<nextUser, roleTables>>

UserRoutes(e) ==
  \/ \E dto \in CreateUserDto : request[e].at = "idle" /\ CreateUser(dto)
  \/ \E u \in DOMAIN users :
       \/ \E dto \in UpdateUserDto : request[e].at = "idle" /\ WriteUser(e, u, dto)
       \/ \E dto \in SetUserPermissionDto : SetUserPermission(e, u, dto)
       \/ \E trashed \in BOOLEAN : TrashUser(u, trashed) /\ UNCHANGED request
       \/ HardDeleteUser(u) /\ UNCHANGED request

-----------------------------------------------------------------------------
(* Every request reads its user again.                                     *)
ValidateUser(c) == c \in DOMAIN users /\ users[c].active /\ ~users[c].trashed

ManagedRoles(c) == {r \in DOMAIN roles : \E m \in users[c].roles : <<m, r>> \in pairings}
IsManaged(c, u) == users[u].roles \cap ManagedRoles(c) # {}

(* The routes of a manager c: whether c manages u is checked, and then     *)
(* what was asked is done to u.  No roles are given here.                  *)
UpdateManagedUserDto == {dto \in UpdateUserDto : dto.roles = None}
ManagedDto ==
  [op : {"update"}, fields : UpdateManagedUserDto]
    \cup [op : {"trash", "restore", "hard delete"}, fields : {None}]

StartManaged(e, c, u, dto) ==
  /\ request[e].at = "idle"
  /\ ValidateUser(c) /\ IsManaged(c, u)
  /\ request' = [request EXCEPT ![e] = [Idle EXCEPT !.at = "managed", !.id = u, !.dto = dto]]
  /\ UNCHANGED <<userTables, roleTables>>

DoManaged(e) ==
  LET u == request[e].id  dto == request[e].dto IN
    /\ request[e].at = "managed"
    /\ u \in DOMAIN users
    /\ \/ dto.op = "update" /\ WriteUser(e, u, dto.fields)
       \/ /\ \/ dto.op = "trash" /\ TrashUser(u, TRUE)
             \/ dto.op = "restore" /\ TrashUser(u, FALSE)
             \/ dto.op = "hard delete" /\ HardDeleteUser(u)
          /\ request' = [request EXCEPT ![e] = Idle]

ManagedFails(e) ==
  /\ request[e].at = "managed"
  /\ \/ request[e].id \notin DOMAIN users
     \/ /\ request[e].dto.op = "update" /\ request[e].dto.fields.email # None
        /\ EmailExists(request[e].dto.fields.email, request[e].id)
  /\ request' = [request EXCEPT ![e] = Idle]
  /\ UNCHANGED <<userTables, roleTables>>

(* A new user of a role that c manages.                                    *)
CreateManaged(e, c, m, r) ==
  /\ request[e].at = "idle"
  /\ ValidateUser(c) /\ r \in ManagedRoles(c)
  /\ CreateUser([email |-> m, roles |-> {r}])

ManagedRoutes(e) ==
  \/ \E c, u \in DOMAIN users : \E dto \in ManagedDto : StartManaged(e, c, u, dto)
  \/ \E c \in DOMAIN users, m \in Emails : \E r \in DOMAIN roles : CreateManaged(e, c, m, r)
  \/ DoManaged(e) \/ ManagedFails(e)

-----------------------------------------------------------------------------
CreateRole(ps) ==
  /\ nextRole <= MaxRoles
  /\ roles' = Put(roles, nextRole, ps)
  /\ nextRole' = nextRole + 1
  /\ UNCHANGED <<userTables, permissions, pairings, nextPermission, request>>

(* The permissions of a role are replaced in one transaction; the sessions *)
(* of those who have the role go on.                                       *)
SetPermissions(r, ps) ==
  /\ roles' = [roles EXCEPT ![r] = ps]
  /\ UNCHANGED <<userTables, permissions, pairings, nextRole, nextPermission, request>>

(* A role that users have is not deleted: they are counted, ...            *)
NobodyCounted(r) == FALSE
HasUsers(r) == \E u \in DOMAIN users : r \in users[u].roles

StartRemoveRole(e, r) ==
  /\ request[e].at = "idle"
  /\ ~HasUsers(r)
  /\ request' = [request EXCEPT ![e] = [Idle EXCEPT !.at = "removing role", !.role = r]]
  /\ UNCHANGED <<userTables, roleTables>>

(* ... then the row goes, and by the foreign keys what refers to it.       *)
RemoveRole(e) ==
  LET r == request[e].role IN
    /\ request[e].at = "removing role"
    /\ roles' = Only(roles, DOMAIN roles \ {r})
    /\ pairings' = {pair \in pairings : r \notin {pair[1], pair[2]}}
    /\ users' = [u \in DOMAIN users |-> WithoutRole(users[u], r)]
    /\ request' = [request EXCEPT ![e] = Idle]
    /\ UNCHANGED <<nextUser, permissions, nextRole, nextPermission>>

RoleRoutes(e) ==
  \/ \E ps \in SUBSET permissions :
       CreateRole(ps) \/ \E r \in DOMAIN roles : SetPermissions(r, ps)
  \/ \E r \in DOMAIN roles : StartRemoveRole(e, r)
  \/ RemoveRole(e)

CreatePermission ==
  /\ nextPermission <= MaxPermissions
  /\ permissions' = permissions \cup {nextPermission}
  /\ nextPermission' = nextPermission + 1
  /\ UNCHANGED <<userTables, roles, pairings, nextRole, request>>

(* A permission that roles have is not deleted; that users have it is not  *)
(* looked at.                                                              *)
HasRoles(p) == \E r \in DOMAIN roles : p \in roles[r]

StartRemovePermission(e, p) ==
  /\ request[e].at = "idle"
  /\ ~HasRoles(p)
  /\ request' = [request EXCEPT ![e] = [Idle EXCEPT !.at = "removing permission", !.id = p]]
  /\ UNCHANGED <<userTables, roleTables>>

RemovePermission(e) ==
  LET p == request[e].id IN
    /\ request[e].at = "removing permission"
    /\ permissions' = permissions \ {p}
    /\ roles' = [r \in DOMAIN roles |-> roles[r] \ {p}]
    /\ users' = [u \in DOMAIN users |-> WithoutPermission(users[u], p)]
    /\ request' = [request EXCEPT ![e] = Idle]
    /\ UNCHANGED <<nextUser, pairings, nextRole, nextPermission>>

PermissionRoutes(e) ==
  \/ CreatePermission
  \/ \E p \in permissions : StartRemovePermission(e, p)
  \/ RemovePermission(e)

CreatePairing(manager, managed) ==
  /\ manager # managed /\ <<manager, managed>> \notin pairings
  /\ pairings' = pairings \cup {<<manager, managed>>}
  /\ UNCHANGED <<userTables, roles, permissions, nextRole, nextPermission, request>>

RemovePairing(pair) ==
  /\ pairings' = pairings \ {pair}
  /\ UNCHANGED <<userTables, roles, permissions, nextRole, nextPermission, request>>

PairingRoutes ==
  \/ \E manager, managed \in DOMAIN roles : CreatePairing(manager, managed)
  \/ \E pair \in pairings : RemovePairing(pair)

AccountsNext ==
  \/ \E e \in Admins :
       \/ UserRoutes(e) \/ ManagedRoutes(e) \/ RoleRoutes(e) \/ PermissionRoutes(e)
       \/ EndSessionAfterwards(e) \/ EndingFails(e)
  \/ PairingRoutes

-----------------------------------------------------------------------------
(* A user loses a role through the removal of the role only if the role    *)
(* was given between the count and the removal, a window in which the      *)
(* foreign key takes the role from the user without a word and leaves the  *)
(* session as it is (RolesService.remove, roles.service.ts:112-122).       *)
RoleLostByCrossingOnly ==
  [][\A u \in DOMAIN users \cap DOMAIN users' : \A r \in DOMAIN roles \ DOMAIN roles' :
       r \in users[u].roles =>
         \E e \in Admins : request[e].at = "removing role" /\ u \in request[e].late]_accountVars
=================================================================================
