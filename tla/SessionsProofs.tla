------------------------------ MODULE SessionsProofs ------------------------------
(***************************************************************************)
(* Proofs about users, their rights and their sessions, for any number of  *)
(* requests in flight and of tabs, and any number of rows: sessions keep   *)
(* up with rights, a role is lost to a crossing only, and who has signed   *)
(* in stays signed in.                                                     *)
(***************************************************************************)
EXTENDS Sessions, TLAPS

Grants == UNION {[ps -> BOOLEAN] : ps \in SUBSET Nat}
RightsType == [roles : SUBSET Nat, direct : Grants]
SessionType == [token : Nat, rights : RightsType \cup {None}, slipped : BOOLEAN]
UserType ==
  [email : Emails, active : BOOLEAN, trashed : BOOLEAN, roles : SUBSET Nat,
   direct : Grants, session : SessionType \cup {None}, reset : BOOLEAN]
FieldsType == [email : Emails \cup {None}, active : BOOLEAN \cup {None}, roles : {None}]
ManagedType ==
  [op : {"update", "trash", "restore", "hard delete"}, fields : FieldsType \cup {None}]
RequestType ==
  [at : {"idle", "managed", "ending session", "removing role", "removing permission"},
   id : Nat, role : Nat, late : SUBSET Nat, dto : ManagedType \cup {None}]

AccountsTypeOK ==
  /\ users \in [DOMAIN users -> UserType] /\ DOMAIN users \subseteq Nat
  /\ roles \in [DOMAIN roles -> SUBSET Nat] /\ DOMAIN roles \subseteq 1 .. nextRole - 1
  /\ permissions \subseteq 1 .. nextPermission - 1
  /\ nextUser \in Nat /\ nextRole \in Nat \ {0} /\ nextPermission \in Nat \ {0}
  /\ request \in [Admins -> RequestType]

(* A user has roles and grants that exist (the foreign keys).              *)
RightsExist ==
  \A u \in DOMAIN users :
    users[u].roles \subseteq DOMAIN roles /\ DOMAIN users[u].direct \subseteq permissions

(* A session knows of no role or permission that is still to be made.      *)
RightsKnown ==
  \A u \in DOMAIN users : users[u].session # None /\ ~users[u].session.slipped =>
    /\ users[u].session.rights.roles \subseteq 1 .. nextRole - 1
    /\ DOMAIN users[u].session.rights.direct \subseteq 1 .. nextPermission - 1

(* A managed user's update gives no roles.                                 *)
ManagedGivesNoRoles ==
  \A e \in Admins : request[e].at = "managed" /\ request[e].dto.op = "update" =>
    request[e].dto.fields \in FieldsType

(* Whoever has a role that is about to be removed got it after the count.  *)
LatecomersNoted ==
  \A e \in Admins : request[e].at = "removing role" =>
    \A u \in DOMAIN users : request[e].role \in users[u].roles => u \in request[e].late

AccountsInv ==
  /\ AccountsTypeOK /\ RightsExist /\ RightsKnown /\ ManagedGivesNoRoles
  /\ LatecomersNoted /\ SessionsKeepUpWithRights

-----------------------------------------------------------------------------
(* Restricting the grants of a user.                                       *)
LEMMA OnlyAll ==
  ASSUME NEW f \in Grants, NEW ps, DOMAIN f \subseteq ps
  PROVE  Only(f, ps) = f
<1>1. f = [x \in DOMAIN f |-> f[x]] /\ DOMAIN f \cap ps = DOMAIN f
  BY DEF Grants
<1> QED
  BY <1>1 DEF Only

LEMMA OnlyTwice ==
  ASSUME NEW f, NEW ps, NEW qs, DOMAIN f \cap qs \subseteq ps
  PROVE  Only(Only(f, ps), qs) = Only(f, qs)
<1>1. DOMAIN Only(f, ps) = DOMAIN f \cap ps /\ \A x \in DOMAIN f \cap ps : Only(f, ps)[x] = f[x]
  BY DEF Only
<1>2. (DOMAIN f \cap ps) \cap qs = DOMAIN f \cap qs
  OBVIOUS
<1> HIDE DEF Only
<1>3. Only(Only(f, ps), qs) = [x \in DOMAIN Only(f, ps) \cap qs |-> Only(f, ps)[x]]
  BY DEF Only
<1>4. Only(f, qs) = [x \in DOMAIN f \cap qs |-> f[x]]
  BY DEF Only
<1> QED
  BY <1>1, <1>2, <1>3, <1>4

LEMMA OnlyTyped ==
  ASSUME NEW f \in Grants, NEW ps
  PROVE  Only(f, ps) \in Grants /\ DOMAIN Only(f, ps) = DOMAIN f \cap ps
<1>1. PICK d \in SUBSET Nat : f \in [d -> BOOLEAN]
  BY DEF Grants
<1>2. Only(f, ps) \in [d \cap ps -> BOOLEAN] /\ d \cap ps \in SUBSET Nat
  BY <1>1 DEF Only
<1> QED
  BY <1>1, <1>2 DEF Grants

LEMMA PutTyped ==
  ASSUME NEW f \in Grants, NEW p \in Nat, NEW b \in BOOLEAN
  PROVE  Put(f, p, b) \in Grants /\ DOMAIN Put(f, p, b) = DOMAIN f \cup {p}
<1>1. PICK d \in SUBSET Nat : f \in [d -> BOOLEAN]
  BY DEF Grants
<1>2. Put(f, p, b) \in [d \cup {p} -> BOOLEAN] /\ d \cup {p} \in SUBSET Nat
  BY <1>1 DEF Put
<1> QED
  BY <1>1, <1>2 DEF Grants

-----------------------------------------------------------------------------
(* What a step may do to one user's rights and session.                    *)
RightsCut(u) ==
  /\ u \in DOMAIN users
  /\ users'[u].roles = users[u].roles \cap DOMAIN roles'
  /\ users'[u].direct = Only(users[u].direct, permissions')

SessionKept(u) == u \in DOMAIN users /\ users'[u].session = users[u].session

SessionFresh(u) ==
  /\ users'[u].session.slipped \in BOOLEAN
  /\ ~users'[u].session.slipped =>
       users'[u].session.rights = [roles |-> users'[u].roles, direct |-> users'[u].direct]

Ending(u) == \E e \in Admins : request[e].at = "ending session" /\ request[e].id = u

(* The tables of roles and permissions grow by new rows only.              *)
OnlyNewRows ==
  /\ nextRole <= nextRole' /\ nextPermission <= nextPermission'
  /\ DOMAIN roles' \subseteq DOMAIN roles \cup nextRole .. nextRole' - 1
  /\ permissions' \subseteq permissions \cup nextPermission .. nextPermission' - 1

LEMMA SessionsStep ==
  ASSUME AccountsInv, AccountsTypeOK', RightsExist', OnlyNewRows,
         \A u \in DOMAIN users' :
           \/ users'[u].session = None
           \/ SessionKept(u) /\ Ending(u)'
           \/ SessionKept(u) /\ RightsCut(u) /\ (Ending(u) => Ending(u)')
           \/ SessionFresh(u)
  PROVE  RightsKnown' /\ SessionsKeepUpWithRights'
<1> DEFINE Known(s, r, p) == s.rights.roles \subseteq 1 .. r - 1
                               /\ DOMAIN s.rights.direct \subseteq 1 .. p - 1
<1>1. /\ nextRole \in Nat \ {0} /\ nextPermission \in Nat \ {0}
      /\ nextRole' \in Nat \ {0} /\ nextPermission' \in Nat \ {0}
      /\ DOMAIN roles \subseteq 1 .. nextRole - 1 /\ permissions \subseteq 1 .. nextPermission - 1
      /\ DOMAIN roles' \subseteq 1 .. nextRole' - 1 /\ permissions' \subseteq 1 .. nextPermission' - 1
  BY DEF AccountsInv, AccountsTypeOK
<1>2. ASSUME NEW u \in DOMAIN users', users'[u].session # None, ~users'[u].session.slipped
      PROVE  /\ Known(users'[u].session, nextRole', nextPermission')
             /\ \/ Ending(u)'
                \/ /\ users'[u].session.rights.roles \cap DOMAIN roles' = users'[u].roles
                   /\ Only(users'[u].session.rights.direct, permissions') = users'[u].direct
  <2> DEFINE s == users'[u].session
  <2>1. users'[u].direct \in Grants
    BY DEF AccountsTypeOK, UserType
  <2>2. CASE SessionFresh(u)
    <3>1. s.rights.roles = users'[u].roles /\ s.rights.direct = users'[u].direct
      BY <1>2, <2>2 DEF SessionFresh
    <3>2. users'[u].roles \subseteq DOMAIN roles' /\ DOMAIN users'[u].direct \subseteq permissions'
      BY DEF RightsExist
    <3> QED
      BY <1>1, <2>1, <3>1, <3>2, OnlyAll
  <2>3. CASE SessionKept(u)
    <3>1. u \in DOMAIN users /\ users[u].session = s
      BY <2>3 DEF SessionKept
    <3>2. Known(s, nextRole, nextPermission)
      BY <1>2, <3>1 DEF AccountsInv, RightsKnown
    <3>3. Known(s, nextRole', nextPermission')
      BY <1>1, <3>2 DEF OnlyNewRows
    <3>4. CASE RightsCut(u) /\ ~Ending(u)
      <4>1. /\ s.rights.roles \cap DOMAIN roles = users[u].roles
            /\ Only(s.rights.direct, permissions) = users[u].direct
        BY <1>2, <3>1, <3>4 DEF AccountsInv, SessionsKeepUpWithRights, Ending
      <4>2. /\ s.rights.roles \cap DOMAIN roles' \subseteq DOMAIN roles
            /\ DOMAIN s.rights.direct \cap permissions' \subseteq permissions
        <5>1. DOMAIN roles' \subseteq DOMAIN roles \cup nextRole .. nextRole' - 1
          BY DEF OnlyNewRows
        <5>2. permissions' \subseteq permissions \cup nextPermission .. nextPermission' - 1
          BY DEF OnlyNewRows
        <5> HIDE DEF s
        <5>3. ASSUME NEW r \in s.rights.roles, r \in DOMAIN roles' PROVE r \in DOMAIN roles
          BY <1>1, <3>2, <5>1, <5>3
        <5>4. ASSUME NEW p \in DOMAIN s.rights.direct, p \in permissions' PROVE p \in permissions
          BY <1>1, <3>2, <5>2, <5>4
        <5> QED
          BY <5>3, <5>4
      <4> HIDE DEF s
      <4>3. Only(s.rights.direct, permissions') = Only(users[u].direct, permissions')
        BY <4>1, <4>2, OnlyTwice
      <4> QED
        BY <3>3, <3>4, <4>1, <4>2, <4>3 DEF RightsCut, s
    <3> QED
      BY <1>2, <3>3, <3>4, <2>2
  <2> QED
    BY <1>2, <2>2, <2>3
<1>3. RightsKnown'
  BY <1>2 DEF RightsKnown
<1>4. SessionsKeepUpWithRights'
  BY <1>2 DEF SessionsKeepUpWithRights, Ending
<1> QED
  BY <1>3, <1>4

(* Rights that are left alone are what is left of them.                    *)
LEMMA RightsStay ==
  ASSUME AccountsInv, NEW u \in DOMAIN users, DOMAIN roles \subseteq DOMAIN roles',
         permissions \subseteq permissions',
         users'[u].roles = users[u].roles, users'[u].direct = users[u].direct
  PROVE  RightsCut(u)
<1>1. /\ users[u].direct \in Grants /\ users[u].roles \subseteq DOMAIN roles
      /\ DOMAIN users[u].direct \subseteq permissions
  BY DEF AccountsInv, AccountsTypeOK, UserType, RightsExist
<1>2. Only(users[u].direct, permissions') = users[u].direct
  BY <1>1, OnlyAll
<1> QED
  BY <1>1, <1>2 DEF RightsCut

LEMMA LatecomersStep ==
  ASSUME LatecomersNoted,
         \A e \in Admins : request'[e].at = "removing role" =>
           \A u \in DOMAIN users' : request'[e].role \in users'[u].roles =>
             \/ u \in request'[e].late
             \/ /\ request[e].at = "removing role" /\ request[e].role = request'[e].role
                /\ u \in DOMAIN users /\ request'[e].role \in users[u].roles
                /\ request[e].late \subseteq request'[e].late
  PROVE  LatecomersNoted'
BY DEF LatecomersNoted

LEMMA NoNewRows ==
  ASSUME AccountsInv, UNCHANGED <<nextRole, nextPermission>>,
         DOMAIN roles' \subseteq DOMAIN roles, permissions' \subseteq permissions
  PROVE  OnlyNewRows
<1>1. nextRole \in Nat /\ nextPermission \in Nat
  BY DEF AccountsInv, AccountsTypeOK
<1> QED
  BY <1>1 DEF OnlyNewRows

-----------------------------------------------------------------------------
(* Steps of requests and of the tables of roles alone.                     *)
LEMMA RequestOnly ==
  ASSUME AccountsInv, NEW e \in Admins, NEW x \in RequestType,
         request' = [request EXCEPT ![e] = x], UNCHANGED <<userTables, roleTables>>,
         request[e].at # "ending session",
         x.at = "managed" /\ x.dto.op = "update" => x.dto.fields \in FieldsType,
         x.at = "removing role" => ~HasUsers(x.role)
  PROVE  AccountsInv'
<1>1. UNCHANGED <<users, nextUser, roles, permissions, nextRole, nextPermission>>
  BY DEF userTables, roleTables
<1>2. request \in [Admins -> RequestType]
  BY DEF AccountsInv, AccountsTypeOK
<1>3. \A q \in Admins : request'[q] = IF q = e THEN x ELSE request[q]
  BY <1>2
<1>4. AccountsTypeOK'
  <2>1. request' \in [Admins -> RequestType]
    BY <1>2
  <2> QED
    BY <1>1, <2>1 DEF AccountsInv, AccountsTypeOK
<1>5. RightsExist' /\ RightsKnown'
  BY <1>1 DEF AccountsInv, RightsExist, RightsKnown
<1>6. ManagedGivesNoRoles'
  BY <1>3 DEF AccountsInv, ManagedGivesNoRoles
<1>7. LatecomersNoted'
  BY <1>1, <1>3 DEF AccountsInv, LatecomersNoted, HasUsers
<1>8. \A q \in Admins : request[q].at = "ending session" => request'[q] = request[q]
  BY <1>3
<1>9. SessionsKeepUpWithRights'
  BY <1>1, <1>8 DEF AccountsInv, SessionsKeepUpWithRights
<1> QED
  BY <1>4, <1>5, <1>6, <1>7, <1>9 DEF AccountsInv

LEMMA RoleTablesOnly ==
  ASSUME AccountsInv, UNCHANGED <<userTables, request>>,
         roles' \in [DOMAIN roles' -> SUBSET Nat], DOMAIN roles' \subseteq 1 .. nextRole' - 1,
         permissions' \subseteq 1 .. nextPermission' - 1,
         nextRole' \in Nat \ {0}, nextPermission' \in Nat \ {0}, OnlyNewRows,
         DOMAIN roles \subseteq DOMAIN roles', permissions \subseteq permissions'
  PROVE  AccountsInv'
<1>1. UNCHANGED <<users, nextUser, request>>
  BY DEF userTables
<1>2. AccountsTypeOK'
  BY <1>1 DEF AccountsInv, AccountsTypeOK
<1>3. RightsExist'
  BY <1>1 DEF AccountsInv, RightsExist
<1>4. ManagedGivesNoRoles' /\ LatecomersNoted'
  BY <1>1 DEF AccountsInv, ManagedGivesNoRoles, LatecomersNoted
<1>5. \A u \in DOMAIN users' : SessionKept(u) /\ RightsCut(u) /\ (Ending(u) => Ending(u)')
  BY <1>1, RightsStay DEF SessionKept, Ending
<1>6. RightsKnown' /\ SessionsKeepUpWithRights'
  BY <1>2, <1>3, <1>5, SessionsStep
<1> QED
  BY <1>2, <1>3, <1>4, <1>6 DEF AccountsInv

-----------------------------------------------------------------------------
(* A step that writes one row of users, and of the requests maybe one.     *)
LEMMA RowEdited ==
  ASSUME AccountsInv, NEW u \in DOMAIN users, NEW row \in UserType,
         users' = [users EXCEPT ![u] = row], UNCHANGED <<nextUser, roleTables>>,
         request' \in [Admins -> RequestType], ManagedGivesNoRoles',
         row.roles \subseteq DOMAIN roles, DOMAIN row.direct \subseteq permissions,
         \A e \in Admins : request'[e].at = "removing role" =>
           /\ request[e].at = "removing role" /\ request[e].role = request'[e].role
           /\ request[e].late \subseteq request'[e].late
           /\ request'[e].role \in row.roles \ users[u].roles => u \in request'[e].late,
         \A v \in DOMAIN users : v # u /\ Ending(v) => Ending(v)',
         \/ row.session = None
         \/ row.session = users[u].session /\ Ending(u)'
         \/ /\ row.session = users[u].session /\ (Ending(u) => Ending(u)')
            /\ row.roles = users[u].roles /\ row.direct = users[u].direct
         \/ /\ row.session.slipped \in BOOLEAN
            /\ ~row.session.slipped => row.session.rights = [roles |-> row.roles, direct |-> row.direct]
  PROVE  AccountsInv'
<1>1. UNCHANGED <<nextUser, roles, permissions, nextRole, nextPermission>>
  BY DEF roleTables
<1>2. /\ users \in [DOMAIN users -> UserType]
      /\ DOMAIN users' = DOMAIN users /\ users'[u] = row
      /\ \A v \in DOMAIN users : v # u => users'[v] = users[v]
  BY DEF AccountsInv, AccountsTypeOK
<1>3. AccountsTypeOK'
  <2>1. users' \in [DOMAIN users' -> UserType]
    BY <1>2
  <2> QED
    BY <1>1, <1>2, <2>1 DEF AccountsInv, AccountsTypeOK
<1>4. RightsExist'
  BY <1>1, <1>2 DEF AccountsInv, RightsExist
<1>5. LatecomersNoted'
  <2>1. \A e \in Admins : request'[e].at = "removing role" =>
          \A v \in DOMAIN users' : request'[e].role \in users'[v].roles =>
            v \in request'[e].late \/ request'[e].role \in users[v].roles
    BY <1>2
  <2> QED
    BY <1>2, <2>1, LatecomersStep DEF AccountsInv
<1>6. OnlyNewRows
  BY <1>1, NoNewRows
<1>7. ASSUME NEW v \in DOMAIN users'
      PROVE  \/ users'[v].session = None
             \/ SessionKept(v) /\ Ending(v)'
             \/ SessionKept(v) /\ RightsCut(v) /\ (Ending(v) => Ending(v)')
             \/ SessionFresh(v)
  <2>1. CASE v = u
    <3>1. (row.roles = users[u].roles /\ row.direct = users[u].direct) => RightsCut(u)
      BY <1>1, <1>2, RightsStay
    <3> QED
      BY <1>2, <2>1, <3>1 DEF SessionKept, SessionFresh
  <2>2. CASE v # u
    <3>1. v \in DOMAIN users /\ users'[v] = users[v]
      BY <1>2, <2>2
    <3>2. RightsCut(v)
      BY <1>1, <3>1, RightsStay
    <3> QED
      BY <2>2, <3>1, <3>2 DEF SessionKept
  <2> QED
    BY <2>1, <2>2
<1>8. RightsKnown' /\ SessionsKeepUpWithRights'
  BY <1>3, <1>4, <1>6, <1>7, SessionsStep
<1> QED
  BY <1>3, <1>4, <1>5, <1>8 DEF AccountsInv

(* The same, for a step that leaves rights and requests alone.             *)
LEMMA RightsUntouched ==
  ASSUME AccountsInv, NEW u \in DOMAIN users, NEW row \in UserType,
         users' = [users EXCEPT ![u] = row], UNCHANGED <<nextUser, roleTables, request>>,
         row.roles = users[u].roles, row.direct = users[u].direct,
         \/ row.session = None
         \/ row.session = users[u].session
         \/ /\ row.session.slipped \in BOOLEAN
            /\ ~row.session.slipped => row.session.rights = [roles |-> row.roles, direct |-> row.direct]
  PROVE  AccountsInv'
<1>1. request' \in [Admins -> RequestType] /\ ManagedGivesNoRoles'
  BY DEF AccountsInv, AccountsTypeOK, ManagedGivesNoRoles
<1>2. row.roles \subseteq DOMAIN roles /\ DOMAIN row.direct \subseteq permissions
  BY DEF AccountsInv, RightsExist
<1>3. \A v : Ending(v) => Ending(v)'
  BY DEF Ending
<1>4. \A e \in Admins : request'[e].at = "removing role" =>
           /\ request[e].at = "removing role" /\ request[e].role = request'[e].role
           /\ request[e].late \subseteq request'[e].late
           /\ request'[e].role \in row.roles \ users[u].roles => u \in request'[e].late
  OBVIOUS
<1> QED
  BY <1>1, <1>2, <1>3, <1>4, RowEdited

-----------------------------------------------------------------------------
(* A request that waits at a check of a role notes who gets the role.      *)
LEMMA NotedFields ==
  ASSUME AccountsInv, NEW u \in Nat, NEW rs
  PROVE  /\ Noted(u, rs) \in [Admins -> RequestType]
         /\ \A e \in Admins :
              /\ Noted(u, rs)[e].at = request[e].at /\ Noted(u, rs)[e].id = request[e].id
              /\ Noted(u, rs)[e].role = request[e].role /\ Noted(u, rs)[e].dto = request[e].dto
              /\ request[e].late \subseteq Noted(u, rs)[e].late
              /\ request[e].at = "removing role" /\ request[e].role \in rs => u \in Noted(u, rs)[e].late
<1>1. request \in [Admins -> RequestType]
  BY DEF AccountsInv, AccountsTypeOK
<1>2. ASSUME NEW e \in Admins
      PROVE  LET x == [request[e] EXCEPT !.late = request[e].late \cup {u}] IN
               /\ x \in RequestType /\ x.at = request[e].at /\ x.id = request[e].id
               /\ x.role = request[e].role /\ x.dto = request[e].dto
               /\ request[e].late \subseteq x.late /\ u \in x.late
  <2>1. request[e] \in RequestType
    BY <1>1
  <2> QED
    BY <2>1 DEF RequestType
<1> QED
  BY <1>1, <1>2 DEF Noted

LEMMA EndSessionTyped ==
  ASSUME NEW row \in UserType
  PROVE  LET x == EndSession(row) IN
           /\ x \in UserType /\ x.session = None
           /\ x.roles = row.roles /\ x.direct = row.direct
BY DEF EndSession, UserType

LEMMA GoesOnTyped ==
  ASSUME NEW row \in UserType
  PROVE  LET x == GoesOn(row) IN
           /\ x \in UserType /\ x.roles = row.roles /\ x.direct = row.direct
           /\ \/ x.session = None
              \/ /\ row.session # None /\ x.session.slipped = TRUE
                 /\ x.session.token = row.session.token
<1>1. CASE row.session = None
  BY <1>1 DEF GoesOn
<1>2. CASE row.session # None
  <2>1. row.session \in SessionType
    BY <1>2 DEF UserType
  <2>2. /\ [row.session EXCEPT !.slipped = TRUE] \in SessionType
        /\ [row.session EXCEPT !.slipped = TRUE].slipped = TRUE
        /\ [row.session EXCEPT !.slipped = TRUE].token = row.session.token
    BY <2>1 DEF SessionType
  <2> QED
    BY <1>2, <2>2 DEF GoesOn, UserType
<1> QED
  BY <1>1, <1>2

-----------------------------------------------------------------------------
(* The requests of the back office, one lemma for each.                    *)
SameToken(u) ==
  /\ u \in DOMAIN users /\ users[u].session # None
  /\ users'[u].session.token = users[u].session.token

SessionsKeptOrEnded ==
  \A u \in DOMAIN users' : users'[u].session = None \/ SessionKept(u) \/ SameToken(u)

LEMMA CreateUserPreserves ==
  ASSUME AccountsInv, NEW dto \in CreateUserDto, CreateUser(dto)
  PROVE  AccountsInv' /\ SessionsKeptOrEnded
<1> DEFINE row == [email |-> dto.email, active |-> TRUE, trashed |-> FALSE, roles |-> dto.roles,
                   direct |-> << >>, session |-> None, reset |-> FALSE]
<1>1. /\ users' = Put(users, nextUser, row) /\ nextUser' = nextUser + 1
      /\ request' = Noted(nextUser, dto.roles)
      /\ UNCHANGED <<roles, permissions, nextRole, nextPermission>>
  BY DEF CreateUser, roleTables
<1>2. /\ users \in [DOMAIN users -> UserType] /\ DOMAIN users \subseteq Nat /\ nextUser \in Nat
      /\ DOMAIN roles \subseteq Nat
  BY DEF AccountsInv, AccountsTypeOK
<1>3. << >> \in Grants /\ DOMAIN << >> = {}
  <2>1. << >> \in [{} -> BOOLEAN]
    OBVIOUS
  <2> QED
    BY <2>1 DEF Grants
<1>4. row \in UserType /\ row.session = None /\ row.roles = dto.roles /\ row.direct = << >>
      /\ dto.roles \subseteq DOMAIN roles
  BY <1>2, <1>3 DEF CreateUserDto, UserType
<1> HIDE DEF row
<1>5. /\ DOMAIN users' = DOMAIN users \cup {nextUser} /\ users'[nextUser] = row
      /\ \A v \in DOMAIN users : v # nextUser => users'[v] = users[v]
      /\ users' \in [DOMAIN users' -> UserType]
  BY <1>1, <1>2, <1>4 DEF Put
<1>6. /\ request' \in [Admins -> RequestType]
      /\ \A e \in Admins :
           /\ request'[e].at = request[e].at /\ request'[e].id = request[e].id
           /\ request'[e].role = request[e].role /\ request'[e].dto = request[e].dto
           /\ request[e].late \subseteq request'[e].late
           /\ request[e].at = "removing role" /\ request[e].role \in dto.roles =>
                nextUser \in request'[e].late
  BY <1>1, <1>2, NotedFields
<1>7. AccountsTypeOK'
  <2>1. DOMAIN users' \subseteq Nat /\ nextUser' \in Nat
    BY <1>1, <1>2, <1>5
  <2> QED
    BY <1>1, <1>5, <1>6, <2>1 DEF AccountsInv, AccountsTypeOK
<1>8. RightsExist'
  BY <1>1, <1>3, <1>4, <1>5 DEF AccountsInv, RightsExist
<1>9. ManagedGivesNoRoles'
  BY <1>6 DEF AccountsInv, ManagedGivesNoRoles
<1>10. LatecomersNoted'
  BY <1>4, <1>5, <1>6, LatecomersStep DEF AccountsInv
<1>11. \A v : Ending(v) => Ending(v)'
  BY <1>6 DEF Ending
<1>12. ASSUME NEW v \in DOMAIN users'
       PROVE  users'[v].session = None \/ (SessionKept(v) /\ RightsCut(v))
  <2>1. CASE v = nextUser
    <3>1. users'[v] = row
      BY <1>5, <2>1
    <3> QED
      BY <1>4, <3>1
  <2>2. CASE v # nextUser
    <3>1. v \in DOMAIN users /\ users'[v] = users[v]
      BY <1>5, <2>2
    <3>2. RightsCut(v)
      BY <1>1, <3>1, RightsStay
    <3> QED
      BY <3>1, <3>2 DEF SessionKept
  <2> QED
    BY <2>1, <2>2
<1>13. RightsKnown' /\ SessionsKeepUpWithRights'
  BY <1>1, <1>7, <1>8, <1>11, <1>12, NoNewRows, SessionsStep
<1> QED
  BY <1>7, <1>8, <1>9, <1>10, <1>12, <1>13 DEF AccountsInv, SessionsKeptOrEnded

LEMMA WriteUserPreserves ==
  ASSUME AccountsInv, NEW e \in Admins, request[e].at \in {"idle", "managed"}, NEW u,
         NEW dto \in UpdateUserDto, WriteUser(e, u, dto)
  PROVE  AccountsInv' /\ SessionsKeptOrEnded
<1> DEFINE row == [users[u] EXCEPT !.email = Given(dto.email, users[u].email),
                                   !.active = Given(dto.active, users[u].active),
                                   !.roles = Given(dto.roles, users[u].roles)]
           noted == Noted(u, Given(dto.roles, {}) \ users[u].roles)
           then == IF dto.roles = None THEN Idle ELSE [Idle EXCEPT !.at = "ending session", !.id = u]
<1>1. /\ u \in DOMAIN users
      /\ users \in [DOMAIN users -> UserType] /\ DOMAIN users \subseteq Nat
      /\ DOMAIN roles \subseteq Nat /\ users[u] \in UserType /\ u \in Nat
      /\ users[u].roles \subseteq DOMAIN roles /\ DOMAIN users[u].direct \subseteq permissions
      /\ request \in [Admins -> RequestType]
  BY DEF WriteUser, AccountsInv, AccountsTypeOK, RightsExist
<1>2. /\ users' = [users EXCEPT ![u] = row]
      /\ request' = [noted EXCEPT ![e] = then]
      /\ UNCHANGED <<nextUser, roleTables>>
  BY <1>1 DEF WriteUser
<1>3. /\ dto.email \in Emails \cup {None} /\ dto.active \in BOOLEAN \cup {None}
      /\ dto.roles \in (SUBSET DOMAIN roles) \cup {None}
  BY DEF UpdateUserDto
<1>4. /\ Given(dto.email, users[u].email) \in Emails /\ Given(dto.active, users[u].active) \in BOOLEAN
      /\ Given(dto.roles, users[u].roles) \subseteq DOMAIN roles
      /\ Given(dto.roles, users[u].roles) \subseteq Nat
  <2>1. users[u].email \in Emails /\ users[u].active \in BOOLEAN
    BY <1>1 DEF UserType
  <2>2. Given(dto.email, users[u].email) \in Emails
    BY <1>3, <2>1 DEF Given
  <2>3. Given(dto.active, users[u].active) \in BOOLEAN
    BY <1>3, <2>1, Zenon DEF Given
  <2>4. Given(dto.roles, users[u].roles) \subseteq DOMAIN roles
    <3>1. CASE dto.roles = None
      BY <1>1, <3>1 DEF Given
    <3>2. CASE dto.roles # None
      BY <1>3, <3>2 DEF Given
    <3> QED
      BY <3>1, <3>2
  <2> QED
    BY <1>1, <2>2, <2>3, <2>4
<1>5. /\ row \in UserType /\ row.session = users[u].session /\ row.direct = users[u].direct
      /\ row.roles = Given(dto.roles, users[u].roles)
  BY <1>1, <1>4 DEF UserType
<1>6. /\ then \in RequestType /\ then.at # "removing role" /\ then.at # "managed"
      /\ IF dto.roles = None THEN then.at = "idle" ELSE then.at = "ending session" /\ then.id = u
  BY <1>1 DEF Idle, RequestType
<1>7. /\ noted \in [Admins -> RequestType]
      /\ \A q \in Admins :
           /\ noted[q].at = request[q].at /\ noted[q].id = request[q].id
           /\ noted[q].role = request[q].role /\ noted[q].dto = request[q].dto
           /\ request[q].late \subseteq noted[q].late
           /\ request[q].at = "removing role" /\ request[q].role \in Given(dto.roles, {}) \ users[u].roles =>
                u \in noted[q].late
  BY <1>1, NotedFields
<1> HIDE DEF row, noted, then
<1>8. \A q \in Admins : request'[q] = IF q = e THEN then ELSE noted[q]
  BY <1>2, <1>7
<1>9. request' \in [Admins -> RequestType] /\ ManagedGivesNoRoles'
  BY <1>2, <1>6, <1>7, <1>8 DEF AccountsInv, ManagedGivesNoRoles
<1>10. \A q \in Admins : request'[q].at = "removing role" =>
           /\ request[q].at = "removing role" /\ request[q].role = request'[q].role
           /\ request[q].late \subseteq request'[q].late
           /\ request'[q].role \in row.roles \ users[u].roles => u \in request'[q].late
  <2>1. row.roles \ users[u].roles \subseteq Given(dto.roles, {}) \ users[u].roles
    BY <1>5 DEF Given
  <2>2. \A r : r \in row.roles \ users[u].roles => r \in Given(dto.roles, {}) \ users[u].roles
    BY <2>1
  <2>3. ASSUME NEW q \in Admins, request'[q].at = "removing role"
        PROVE  /\ request[q].at = "removing role" /\ request[q].role = request'[q].role
               /\ request[q].late \subseteq request'[q].late
               /\ request'[q].role \in row.roles \ users[u].roles => u \in request'[q].late
    <3>1. request'[q] = noted[q]
      BY <1>6, <1>8, <2>3
    <3> QED
      BY <1>7, <2>2, <2>3, <3>1
  <2> QED
    BY <2>3
<1>11. /\ \A v : Ending(v) => Ending(v)'
       /\ dto.roles # None => Ending(u)'
  BY <1>6, <1>7, <1>8 DEF Ending
<1>12. dto.roles = None => row.roles = users[u].roles
  BY <1>5 DEF Given
<1>13. AccountsInv'
  <2>1. \/ row.session = users[u].session /\ Ending(u)'
        \/ /\ row.session = users[u].session /\ (Ending(u) => Ending(u)')
           /\ row.roles = users[u].roles /\ row.direct = users[u].direct
    BY <1>5, <1>11, <1>12
  <2>2. row.roles \subseteq DOMAIN roles /\ DOMAIN row.direct \subseteq permissions
    BY <1>1, <1>4, <1>5
  <2> QED
    BY <1>1, <1>2, <1>5, <1>9, <1>10, <1>11, <2>1, <2>2, RowEdited
<1>14. SessionsKeptOrEnded
  BY <1>1, <1>2, <1>5 DEF SessionsKeptOrEnded, SessionKept
<1> QED
  BY <1>13, <1>14

(* The session is ended, or its end has failed.                            *)
LEMMA EndingPreserves ==
  ASSUME AccountsInv, NEW e \in Admins, EndSessionAfterwards(e) \/ EndingFails(e)
  PROVE  AccountsInv' /\ SessionsKeptOrEnded
<1> DEFINE u == request[e].id
           row == IF EndSessionAfterwards(e) THEN EndSession(users[u]) ELSE GoesOn(users[u])
<1>1. /\ request[e].at = "ending session" /\ request' = [request EXCEPT ![e] = Idle]
      /\ users' = IF u \in DOMAIN users THEN [users EXCEPT ![u] = row] ELSE users
      /\ UNCHANGED <<nextUser, roleTables>>
  BY DEF EndSessionAfterwards, EndingFails
<1>2. /\ users \in [DOMAIN users -> UserType] /\ request \in [Admins -> RequestType]
      /\ u \in DOMAIN users => users[u] \in UserType
  BY DEF AccountsInv, AccountsTypeOK
<1>3. u \in DOMAIN users =>
        /\ row \in UserType /\ row.roles = users[u].roles /\ row.direct = users[u].direct
        /\ \/ row.session = None
           \/ /\ users[u].session # None /\ row.session.slipped
              /\ row.session.token = users[u].session.token
  BY <1>2, EndSessionTyped, GoesOnTyped
<1>4. Idle \in RequestType /\ Idle.at = "idle"
  BY DEF Idle, RequestType
<1> HIDE DEF row
<1>5. \A q \in Admins : request'[q] = IF q = e THEN Idle ELSE request[q]
  BY <1>1, <1>2
<1>6. request' \in [Admins -> RequestType] /\ ManagedGivesNoRoles'
  BY <1>1, <1>2, <1>4, <1>5 DEF AccountsInv, ManagedGivesNoRoles
<1>7. \A q \in Admins : request'[q].at = "removing role" => request'[q] = request[q]
  BY <1>4, <1>5
<1>8. \A v : v # u /\ Ending(v) => Ending(v)'
  BY <1>5 DEF Ending
<1>9. CASE u \in DOMAIN users
  <2>1. row.roles \subseteq DOMAIN roles /\ DOMAIN row.direct \subseteq permissions
    BY <1>3, <1>9 DEF AccountsInv, RightsExist
  <2>2. \A q \in Admins : request'[q].at = "removing role" =>
             /\ request[q].at = "removing role" /\ request[q].role = request'[q].role
             /\ request[q].late \subseteq request'[q].late
             /\ request'[q].role \in row.roles \ users[u].roles => u \in request'[q].late
    BY <1>3, <1>7, <1>9
  <2>3. users' = [users EXCEPT ![u] = row]
    BY <1>1, <1>9
  <2>4. AccountsInv'
    BY <1>1, <1>3, <1>6, <1>8, <1>9, <2>1, <2>2, <2>3, RowEdited
  <2>5. SessionsKeptOrEnded
    BY <1>2, <1>3, <1>9, <2>3 DEF SessionsKeptOrEnded, SessionKept, SameToken
  <2> QED
    BY <2>4, <2>5
<1>10. CASE u \notin DOMAIN users
  <2>1. UNCHANGED <<users, nextUser, roles, permissions, nextRole, nextPermission>>
    BY <1>1, <1>10 DEF roleTables
  <2>2. AccountsTypeOK'
    BY <1>6, <2>1 DEF AccountsInv, AccountsTypeOK
  <2>3. RightsExist' /\ RightsKnown'
    BY <2>1 DEF AccountsInv, RightsExist, RightsKnown
  <2>4. LatecomersNoted'
    BY <1>7, <2>1 DEF AccountsInv, LatecomersNoted
  <2>5. SessionsKeepUpWithRights'
    <3>1. \A v \in DOMAIN users : Ending(v) => Ending(v)'
      BY <1>8, <1>10
    <3> QED
      BY <2>1, <3>1 DEF AccountsInv, SessionsKeepUpWithRights, Ending
  <2> QED
    BY <1>6, <2>1, <2>2, <2>3, <2>4, <2>5 DEF AccountsInv, SessionsKeptOrEnded, SessionKept
<1> QED
  BY <1>9, <1>10

LEMMA SetUserPermissionPreserves ==
  ASSUME AccountsInv, NEW e \in Admins, NEW u \in DOMAIN users,
         NEW dto \in SetUserPermissionDto, SetUserPermission(e, u, dto)
  PROVE  AccountsInv' /\ SessionsKeptOrEnded
<1> DEFINE direct == IF dto.granted = None
                       THEN Only(users[u].direct, permissions \ {dto.permission})
                       ELSE Put(users[u].direct, dto.permission, dto.granted)
           row == [users[u] EXCEPT !.direct = direct]
           then == [Idle EXCEPT !.at = "ending session", !.id = u]
<1>1. /\ users \in [DOMAIN users -> UserType] /\ u \in Nat /\ permissions \subseteq Nat
      /\ users[u] \in UserType /\ users[u].direct \in Grants
      /\ users[u].roles \subseteq DOMAIN roles /\ DOMAIN users[u].direct \subseteq permissions
      /\ request \in [Admins -> RequestType]
  BY DEF AccountsInv, AccountsTypeOK, RightsExist, UserType
<1>2. /\ users' = [users EXCEPT ![u] = row] /\ request' = [request EXCEPT ![e] = then]
      /\ request[e].at = "idle" /\ UNCHANGED <<nextUser, roleTables>>
  BY <1>1 DEF SetUserPermission
<1>3. dto.permission \in permissions /\ dto.granted \in BOOLEAN \cup {None}
  BY DEF SetUserPermissionDto
<1>4. direct \in Grants /\ DOMAIN direct \subseteq permissions
  <2>1. CASE dto.granted = None
    BY <1>1, <2>1, OnlyTyped
  <2>2. CASE dto.granted # None
    <3>1. dto.granted \in BOOLEAN
      BY <1>3, <2>2, Zenon
    <3>2. dto.permission \in Nat
      BY <1>1, <1>3
    <3>3. /\ Put(users[u].direct, dto.permission, dto.granted) \in Grants
          /\ DOMAIN Put(users[u].direct, dto.permission, dto.granted)
               = DOMAIN users[u].direct \cup {dto.permission}
      BY <1>1, <3>1, <3>2, PutTyped, Zenon
    <3>4. direct = Put(users[u].direct, dto.permission, dto.granted)
      BY <2>2
    <3> HIDE DEF direct
    <3> QED
      BY <1>1, <1>3, <3>3, <3>4
  <2> QED
    BY <2>1, <2>2
<1> HIDE DEF direct
<1>5. /\ row \in UserType /\ row.session = users[u].session /\ row.roles = users[u].roles
      /\ row.direct = direct
  BY <1>1, <1>4 DEF UserType
<1>6. then \in RequestType /\ then.at = "ending session" /\ then.id = u
  BY <1>1 DEF Idle, RequestType
<1> HIDE DEF row, then
<1>7. \A q \in Admins : request'[q] = IF q = e THEN then ELSE request[q]
  BY <1>1, <1>2
<1>8. request' \in [Admins -> RequestType] /\ ManagedGivesNoRoles'
  BY <1>1, <1>2, <1>6, <1>7 DEF AccountsInv, ManagedGivesNoRoles
<1>9. \A q \in Admins : request'[q].at = "removing role" =>
        /\ request[q].at = "removing role" /\ request[q].role = request'[q].role
        /\ request[q].late \subseteq request'[q].late
        /\ request'[q].role \in row.roles \ users[u].roles => u \in request'[q].late
  BY <1>5, <1>6, <1>7
<1>10. Ending(u)' /\ \A v : Ending(v) => Ending(v)'
  BY <1>2, <1>6, <1>7 DEF Ending
<1>11. row.roles \subseteq DOMAIN roles /\ DOMAIN row.direct \subseteq permissions
  BY <1>1, <1>4, <1>5
<1>12. AccountsInv'
  BY <1>2, <1>5, <1>8, <1>9, <1>10, <1>11, RowEdited
<1>13. SessionsKeptOrEnded
  BY <1>1, <1>2, <1>5 DEF SessionsKeptOrEnded, SessionKept
<1> QED
  BY <1>12, <1>13

(* The request of a manager comes to an end, or no request takes part.     *)
RequestRests ==
  \/ request' = request
  \/ \E e \in Admins : request[e].at = "managed" /\ request' = [request EXCEPT ![e] = Idle]

LEMMA IdleTyped == Idle \in RequestType /\ Idle.at = "idle"
BY DEF Idle, RequestType

LEMMA RestingRequest ==
  ASSUME AccountsInv, RequestRests
  PROVE  /\ request' \in [Admins -> RequestType] /\ ManagedGivesNoRoles'
         /\ \A q \in Admins : request'[q].at = "removing role" => request'[q] = request[q]
         /\ \A v : Ending(v) => Ending(v)'
<1>1. request \in [Admins -> RequestType] /\ ManagedGivesNoRoles
  BY DEF AccountsInv, AccountsTypeOK
<1>2. CASE request' = request
  BY <1>1, <1>2 DEF ManagedGivesNoRoles, Ending
<1>3. ASSUME NEW e \in Admins, request[e].at = "managed", request' = [request EXCEPT ![e] = Idle]
      PROVE  /\ request' \in [Admins -> RequestType]
             /\ \A q \in Admins : request'[q] = IF q = e THEN Idle ELSE request[q]
  BY <1>1, <1>3, IdleTyped
<1>4. ASSUME NEW e \in Admins, request[e].at = "managed",
             \A q \in Admins : request'[q] = IF q = e THEN Idle ELSE request[q]
      PROVE  /\ ManagedGivesNoRoles'
             /\ \A q \in Admins : request'[q].at = "removing role" => request'[q] = request[q]
             /\ \A v : Ending(v) => Ending(v)'
  BY <1>1, <1>4, IdleTyped DEF ManagedGivesNoRoles, Ending
<1> QED
  BY <1>2, <1>3, <1>4 DEF RequestRests

LEMMA RightsCutPreserves ==
  ASSUME AccountsInv, AccountsTypeOK', ManagedGivesNoRoles',
         \A v \in DOMAIN users' : SessionKept(v) /\ RightsCut(v),
         UNCHANGED <<nextRole, nextPermission>>,
         DOMAIN roles' \subseteq DOMAIN roles, permissions' \subseteq permissions,
         \A q \in Admins : request'[q].at = "removing role" => request'[q] = request[q],
         \A v : Ending(v) => Ending(v)'
  PROVE  AccountsInv' /\ SessionsKeptOrEnded
<1>1. RightsExist'
  <2>1. ASSUME NEW v \in DOMAIN users'
        PROVE  users'[v].roles \subseteq DOMAIN roles' /\ DOMAIN users'[v].direct \subseteq permissions'
    <3>1. /\ users'[v].roles = users[v].roles \cap DOMAIN roles'
          /\ users'[v].direct = Only(users[v].direct, permissions')
      BY DEF RightsCut
    <3>2. DOMAIN Only(users[v].direct, permissions') \subseteq permissions'
      BY DEF Only
    <3> QED
      BY <3>1, <3>2
  <2> QED
    BY <2>1 DEF RightsExist
<1>2. RightsKnown' /\ SessionsKeepUpWithRights'
  BY <1>1, NoNewRows, SessionsStep
<1>3. LatecomersNoted'
  BY LatecomersStep DEF AccountsInv, RightsCut
<1> QED
  BY <1>1, <1>2, <1>3 DEF AccountsInv, SessionsKeptOrEnded

LEMMA TrashUserPreserves ==
  ASSUME AccountsInv, NEW u \in DOMAIN users, NEW trashed \in BOOLEAN, TrashUser(u, trashed),
         RequestRests
  PROVE  AccountsInv' /\ SessionsKeptOrEnded
<1> DEFINE row == [users[u] EXCEPT !.trashed = trashed]
<1>1. users \in [DOMAIN users -> UserType] /\ users[u] \in UserType
  BY DEF AccountsInv, AccountsTypeOK
<1>2. users' = [users EXCEPT ![u] = row] /\ UNCHANGED <<nextUser, roleTables>>
  BY <1>1 DEF TrashUser
<1>3. /\ row \in UserType /\ row.session = users[u].session /\ row.roles = users[u].roles
      /\ row.direct = users[u].direct
  BY <1>1 DEF UserType
<1> HIDE DEF row
<1>4. row.roles \subseteq DOMAIN roles /\ DOMAIN row.direct \subseteq permissions
  BY <1>3 DEF AccountsInv, RightsExist
<1>5. /\ request' \in [Admins -> RequestType] /\ ManagedGivesNoRoles'
      /\ \A q \in Admins : request'[q].at = "removing role" => request'[q] = request[q]
      /\ \A v : Ending(v) => Ending(v)'
  BY RestingRequest
<1>6. \A q \in Admins : request'[q].at = "removing role" =>
        /\ request[q].at = "removing role" /\ request[q].role = request'[q].role
        /\ request[q].late \subseteq request'[q].late
        /\ request'[q].role \in row.roles \ users[u].roles => u \in request'[q].late
  BY <1>3, <1>5
<1>7. AccountsInv'
  BY <1>2, <1>3, <1>4, <1>5, <1>6, RowEdited
<1>8. SessionsKeptOrEnded
  BY <1>1, <1>2, <1>3 DEF SessionsKeptOrEnded, SessionKept
<1> QED
  BY <1>7, <1>8

LEMMA HardDeleteUserPreserves ==
  ASSUME AccountsInv, NEW u \in DOMAIN users, HardDeleteUser(u), RequestRests
  PROVE  AccountsInv' /\ SessionsKeptOrEnded
<1>1. /\ users' = Only(users, DOMAIN users \ {u})
      /\ UNCHANGED <<nextUser, roles, permissions, nextRole, nextPermission>>
  BY DEF HardDeleteUser, roleTables
<1>2. /\ DOMAIN users' \subseteq DOMAIN users
      /\ \A v \in DOMAIN users' : users'[v] = users[v]
      /\ users' = [v \in DOMAIN users' |-> users'[v]]
  BY <1>1 DEF Only
<1>3. /\ request' \in [Admins -> RequestType] /\ ManagedGivesNoRoles'
      /\ \A q \in Admins : request'[q].at = "removing role" => request'[q] = request[q]
      /\ \A v : Ending(v) => Ending(v)'
  BY RestingRequest
<1>4. AccountsTypeOK'
  BY <1>1, <1>2, <1>3 DEF AccountsInv, AccountsTypeOK
<1>5. \A v \in DOMAIN users' : SessionKept(v) /\ RightsCut(v)
  BY <1>1, <1>2, RightsStay DEF SessionKept
<1> QED
  BY <1>1, <1>3, <1>4, <1>5, RightsCutPreserves

LEMMA DoManagedPreserves ==
  ASSUME AccountsInv, NEW e \in Admins, DoManaged(e)
  PROVE  AccountsInv' /\ SessionsKeptOrEnded
<1> DEFINE u == request[e].id
           dto == request[e].dto
<1>1. request[e].at = "managed" /\ u \in DOMAIN users
  BY DEF DoManaged
<1>2. CASE dto.op = "update" /\ WriteUser(e, u, dto.fields)
  <2>1. dto.fields \in FieldsType
    BY <1>1, <1>2 DEF AccountsInv, ManagedGivesNoRoles
  <2>2. FieldsType \subseteq UpdateUserDto
    BY DEF FieldsType, UpdateUserDto
  <2> QED
    BY <1>1, <1>2, <2>1, <2>2, WriteUserPreserves
<1>3. CASE /\ TrashUser(u, TRUE) \/ TrashUser(u, FALSE) \/ HardDeleteUser(u)
           /\ request' = [request EXCEPT ![e] = Idle]
  <2>1. RequestRests
    BY <1>1, <1>3 DEF RequestRests
  <2> QED
    BY <1>1, <1>3, <2>1, TrashUserPreserves, HardDeleteUserPreserves
<1> QED
  BY <1>2, <1>3 DEF DoManaged

-----------------------------------------------------------------------------
(* Requests that check first and write afterwards.                         *)
LEMMA StartsPreserve ==
  ASSUME AccountsInv, NEW e \in Admins,
         \/ \E c, u \in DOMAIN users : \E dto \in ManagedDto : StartManaged(e, c, u, dto)
         \/ \E r \in DOMAIN roles : StartRemoveRole(e, r)
         \/ \E p \in permissions : StartRemovePermission(e, p)
         \/ ManagedFails(e)
  PROVE  AccountsInv' /\ SessionsKeptOrEnded
<1>1. DOMAIN users \subseteq Nat /\ DOMAIN roles \subseteq Nat /\ permissions \subseteq Nat
  BY DEF AccountsInv, AccountsTypeOK
<1>2. ASSUME UNCHANGED <<userTables, roleTables>> PROVE SessionsKeptOrEnded
  BY <1>2 DEF userTables, SessionsKeptOrEnded, SessionKept
<1>3. ASSUME NEW c, NEW u \in DOMAIN users, NEW dto \in ManagedDto, StartManaged(e, c, u, dto)
      PROVE  AccountsInv' /\ SessionsKeptOrEnded
  <2> DEFINE x == [Idle EXCEPT !.at = "managed", !.id = u, !.dto = dto]
  <2>1. /\ request' = [request EXCEPT ![e] = x] /\ UNCHANGED <<userTables, roleTables>>
        /\ request[e].at = "idle"
    BY <1>3 DEF StartManaged
  <2>2. UpdateManagedUserDto \subseteq FieldsType
    BY DEF UpdateManagedUserDto, UpdateUserDto, FieldsType
  <2>3. dto \in ManagedType /\ (dto.op = "update" => dto.fields \in FieldsType)
    <3>1. CASE dto \in [op : {"update"}, fields : UpdateManagedUserDto]
      BY <2>2, <3>1 DEF ManagedType
    <3>2. CASE dto \in [op : {"trash", "restore", "hard delete"}, fields : {None}]
      BY <3>2 DEF ManagedType
    <3> QED
      BY <3>1, <3>2 DEF ManagedDto
  <2>4. x \in RequestType /\ x.at = "managed" /\ x.dto = dto
    BY <1>1, <2>3 DEF Idle, RequestType
  <2> HIDE DEF x
  <2> QED
    BY <1>2, <2>1, <2>3, <2>4, RequestOnly
<1>4. ASSUME NEW r \in DOMAIN roles, StartRemoveRole(e, r)
      PROVE  AccountsInv' /\ SessionsKeptOrEnded
  <2> DEFINE x == [Idle EXCEPT !.at = "removing role", !.role = r]
  <2>1. /\ request' = [request EXCEPT ![e] = x] /\ UNCHANGED <<userTables, roleTables>>
        /\ request[e].at = "idle" /\ ~HasUsers(r)
    BY <1>4 DEF StartRemoveRole
  <2>2. x \in RequestType /\ x.at = "removing role" /\ x.role = r
    BY <1>1 DEF Idle, RequestType
  <2> HIDE DEF x
  <2> QED
    BY <1>2, <2>1, <2>2, RequestOnly
<1>5. ASSUME NEW p \in permissions, StartRemovePermission(e, p)
      PROVE  AccountsInv' /\ SessionsKeptOrEnded
  <2> DEFINE x == [Idle EXCEPT !.at = "removing permission", !.id = p]
  <2>1. /\ request' = [request EXCEPT ![e] = x] /\ UNCHANGED <<userTables, roleTables>>
        /\ request[e].at = "idle"
    BY <1>5 DEF StartRemovePermission
  <2>2. x \in RequestType /\ x.at = "removing permission"
    BY <1>1 DEF Idle, RequestType
  <2> HIDE DEF x
  <2> QED
    BY <1>2, <2>1, <2>2, RequestOnly
<1>6. CASE ManagedFails(e)
  BY <1>2, <1>6, IdleTyped, RequestOnly DEF ManagedFails
<1> QED
  BY <1>3, <1>4, <1>5, <1>6

(* Roles, permissions and pairings are made and written.                   *)
LEMMA RoleTablesPreserve ==
  ASSUME AccountsInv,
         \/ \E ps \in SUBSET permissions :
              CreateRole(ps) \/ \E r \in DOMAIN roles : SetPermissions(r, ps)
         \/ CreatePermission \/ PairingRoutes
  PROVE  AccountsInv' /\ SessionsKeptOrEnded
<1>1. /\ roles \in [DOMAIN roles -> SUBSET Nat] /\ DOMAIN roles \subseteq 1 .. nextRole - 1
      /\ permissions \subseteq 1 .. nextPermission - 1
      /\ nextRole \in Nat \ {0} /\ nextPermission \in Nat \ {0}
  BY DEF AccountsInv, AccountsTypeOK
<1>2. ASSUME UNCHANGED userTables PROVE SessionsKeptOrEnded
  BY <1>2 DEF userTables, SessionsKeptOrEnded, SessionKept
<1>3. ASSUME NEW ps \in SUBSET permissions, CreateRole(ps)
      PROVE  AccountsInv' /\ SessionsKeptOrEnded
  <2>1. /\ roles' = Put(roles, nextRole, ps) /\ nextRole' = nextRole + 1
        /\ UNCHANGED <<userTables, permissions, nextPermission, request>>
    BY <1>3 DEF CreateRole
  <2>2. /\ DOMAIN roles' = DOMAIN roles \cup {nextRole} /\ roles' \in [DOMAIN roles' -> SUBSET Nat]
    BY <1>1, <2>1 DEF Put
  <2>3. DOMAIN roles' \subseteq 1 .. nextRole' - 1 /\ nextRole' \in Nat \ {0} /\ OnlyNewRows
    BY <1>1, <2>1, <2>2 DEF OnlyNewRows
  <2> QED
    BY <1>1, <1>2, <2>1, <2>2, <2>3, RoleTablesOnly
<1>4. ASSUME NEW ps \in SUBSET permissions, NEW r \in DOMAIN roles, SetPermissions(r, ps)
      PROVE  AccountsInv' /\ SessionsKeptOrEnded
  <2>1. /\ roles' = [roles EXCEPT ![r] = ps]
        /\ UNCHANGED <<userTables, permissions, nextRole, nextPermission, request>>
    BY <1>4 DEF SetPermissions
  <2>2. DOMAIN roles' = DOMAIN roles /\ roles' \in [DOMAIN roles' -> SUBSET Nat] /\ OnlyNewRows
    BY <1>1, <2>1, NoNewRows
  <2> QED
    BY <1>1, <1>2, <2>1, <2>2, RoleTablesOnly
<1>5. CASE CreatePermission
  <2>1. /\ permissions' = permissions \cup {nextPermission} /\ nextPermission' = nextPermission + 1
        /\ UNCHANGED <<userTables, roles, nextRole, request>>
    BY <1>5 DEF CreatePermission
  <2>2. permissions' \subseteq 1 .. nextPermission' - 1 /\ nextPermission' \in Nat \ {0} /\ OnlyNewRows
    BY <1>1, <2>1 DEF OnlyNewRows
  <2> QED
    BY <1>1, <1>2, <2>1, <2>2, RoleTablesOnly
<1>6. CASE PairingRoutes
  <2>1. UNCHANGED <<userTables, roles, permissions, nextRole, nextPermission, request>>
    BY <1>6 DEF PairingRoutes, CreatePairing, RemovePairing
  <2> QED
    BY <1>1, <1>2, <2>1, NoNewRows, RoleTablesOnly
<1> QED
  BY <1>3, <1>4, <1>5, <1>6

LEMMA RemoveRolePreserves ==
  ASSUME AccountsInv, NEW e \in Admins, RemoveRole(e)
  PROVE  AccountsInv' /\ SessionsKeptOrEnded
<1> DEFINE r == request[e].role
<1>1. /\ request[e].at = "removing role"
      /\ roles' = Only(roles, DOMAIN roles \ {r})
      /\ users' = [u \in DOMAIN users |-> WithoutRole(users[u], r)]
      /\ request' = [request EXCEPT ![e] = Idle]
      /\ UNCHANGED <<nextUser, permissions, nextRole, nextPermission>>
  BY DEF RemoveRole
<1>2. /\ users \in [DOMAIN users -> UserType] /\ request \in [Admins -> RequestType]
      /\ roles \in [DOMAIN roles -> SUBSET Nat]
      /\ \A u \in DOMAIN users : /\ users[u].direct \in Grants /\ users[u].roles \subseteq DOMAIN roles
                                 /\ DOMAIN users[u].direct \subseteq permissions
  BY DEF AccountsInv, AccountsTypeOK, RightsExist, UserType
<1>3. DOMAIN roles' = DOMAIN roles \ {r} /\ roles' \in [DOMAIN roles' -> SUBSET Nat]
  BY <1>1, <1>2 DEF Only
<1>4. \A u \in DOMAIN users :
        LET x == WithoutRole(users[u], r) IN
          /\ x \in UserType /\ x.session = users[u].session /\ x.direct = users[u].direct
          /\ x.roles = users[u].roles \ {r}
  BY <1>2 DEF WithoutRole, UserType
<1>5. DOMAIN users' = DOMAIN users /\ users' \in [DOMAIN users' -> UserType]
  BY <1>1, <1>4
<1>6. ASSUME NEW u \in DOMAIN users' PROVE SessionKept(u) /\ RightsCut(u)
  <2>1. Only(users[u].direct, permissions) = users[u].direct
    BY <1>2, <1>5, OnlyAll
  <2>2. users'[u] = WithoutRole(users[u], r)
    BY <1>1, <1>5
  <2>3. users'[u].roles = users[u].roles \cap DOMAIN roles'
    BY <1>2, <1>3, <1>4, <1>5, <2>2
  <2> QED
    BY <1>1, <1>4, <1>5, <2>1, <2>2, <2>3 DEF SessionKept, RightsCut
<1>7. \A q \in Admins : request'[q] = IF q = e THEN Idle ELSE request[q]
  BY <1>1, <1>2
<1>8. /\ request' \in [Admins -> RequestType] /\ ManagedGivesNoRoles'
      /\ \A q \in Admins : request'[q].at = "removing role" => request'[q] = request[q]
      /\ \A v : Ending(v) => Ending(v)'
  BY <1>1, <1>2, <1>7, IdleTyped DEF AccountsInv, ManagedGivesNoRoles, Ending
<1>9. AccountsTypeOK'
  BY <1>1, <1>3, <1>5, <1>8 DEF AccountsInv, AccountsTypeOK
<1> QED
  BY <1>1, <1>3, <1>6, <1>8, <1>9, RightsCutPreserves

LEMMA RemovePermissionPreserves ==
  ASSUME AccountsInv, NEW e \in Admins, RemovePermission(e)
  PROVE  AccountsInv' /\ SessionsKeptOrEnded
<1> DEFINE p == request[e].id
<1>1. /\ request[e].at = "removing permission"
      /\ permissions' = permissions \ {p}
      /\ roles' = [r \in DOMAIN roles |-> roles[r] \ {p}]
      /\ users' = [u \in DOMAIN users |-> WithoutPermission(users[u], p)]
      /\ request' = [request EXCEPT ![e] = Idle]
      /\ UNCHANGED <<nextUser, nextRole, nextPermission>>
  BY DEF RemovePermission
<1>2. /\ users \in [DOMAIN users -> UserType] /\ request \in [Admins -> RequestType]
      /\ roles \in [DOMAIN roles -> SUBSET Nat] /\ permissions \subseteq 1 .. nextPermission - 1
      /\ \A u \in DOMAIN users : users[u].direct \in Grants /\ users[u].roles \subseteq DOMAIN roles
  BY DEF AccountsInv, AccountsTypeOK, RightsExist, UserType
<1>3. DOMAIN roles' = DOMAIN roles /\ roles' \in [DOMAIN roles' -> SUBSET Nat]
  BY <1>1, <1>2
<1>4. \A u \in DOMAIN users : Only(users[u].direct, permissions') \in Grants
  BY <1>2, OnlyTyped
<1>5. \A u \in DOMAIN users :
        LET x == WithoutPermission(users[u], p) IN
          /\ x \in UserType /\ x.session = users[u].session
          /\ x.direct = Only(users[u].direct, permissions') /\ x.roles = users[u].roles
  BY <1>1, <1>2, <1>4 DEF WithoutPermission, UserType
<1>6. /\ DOMAIN users' = DOMAIN users /\ users' \in [DOMAIN users' -> UserType]
      /\ \A u \in DOMAIN users : users'[u] = WithoutPermission(users[u], p)
  BY <1>1, <1>5
<1>7. \A u \in DOMAIN users' : SessionKept(u) /\ RightsCut(u)
  BY <1>2, <1>3, <1>5, <1>6 DEF SessionKept, RightsCut
<1>8. \A q \in Admins : request'[q] = IF q = e THEN Idle ELSE request[q]
  BY <1>1, <1>2
<1>9. /\ request' \in [Admins -> RequestType] /\ ManagedGivesNoRoles'
      /\ \A q \in Admins : request'[q].at = "removing role" => request'[q] = request[q]
      /\ \A v : Ending(v) => Ending(v)'
  BY <1>1, <1>2, <1>8, IdleTyped DEF AccountsInv, ManagedGivesNoRoles, Ending
<1>10. AccountsTypeOK'
  BY <1>1, <1>2, <1>3, <1>6, <1>9 DEF AccountsInv, AccountsTypeOK
<1> QED
  BY <1>1, <1>3, <1>7, <1>9, <1>10, RightsCutPreserves

LEMMA AccountsKept ==
  ASSUME AccountsInv, AccountsNext
  PROVE  AccountsInv' /\ SessionsKeptOrEnded
<1>1. CASE PairingRoutes
  BY <1>1, RoleTablesPreserve
<1>2. ASSUME NEW e \in Admins, UserRoutes(e) PROVE AccountsInv' /\ SessionsKeptOrEnded
  BY <1>2, CreateUserPreserves, WriteUserPreserves, SetUserPermissionPreserves,
     TrashUserPreserves, HardDeleteUserPreserves DEF UserRoutes, RequestRests
<1>3. ASSUME NEW e \in Admins, ManagedRoutes(e) PROVE AccountsInv' /\ SessionsKeptOrEnded
  <2>1. ASSUME NEW c \in DOMAIN users, NEW m \in Emails, NEW r \in DOMAIN roles,
               CreateManaged(e, c, m, r)
        PROVE  AccountsInv' /\ SessionsKeptOrEnded
    BY <2>1, CreateUserPreserves DEF CreateManaged, CreateUserDto
  <2> QED
    BY <1>3, <2>1, StartsPreserve, DoManagedPreserves DEF ManagedRoutes
<1>4. ASSUME NEW e \in Admins, RoleRoutes(e) \/ PermissionRoutes(e)
      PROVE  AccountsInv' /\ SessionsKeptOrEnded
  BY <1>4, RoleTablesPreserve, StartsPreserve, RemoveRolePreserves, RemovePermissionPreserves
     DEF RoleRoutes, PermissionRoutes
<1> QED
  BY <1>1, <1>2, <1>3, <1>4, EndingPreserves DEF AccountsNext

-----------------------------------------------------------------------------
(* The browser.                                                            *)
CookieType == [user : Nat, token : Nat]
TabType ==
  [at : {"idle", "read", "answered"}, ask : {None, "login", "refresh", "reset"}, user : Nat,
   rights : RightsType \cup {None}, token : Nat, alone : BOOLEAN]

BrowserTypeOK ==
  /\ period \in Nat
  /\ cookies \in [access : Nat, refresh : CookieType \cup {None}]
  /\ tab \in [Tabs -> TabType]
  /\ apart \in BOOLEAN

(* The session of user u, if there is one, is of this token.               *)
Fits(u, token) ==
  u \in DOMAIN users => users[u].session = None \/ users[u].session.token = token

Signing(t) == tab[t].at # "idle" /\ tab[t].ask # "reset"

(* A login or refresh that counts as alone has no other one beside it, its *)
(* session is its own until its answer comes, and while none is past its   *)
(* write the session is that of the cookie, unless requests crossed.       *)
AloneIsAlone ==
  \A t \in Tabs : Signing(t) /\ tab[t].alone => \A o \in Tabs : Signing(o) => o = t
ApartUnlessAlone == \A t \in Tabs : Signing(t) /\ ~tab[t].alone => apart
AnsweredSigns == \A t \in Tabs : tab[t].at = "answered" => tab[t].ask \in {"login", "refresh"}
AnswerFits ==
  \A t \in Tabs : tab[t].at = "answered" /\ tab[t].alone => Fits(tab[t].user, tab[t].token)
CookieFits ==
  \/ apart \/ cookies.refresh = None \/ \E t \in Tabs : tab[t].at = "answered"
  \/ Fits(cookies.refresh.user, cookies.refresh.token)

BrowserInv ==
  /\ BrowserTypeOK /\ AloneIsAlone /\ ApartUnlessAlone /\ AnsweredSigns
  /\ AnswerFits /\ CookieFits

AuthInv == AccountsInv /\ BrowserInv

FitsAfterwards(u, token) ==
  u \in DOMAIN users' => users'[u].session = None \/ users'[u].session.token = token

LEMMA FitsOn ==
  ASSUME SessionsKeptOrEnded, NEW u, NEW token, Fits(u, token)
  PROVE  FitsAfterwards(u, token)
BY DEF SessionsKeptOrEnded, SessionKept, SameToken, Fits, FitsAfterwards

(* Steps after which no tab has gone on and no session is new.             *)
LEMMA BrowserRests ==
  ASSUME BrowserInv, SessionsKeptOrEnded, UNCHANGED <<tab, apart>>, BrowserTypeOK',
         cookies'.refresh = cookies.refresh \/ cookies'.refresh = None
  PROVE  BrowserInv'
<1>1. AloneIsAlone' /\ ApartUnlessAlone' /\ AnsweredSigns'
  BY DEF BrowserInv, AloneIsAlone, ApartUnlessAlone, AnsweredSigns, Signing
<1>2. AnswerFits'
  <2>1. ASSUME NEW t \in Tabs, tab'[t].at = "answered", tab'[t].alone
        PROVE  FitsAfterwards(tab'[t].user, tab'[t].token)
    <3>1. Fits(tab[t].user, tab[t].token)
      BY <2>1 DEF BrowserInv, AnswerFits
    <3> QED
      BY <3>1, FitsOn
  <2> QED
    BY <2>1 DEF AnswerFits, Fits, FitsAfterwards
<1>3. CookieFits'
  <2>1. CASE Fits(cookies.refresh.user, cookies.refresh.token) /\ cookies'.refresh = cookies.refresh
    BY <2>1, FitsOn DEF CookieFits, Fits, FitsAfterwards
  <2>2. CASE \/ apart \/ cookies.refresh = None \/ cookies'.refresh = None
             \/ \E t \in Tabs : tab[t].at = "answered"
    BY <2>2 DEF CookieFits
  <2> QED
    BY <2>1, <2>2 DEF BrowserInv, CookieFits
<1> QED
  BY <1>1, <1>2, <1>3 DEF BrowserInv

(* A tab other than t goes on as before.                                   *)
TabMoves(t, x) ==
  tab' = [tab EXCEPT ![t] = x]

LEMMA RestingTyped == Resting \in TabType /\ Resting.at = "idle"
BY DEF Resting, TabType

(* A tab comes to rest.                                                    *)
LEMMA TabRests ==
  ASSUME BrowserInv, SessionsKeptOrEnded, NEW t \in Tabs, TabMoves(t, Resting),
         UNCHANGED period, cookies' = cookies, apart' \in BOOLEAN, apart => apart',
         tab[t].at = "answered" => apart'
  PROVE  BrowserInv'
<1>1. /\ tab' = [tab EXCEPT ![t] = Resting] /\ tab \in [Tabs -> TabType]
      /\ Resting \in TabType /\ Resting.at = "idle"
  BY RestingTyped DEF TabMoves, BrowserInv, BrowserTypeOK
<1>2. \A o \in Tabs : tab'[o] = IF o = t THEN Resting ELSE tab[o]
  BY <1>1
<1>3. BrowserTypeOK'
  <2>1. tab' \in [Tabs -> TabType]
    BY <1>1
  <2> QED
    BY <2>1 DEF BrowserInv, BrowserTypeOK
<1>4. \A o \in Tabs : tab'[o].at # "idle" => o # t /\ tab'[o] = tab[o]
  BY <1>1, <1>2
<1>5. AloneIsAlone' /\ ApartUnlessAlone' /\ AnsweredSigns'
  BY <1>4 DEF BrowserInv, AloneIsAlone, ApartUnlessAlone, AnsweredSigns, Signing
<1>6. AnswerFits'
  <2>1. ASSUME NEW o \in Tabs, tab'[o].at = "answered", tab'[o].alone
        PROVE  FitsAfterwards(tab'[o].user, tab'[o].token)
    <3>1. tab'[o] = tab[o]
      BY <1>4, <2>1
    <3>2. Fits(tab[o].user, tab[o].token)
      BY <2>1, <3>1 DEF BrowserInv, AnswerFits
    <3> QED
      BY <3>1, <3>2, FitsOn
  <2> QED
    BY <2>1 DEF AnswerFits, Fits, FitsAfterwards
<1>7. CookieFits'
  <2>1. CASE Fits(cookies.refresh.user, cookies.refresh.token)
    BY <2>1, FitsOn DEF CookieFits, Fits, FitsAfterwards
  <2>2. CASE apart' \/ cookies.refresh = None
    BY <2>2 DEF CookieFits
  <2>3. CASE \E o \in Tabs : tab[o].at = "answered" /\ o # t
    <3>1. PICK o \in Tabs : tab[o].at = "answered" /\ o # t
      BY <2>3
    <3>2. tab'[o].at = "answered"
      BY <1>2, <3>1
    <3> QED
      BY <3>2 DEF CookieFits
  <2> QED
    BY <2>1, <2>2, <2>3 DEF BrowserInv, CookieFits
<1> QED
  BY <1>3, <1>5, <1>6, <1>7 DEF BrowserInv

LEMMA AccountsSame ==
  ASSUME AccountsInv, UNCHANGED accountVars
  PROVE  AccountsInv' /\ SessionsKeptOrEnded
<1>1. UNCHANGED <<users, nextUser, roles, permissions, nextRole, nextPermission, request>>
  BY DEF accountVars, userTables, roleTables
<1>2. AccountsTypeOK'
  BY <1>1 DEF AccountsInv, AccountsTypeOK
<1>3. RightsExist' /\ RightsKnown' /\ ManagedGivesNoRoles' /\ LatecomersNoted'
  BY <1>1 DEF AccountsInv, RightsExist, RightsKnown, ManagedGivesNoRoles, LatecomersNoted
<1>4. SessionsKeepUpWithRights'
  BY <1>1 DEF AccountsInv, SessionsKeepUpWithRights
<1> QED
  BY <1>1, <1>2, <1>3, <1>4 DEF AccountsInv, SessionsKeptOrEnded, SessionKept

-----------------------------------------------------------------------------
(* Steps of the tabs.                                                      *)
LEMMA AsksPreserves ==
  ASSUME AuthInv, NEW t \in Tabs, NEW ask \in {"login", "refresh"}, NEW u \in DOMAIN users,
         Asks(t, ask, u)
  PROVE  AuthInv'
<1> DEFINE others == {o \in Tabs \ {t} : tab[o].at # "idle"}
           x == [Resting EXCEPT !.at = "read", !.ask = ask, !.user = u,
                                !.rights = Rights(u), !.alone = others = {}]
<1>1. /\ tab' = [o \in Tabs |->
           IF o = t THEN x ELSE IF o \in others THEN [tab[o] EXCEPT !.alone = FALSE] ELSE tab[o]]
      /\ apart' = (apart \/ others # {})
      /\ UNCHANGED <<accountVars, period, cookies>> /\ tab[t].at = "idle"
  BY DEF Asks
<1>2. AccountsInv' /\ SessionsKeptOrEnded
  BY <1>1, AccountsSame DEF AuthInv
<1>3. tab \in [Tabs -> TabType] /\ apart \in BOOLEAN
  BY DEF AuthInv, BrowserInv, BrowserTypeOK
<1>4. Rights(u) \in RightsType /\ u \in Nat
  BY DEF AuthInv, AccountsInv, AccountsTypeOK, Rights, RightsType, UserType
<1>5. x \in TabType /\ x.at = "read" /\ x.ask = ask /\ (x.alone <=> others = {})
  BY <1>4 DEF Resting, TabType
<1> HIDE DEF x
<1>6. /\ tab'[t] = x
      /\ \A o \in Tabs \ {t} : tab[o].at = "idle" => tab'[o] = tab[o]
      /\ \A o \in Tabs \ {t} : tab[o].at # "idle" =>
           /\ tab'[o].at = tab[o].at /\ tab'[o].ask = tab[o].ask /\ tab'[o].alone = FALSE
           /\ tab'[o] \in TabType
  <2>1. ASSUME NEW o \in Tabs, o # t, tab[o].at # "idle"
        PROVE  /\ tab'[o].at = tab[o].at /\ tab'[o].ask = tab[o].ask /\ tab'[o].alone = FALSE
               /\ tab'[o] \in TabType
    <3>1. tab[o] \in TabType /\ tab'[o] = [tab[o] EXCEPT !.alone = FALSE]
      BY <1>1, <1>3, <2>1
    <3> QED
      BY <3>1 DEF TabType
  <2> QED
    BY <1>1, <2>1
<1>7. tab' \in [Tabs -> TabType]
  <2>1. \A o \in Tabs : tab'[o] \in TabType
    BY <1>3, <1>5, <1>6
  <2> QED
    BY <1>1, <2>1
<1>8. BrowserTypeOK'
  <2>1. apart' \in BOOLEAN
    BY <1>1
  <2> QED
    BY <1>1, <1>7, <2>1 DEF AuthInv, BrowserInv, BrowserTypeOK
<1>9. AloneIsAlone'
  <2>1. ASSUME NEW p \in Tabs, Signing(p)', tab'[p].alone, NEW o \in Tabs, Signing(o)'
        PROVE  o = p
    <3>1. p = t /\ x.alone
      BY <1>6, <2>1 DEF Signing
    <3>2. \A q \in Tabs \ {t} : tab[q].at = "idle"
      BY <1>5, <3>1
    <3> QED
      BY <1>6, <2>1, <3>1, <3>2 DEF Signing
  <2> QED
    BY <2>1 DEF AloneIsAlone, Signing
<1>10. ApartUnlessAlone'
  <2>1. ASSUME NEW p \in Tabs, Signing(p)', ~tab'[p].alone PROVE others # {}
    <3>1. CASE p = t
      BY <1>5, <1>6, <2>1, <3>1
    <3>2. CASE p # t
      BY <1>6, <2>1, <3>2 DEF Signing
    <3> QED
      BY <3>1, <3>2
  <2> QED
    BY <1>1, <2>1 DEF ApartUnlessAlone, Signing
<1>11. AnsweredSigns'
  BY <1>5, <1>6 DEF AuthInv, BrowserInv, AnsweredSigns
<1>12. AnswerFits'
  BY <1>5, <1>6 DEF AnswerFits
<1>13. CookieFits'
  <2>1. CASE Fits(cookies.refresh.user, cookies.refresh.token)
    BY <1>1, <1>2, <2>1, FitsOn DEF CookieFits, Fits, FitsAfterwards
  <2>2. CASE apart \/ cookies.refresh = None
    BY <1>1, <2>2 DEF CookieFits
  <2>3. CASE \E o \in Tabs : tab[o].at = "answered"
    <3>1. others # {}
      BY <1>1, <2>3
    <3> QED
      BY <1>1, <3>1 DEF CookieFits
  <2> QED
    BY <2>1, <2>2, <2>3 DEF AuthInv, BrowserInv, CookieFits
<1> QED
  BY <1>2, <1>8, <1>9, <1>10, <1>11, <1>12, <1>13 DEF AuthInv, BrowserInv

LEMMA StartResetPreserves ==
  ASSUME AuthInv, NEW t \in Tabs, StartReset(t)
  PROVE  AuthInv'
<1>1. PICK u \in DOMAIN users :
        tab' = [tab EXCEPT ![t] = [Resting EXCEPT !.at = "read", !.ask = "reset", !.user = u]]
  BY DEF StartReset
<1> DEFINE x == [Resting EXCEPT !.at = "read", !.ask = "reset", !.user = u]
<1>2. UNCHANGED <<accountVars, period, cookies, apart>> /\ tab[t].at = "idle"
  BY DEF StartReset
<1>3. AccountsInv' /\ SessionsKeptOrEnded
  BY <1>2, AccountsSame DEF AuthInv
<1>4. tab \in [Tabs -> TabType] /\ u \in Nat
  BY DEF AuthInv, BrowserInv, BrowserTypeOK, AccountsInv, AccountsTypeOK
<1>5. x \in TabType /\ x.at = "read" /\ x.ask = "reset"
  BY <1>4 DEF Resting, TabType
<1>6. tab' = [tab EXCEPT ![t] = x]
  BY <1>1
<1> HIDE DEF x
<1>7. \A o \in Tabs : tab'[o] = IF o = t THEN x ELSE tab[o]
  BY <1>4, <1>6
<1>8. BrowserTypeOK'
  <2>1. tab' \in [Tabs -> TabType]
    BY <1>4, <1>5, <1>6
  <2> QED
    BY <1>2, <2>1 DEF AuthInv, BrowserInv, BrowserTypeOK
<1>9. \A o \in Tabs : /\ Signing(o)' => Signing(o) /\ tab'[o] = tab[o]
                      /\ tab'[o].at = "answered" => tab'[o] = tab[o]
                      /\ tab[o].at = "answered" => tab'[o] = tab[o]
  BY <1>2, <1>5, <1>7 DEF Signing
<1>10. AloneIsAlone' /\ ApartUnlessAlone' /\ AnsweredSigns'
  <2>1. AloneIsAlone /\ ApartUnlessAlone /\ AnsweredSigns
    BY DEF AuthInv, BrowserInv
  <2>2. \A p, o \in Tabs : Signing(p)' /\ tab'[p].alone /\ Signing(o)' => o = p
    BY <1>9, <2>1 DEF AloneIsAlone
  <2>3. \A p \in Tabs : Signing(p)' /\ ~tab'[p].alone => apart'
    BY <1>2, <1>9, <2>1 DEF ApartUnlessAlone
  <2> QED
    BY <1>9, <2>1, <2>2, <2>3 DEF AloneIsAlone, ApartUnlessAlone, AnsweredSigns
<1>11. AnswerFits'
  <2>1. ASSUME NEW o \in Tabs, tab'[o].at = "answered", tab'[o].alone
        PROVE  FitsAfterwards(tab'[o].user, tab'[o].token)
    <3>1. Fits(tab[o].user, tab[o].token) /\ tab'[o] = tab[o]
      BY <1>9, <2>1 DEF AuthInv, BrowserInv, AnswerFits
    <3> QED
      BY <1>3, <3>1, FitsOn
  <2> QED
    BY <2>1 DEF AnswerFits, Fits, FitsAfterwards
<1>12. CookieFits'
  <2>1. CASE Fits(cookies.refresh.user, cookies.refresh.token)
    BY <1>2, <1>3, <2>1, FitsOn DEF CookieFits, Fits, FitsAfterwards
  <2>2. CASE apart \/ cookies.refresh = None \/ \E o \in Tabs : tab[o].at = "answered"
    BY <1>2, <1>9, <2>2 DEF CookieFits
  <2> QED
    BY <2>1, <2>2 DEF AuthInv, BrowserInv, CookieFits
<1> QED
  BY <1>3, <1>8, <1>10, <1>11, <1>12 DEF AuthInv, BrowserInv

LEMMA WriteSessionPreserves ==
  ASSUME AuthInv, NEW t \in Tabs, WriteSession(t)
  PROVE  AuthInv'
<1> DEFINE u == tab[t].user
           session == [token |-> period, rights |-> tab[t].rights, slipped |-> tab[t].rights # Rights(u)]
           row == [users[u] EXCEPT !.session = session]
           x == [tab[t] EXCEPT !.at = "answered", !.token = period]
<1>1. /\ tab[t].at = "read" /\ tab[t].ask \in {"login", "refresh"} /\ u \in DOMAIN users
      /\ UNCHANGED <<nextUser, roleTables, request, period, cookies, apart>>
  BY DEF WriteSession
<1>2. /\ users \in [DOMAIN users -> UserType] /\ users[u] \in UserType /\ period \in Nat
      /\ tab \in [Tabs -> TabType] /\ tab[t] \in TabType
  BY <1>1 DEF AuthInv, AccountsInv, AccountsTypeOK, BrowserInv, BrowserTypeOK
<1>3. users' = [users EXCEPT ![u] = row] /\ tab' = [tab EXCEPT ![t] = x]
  BY <1>1, <1>2 DEF WriteSession
<1>4. /\ session \in SessionType /\ session.token = period
      /\ session.slipped \in BOOLEAN
      /\ ~session.slipped => session.rights = [roles |-> users[u].roles, direct |-> users[u].direct]
  BY <1>2 DEF SessionType, TabType, Rights
<1> HIDE DEF session
<1>5. /\ row \in UserType /\ row.session = session
      /\ row.roles = users[u].roles /\ row.direct = users[u].direct
  BY <1>2, <1>4 DEF UserType
<1>6. /\ x \in TabType /\ x.at = "answered" /\ x.ask = tab[t].ask /\ x.alone = tab[t].alone
      /\ x.user = u /\ x.token = period
  BY <1>2 DEF TabType
<1> HIDE DEF row, x
<1>7. AccountsInv'
  BY <1>1, <1>3, <1>4, <1>5, RightsUntouched DEF AuthInv
<1>8. \A o \in Tabs : tab'[o] = IF o = t THEN x ELSE tab[o]
  BY <1>2, <1>3
<1>9. \A v \in DOMAIN users' : v \in DOMAIN users /\ users'[v] = IF v = u THEN row ELSE users[v]
  BY <1>1, <1>2, <1>3
<1>10. BrowserTypeOK'
  <2>1. tab' \in [Tabs -> TabType]
    BY <1>2, <1>3, <1>6
  <2> QED
    BY <1>1, <2>1 DEF AuthInv, BrowserInv, BrowserTypeOK
<1>11. \A o \in Tabs : (Signing(o)' <=> Signing(o)) /\ tab'[o].alone = tab[o].alone
  BY <1>1, <1>6, <1>8 DEF Signing
<1>12. AloneIsAlone' /\ ApartUnlessAlone' /\ AnsweredSigns'
  <2>1. AloneIsAlone /\ ApartUnlessAlone /\ AnsweredSigns
    BY DEF AuthInv, BrowserInv
  <2>2. AnsweredSigns'
    BY <1>1, <1>6, <1>8, <2>1 DEF AnsweredSigns
  <2>3. AloneIsAlone'
    BY <1>11, <2>1 DEF AloneIsAlone
  <2>4. ApartUnlessAlone'
    BY <1>1, <1>11, <2>1 DEF ApartUnlessAlone
  <2> QED
    BY <2>2, <2>3, <2>4
<1>13. AnswerFits'
  <2>1. ASSUME NEW o \in Tabs, tab'[o].at = "answered", tab'[o].alone
        PROVE  FitsAfterwards(tab'[o].user, tab'[o].token)
    <3>1. CASE o = t
      <4>1. tab'[o].user = u /\ tab'[o].token = period
        BY <1>6, <1>8, <3>1
      <4> QED
        BY <1>4, <1>5, <1>9, <4>1 DEF FitsAfterwards
    <3>2. CASE o # t
      <4>1. tab[o].at = "answered" /\ tab[o].alone
        BY <1>8, <2>1, <3>2
      <4>2. Signing(o) /\ Signing(t)
        <5>1. tab[o].ask \in {"login", "refresh"}
          BY <4>1 DEF AuthInv, BrowserInv, AnsweredSigns
        <5> QED
          BY <1>1, <4>1, <5>1 DEF Signing
      <4> QED
        BY <3>2, <4>1, <4>2 DEF AuthInv, BrowserInv, AloneIsAlone
    <3> QED
      BY <3>1, <3>2
  <2> QED
    BY <2>1 DEF AnswerFits, Fits, FitsAfterwards
<1>14. CookieFits'
  BY <1>6, <1>8 DEF CookieFits
<1> QED
  BY <1>7, <1>10, <1>12, <1>13, <1>14 DEF AuthInv, BrowserInv

LEMMA AnswerPreserves ==
  ASSUME AuthInv, NEW t \in Tabs, Answer(t)
  PROVE  AuthInv'
<1>1. /\ tab[t].at = "answered" /\ cookies' = CookiesOf(t)
      /\ apart' = IF tab[t].alone THEN FALSE ELSE apart
      /\ tab' = [tab EXCEPT ![t] = Resting]
      /\ UNCHANGED <<accountVars, period>>
  BY DEF Answer
<1>2. AccountsInv' /\ SessionsKeptOrEnded
  BY <1>1, AccountsSame DEF AuthInv
<1>3. tab \in [Tabs -> TabType] /\ tab[t] \in TabType /\ apart \in BOOLEAN
  BY DEF AuthInv, BrowserInv, BrowserTypeOK
<1>4. \A o \in Tabs : tab'[o] = IF o = t THEN Resting ELSE tab[o]
  BY <1>1, <1>3
<1>5. \A o \in Tabs : tab'[o].at # "idle" => o # t /\ tab'[o] = tab[o]
  BY <1>4, RestingTyped
<1>6. /\ cookies' \in [access : Nat, refresh : CookieType \cup {None}]
      /\ cookies'.refresh = [user |-> tab[t].user, token |-> tab[t].token]
      /\ cookies'.refresh.user = tab[t].user /\ cookies'.refresh.token = tab[t].token
  BY <1>1, <1>3 DEF CookiesOf, CookieType, TabType
<1>7. BrowserTypeOK'
  <2>1. tab' \in [Tabs -> TabType]
    BY <1>1, <1>3, RestingTyped
  <2>2. apart' \in BOOLEAN
    BY <1>1, <1>3
  <2> QED
    BY <1>1, <1>6, <2>1, <2>2 DEF AuthInv, BrowserInv, BrowserTypeOK
<1>8. Signing(t)
  BY <1>1 DEF Signing, AuthInv, BrowserInv, AnsweredSigns
<1>9. AloneIsAlone' /\ AnsweredSigns'
  BY <1>5 DEF AuthInv, BrowserInv, AloneIsAlone, AnsweredSigns, Signing
<1>10. ApartUnlessAlone'
  <2>1. ASSUME NEW o \in Tabs, Signing(o)', ~tab'[o].alone PROVE apart'
    <3>1. o # t /\ Signing(o) /\ tab'[o] = tab[o]
      BY <1>5, <2>1 DEF Signing
    <3>2. ~tab[t].alone
      BY <1>8, <3>1 DEF AuthInv, BrowserInv, AloneIsAlone
    <3>3. apart
      BY <1>8, <3>2 DEF AuthInv, BrowserInv, ApartUnlessAlone
    <3> QED
      BY <1>1, <3>2, <3>3
  <2> QED
    BY <2>1 DEF ApartUnlessAlone
<1>11. AnswerFits'
  <2>1. ASSUME NEW o \in Tabs, tab'[o].at = "answered", tab'[o].alone
        PROVE  FitsAfterwards(tab'[o].user, tab'[o].token)
    <3>1. tab'[o] = tab[o]
      BY <1>5, <2>1
    <3>2. Fits(tab[o].user, tab[o].token)
      BY <2>1, <3>1 DEF AuthInv, BrowserInv, AnswerFits
    <3> QED
      BY <1>2, <3>1, <3>2, FitsOn
  <2> QED
    BY <2>1 DEF AnswerFits, Fits, FitsAfterwards
<1>12. CookieFits'
  <2>1. CASE tab[t].alone
    <3>1. Fits(tab[t].user, tab[t].token)
      BY <1>1, <2>1 DEF AuthInv, BrowserInv, AnswerFits
    <3>2. FitsAfterwards(cookies'.refresh.user, cookies'.refresh.token)
      BY <1>2, <1>6, <3>1, FitsOn
    <3> QED
      BY <3>2 DEF CookieFits, Fits, FitsAfterwards
  <2>2. CASE ~tab[t].alone
    <3>1. apart
      BY <1>8, <2>2 DEF AuthInv, BrowserInv, ApartUnlessAlone
    <3> QED
      BY <1>1, <2>2, <3>1 DEF CookieFits
  <2> QED
    BY <2>1, <2>2
<1> QED
  BY <1>2, <1>7, <1>9, <1>10, <1>11, <1>12 DEF AuthInv, BrowserInv

LEMMA LoginElsewherePreserves ==
  ASSUME AuthInv, NEW u \in DOMAIN users, LoginElsewhere(u)
  PROVE  AuthInv'
<1> DEFINE session == [token |-> period, rights |-> Rights(u), slipped |-> FALSE]
           row == [users[u] EXCEPT !.session = session]
<1>1. /\ apart' = TRUE
      /\ tab' = [t \in Tabs |-> [tab[t] EXCEPT !.alone = tab[t].at = "idle"]]
      /\ UNCHANGED <<nextUser, roleTables, request, period, cookies>>
  BY DEF LoginElsewhere
<1>2. /\ users \in [DOMAIN users -> UserType] /\ users[u] \in UserType /\ period \in Nat
      /\ tab \in [Tabs -> TabType]
  BY DEF AuthInv, AccountsInv, AccountsTypeOK, BrowserInv, BrowserTypeOK
<1>3. users' = [users EXCEPT ![u] = row]
  BY <1>2 DEF LoginElsewhere
<1>4. /\ session \in SessionType /\ session.slipped = FALSE
      /\ session.rights = [roles |-> users[u].roles, direct |-> users[u].direct]
  <2>1. Rights(u) \in RightsType
    BY <1>2 DEF Rights, RightsType, UserType
  <2> QED
    BY <1>2, <2>1 DEF SessionType, Rights
<1> HIDE DEF session
<1>5. /\ row \in UserType /\ row.session = session
      /\ row.roles = users[u].roles /\ row.direct = users[u].direct
  BY <1>2, <1>4 DEF UserType
<1> HIDE DEF row
<1>6. AccountsInv'
  BY <1>1, <1>3, <1>4, <1>5, RightsUntouched DEF AuthInv
<1>7. ASSUME NEW t \in Tabs
      PROVE  /\ tab'[t] \in TabType /\ tab'[t].at = tab[t].at /\ tab'[t].ask = tab[t].ask
             /\ tab'[t].at # "idle" => ~tab'[t].alone
  <2>1. tab[t] \in TabType /\ tab'[t] = [tab[t] EXCEPT !.alone = tab[t].at = "idle"]
    BY <1>1, <1>2
  <2> QED
    BY <2>1 DEF TabType
<1>8. BrowserTypeOK'
  <2>1. tab' \in [Tabs -> TabType]
    BY <1>1, <1>7
  <2> QED
    BY <1>1, <2>1 DEF AuthInv, BrowserInv, BrowserTypeOK
<1>9. AloneIsAlone' /\ ApartUnlessAlone' /\ AnsweredSigns' /\ AnswerFits'
  BY <1>1, <1>7 DEF AuthInv, BrowserInv, AloneIsAlone, ApartUnlessAlone, AnsweredSigns, AnswerFits, Signing
<1>10. CookieFits'
  BY <1>1 DEF CookieFits
<1> QED
  BY <1>6, <1>8, <1>9, <1>10 DEF AuthInv, BrowserInv

(* The row of u with its session ended, or with nothing of the session and *)
(* the rights written.                                                     *)
LEMMA QuietEdit ==
  ASSUME AuthInv, NEW u \in DOMAIN users, NEW row \in UserType,
         users' = [users EXCEPT ![u] = row], UNCHANGED <<nextUser, roleTables, request>>,
         row.roles = users[u].roles, row.direct = users[u].direct,
         row.session = None \/ row.session = users[u].session
  PROVE  AccountsInv' /\ SessionsKeptOrEnded
<1>1. users \in [DOMAIN users -> UserType]
  BY DEF AuthInv, AccountsInv, AccountsTypeOK
<1>2. AccountsInv'
  BY RightsUntouched DEF AuthInv
<1>3. SessionsKeptOrEnded
  BY <1>1 DEF SessionsKeptOrEnded, SessionKept
<1> QED
  BY <1>2, <1>3

LEMMA ResetPasswordPreserves ==
  ASSUME AuthInv, NEW t \in Tabs, ResetPassword(t)
  PROVE  AuthInv'
<1> DEFINE u == tab[t].user
           row == [EndSession(users[u]) EXCEPT !.reset = FALSE]
<1>1. /\ tab[t].at = "read" /\ u \in DOMAIN users
      /\ users' = [users EXCEPT ![u] = row]
      /\ tab' = [tab EXCEPT ![t] = Resting]
      /\ UNCHANGED <<nextUser, roleTables, request, period, cookies, apart>>
  BY DEF ResetPassword
<1>2. users[u] \in UserType /\ apart \in BOOLEAN
  BY <1>1 DEF AuthInv, AccountsInv, AccountsTypeOK, BrowserInv, BrowserTypeOK
<1>3. row \in UserType /\ row.session = None /\ row.roles = users[u].roles /\ row.direct = users[u].direct
  BY <1>2 DEF UserType, EndSession
<1> HIDE DEF row
<1>4. AccountsInv' /\ SessionsKeptOrEnded
  BY <1>1, <1>3, QuietEdit
<1> QED
  BY <1>1, <1>2, <1>4, TabRests DEF AuthInv, TabMoves

LEMMA OtherStepsPreserve ==
  ASSUME AuthInv,
         \/ \E t \in Tabs : LoseAnswer(t) \/ UserGone(t)
         \/ \E m \in LoginDto : ForgotPassword(m)
         \/ Logout \/ AccessCookieExpires \/ NextPeriod
  PROVE  AuthInv'
<1>1. BrowserTypeOK
  BY DEF AuthInv, BrowserInv
<1>2. ASSUME NEW t \in Tabs, LoseAnswer(t) \/ UserGone(t) PROVE AuthInv'
  <2>1. AccountsInv' /\ SessionsKeptOrEnded
    BY <1>2, AccountsSame DEF AuthInv, LoseAnswer, UserGone
  <2>2. /\ TabMoves(t, Resting) /\ UNCHANGED <<period, cookies>>
        /\ apart' \in BOOLEAN /\ (apart => apart') /\ (tab[t].at = "answered" => apart')
    BY <1>1, <1>2 DEF LoseAnswer, UserGone, TabMoves, BrowserTypeOK
  <2> QED
    BY <2>1, <2>2, TabRests DEF AuthInv
<1>3. ASSUME NEW m \in LoginDto, ForgotPassword(m) PROVE AuthInv'
  <2>1. PICK u \in DOMAIN users : users' = [users EXCEPT ![u].reset = TRUE]
    BY <1>3 DEF ForgotPassword
  <2>2. UNCHANGED <<nextUser, roleTables, request, period, cookies, tab, apart>>
    BY <1>3 DEF ForgotPassword
  <2> DEFINE row == [users[u] EXCEPT !.reset = TRUE]
  <2>3. users[u] \in UserType /\ users' = [users EXCEPT ![u] = row]
    BY <2>1 DEF AuthInv, AccountsInv, AccountsTypeOK
  <2>4. /\ row \in UserType /\ row.session = users[u].session
        /\ row.roles = users[u].roles /\ row.direct = users[u].direct
    BY <2>3 DEF UserType
  <2> HIDE DEF row
  <2>5. AccountsInv' /\ SessionsKeptOrEnded
    BY <2>2, <2>3, <2>4, QuietEdit
  <2>6. BrowserTypeOK'
    BY <1>1, <2>2 DEF BrowserTypeOK
  <2> QED
    BY <2>2, <2>5, <2>6, BrowserRests DEF AuthInv
<1>4. CASE Logout
  <2> DEFINE u == cookies.access
             row == EndSession(users[u])
  <2>1. /\ u = 0 \/ u \in DOMAIN users
        /\ users' = IF u = 0 THEN users ELSE [users EXCEPT ![u] = row]
        /\ cookies' = [access |-> 0, refresh |-> None]
        /\ UNCHANGED <<nextUser, roleTables, request, period, tab, apart>>
    BY <1>4 DEF Logout
  <2>2. AccountsInv' /\ SessionsKeptOrEnded
    <3>1. CASE u = 0
      <4>1. UNCHANGED accountVars
        BY <2>1, <3>1 DEF accountVars, userTables
      <4> QED
        BY <4>1, AccountsSame DEF AuthInv
    <3>2. CASE u # 0
      <4>1. users[u] \in UserType
        BY <2>1, <3>2 DEF AuthInv, AccountsInv, AccountsTypeOK
      <4>2. row \in UserType /\ row.session = None /\ row.roles = users[u].roles
              /\ row.direct = users[u].direct
        BY <4>1, EndSessionTyped
      <4> HIDE DEF row
      <4> QED
        BY <2>1, <3>2, <4>2, QuietEdit
    <3> QED
      BY <3>1, <3>2
  <2>3. BrowserTypeOK' /\ cookies'.refresh = None
    BY <1>1, <2>1 DEF BrowserTypeOK
  <2> QED
    BY <2>1, <2>2, <2>3, BrowserRests DEF AuthInv
<1>5. CASE AccessCookieExpires
  <2>1. cookies' = [cookies EXCEPT !.access = 0] /\ UNCHANGED <<accountVars, period, tab, apart>>
    BY <1>5 DEF AccessCookieExpires
  <2>2. AccountsInv' /\ SessionsKeptOrEnded
    BY <2>1, AccountsSame DEF AuthInv
  <2>3. BrowserTypeOK' /\ cookies'.refresh = cookies.refresh
    BY <1>1, <2>1 DEF BrowserTypeOK
  <2> QED
    BY <2>1, <2>2, <2>3, BrowserRests DEF AuthInv
<1>6. CASE NextPeriod
  <2>1. period' = period + 1 /\ UNCHANGED <<accountVars, cookies, tab, apart>>
    BY <1>6 DEF NextPeriod
  <2>2. AccountsInv' /\ SessionsKeptOrEnded
    BY <2>1, AccountsSame DEF AuthInv
  <2>3. BrowserTypeOK'
    BY <1>1, <2>1 DEF BrowserTypeOK
  <2> QED
    BY <2>1, <2>2, <2>3, BrowserRests DEF AuthInv
<1> QED
  BY <1>2, <1>3, <1>4, <1>5, <1>6

-----------------------------------------------------------------------------
LEMMA AuthStart == SessionsInit => AuthInv
<1> SUFFICES ASSUME SessionsInit PROVE AuthInv
  OBVIOUS
<1>1. /\ users = << >> /\ roles = << >> /\ permissions = {} /\ request = [e \in Admins |-> Idle]
      /\ nextUser = 1 /\ nextRole = 1 /\ nextPermission = 1
      /\ period = 1 /\ cookies = [access |-> 0, refresh |-> None]
      /\ tab = [t \in Tabs |-> Resting] /\ apart = FALSE
  BY DEF SessionsInit, AccountsInit
<1>2. DOMAIN users = {} /\ DOMAIN roles = {}
  BY <1>1
<1>3. users \in [DOMAIN users -> UserType] /\ roles \in [DOMAIN roles -> SUBSET Nat]
  BY <1>1
<1>4. AccountsTypeOK
  BY <1>1, <1>2, <1>3, IdleTyped DEF AccountsTypeOK
<1>5. RightsExist /\ RightsKnown /\ ManagedGivesNoRoles /\ LatecomersNoted /\ SessionsKeepUpWithRights
  BY <1>1, <1>2, IdleTyped
     DEF RightsExist, RightsKnown, ManagedGivesNoRoles, LatecomersNoted, SessionsKeepUpWithRights
<1>6. BrowserTypeOK
  BY <1>1, RestingTyped DEF BrowserTypeOK
<1>7. AloneIsAlone /\ ApartUnlessAlone /\ AnsweredSigns /\ AnswerFits /\ CookieFits
  BY <1>1, RestingTyped
     DEF AloneIsAlone, ApartUnlessAlone, AnsweredSigns, AnswerFits, CookieFits, Signing
<1> QED
  BY <1>4, <1>5, <1>6, <1>7 DEF AuthInv, AccountsInv, BrowserInv

LEMMA AuthKept ==
  ASSUME AuthInv, [SessionsNext]_<<accountVars, sessionVars>>
  PROVE  AuthInv'
<1>1. ASSUME AccountsInv' /\ SessionsKeptOrEnded, UNCHANGED sessionVars PROVE AuthInv'
  <2>1. UNCHANGED <<period, cookies, tab, apart>>
    BY <1>1 DEF sessionVars
  <2>2. BrowserTypeOK'
    BY <2>1 DEF AuthInv, BrowserInv, BrowserTypeOK
  <2> QED
    BY <1>1, <2>1, <2>2, BrowserRests DEF AuthInv
<1>2. CASE UNCHANGED <<accountVars, sessionVars>>
  BY <1>1, <1>2, AccountsSame DEF AuthInv
<1>3. CASE AccountsNext /\ UNCHANGED sessionVars
  BY <1>1, <1>3, AccountsKept DEF AuthInv
<1>4. ASSUME NEW t \in Tabs, AuthRoutes(t) PROVE AuthInv'
  <2>1. ASSUME NEW m \in LoginDto, StartLogin(t, m) PROVE AuthInv'
    BY <2>1, AsksPreserves DEF StartLogin
  <2>2. CASE StartRefresh(t)
    BY <2>2, AsksPreserves DEF StartRefresh, ValidateUser
  <2> QED
    BY <1>4, <2>1, <2>2, WriteSessionPreserves, AnswerPreserves, OtherStepsPreserve,
       StartResetPreserves, ResetPasswordPreserves DEF AuthRoutes
<1> QED
  BY <1>2, <1>3, <1>4, LoginElsewherePreserves, OtherStepsPreserve DEF SessionsNext

LEMMA AuthInvariant == SessionsSpec => []AuthInv
<1>1. AuthInv /\ [SessionsNext]_<<accountVars, sessionVars>> => AuthInv'
  BY AuthKept
<1> QED
  BY <1>1, AuthStart, PTL DEF SessionsSpec

(* No session goes on with other rights than its user has: whatever update *)
(* of roles, grant, removal of a role or permission, login and refresh     *)
(* cross, only the window between the two commands of the change, a second *)
(* command that fails and a request that had read the old rights are       *)
(* exceptions.                                                             *)
THEOREM SessionsFollowRights == SessionsSpec => []SessionsKeepUpWithRights
<1>1. AuthInv => SessionsKeepUpWithRights
  BY DEF AuthInv, AccountsInv
<1> QED
  BY <1>1, AuthInvariant, PTL

(* Who has signed in can refresh: the refresh cookie of a browser at rest  *)
(* fits its user's session, whichever tabs signed in, refreshed or reset a *)
(* password before, unless requests crossed or an answer was lost.         *)
THEOREM RefreshCookieFits == SessionsSpec => []SignedInStaysSignedIn
<1>1. AuthInv => SignedInStaysSignedIn
  <2> SUFFICES ASSUME AuthInv, ~apart, cookies.refresh # None, \A t \in Tabs : tab[t].at = "idle"
               PROVE  Fits(cookies.refresh.user, cookies.refresh.token)
    BY DEF SignedInStaysSignedIn, Fits, Matches
  <2> QED
    BY DEF AuthInv, BrowserInv, CookieFits
<1> QED
  BY <1>1, AuthInvariant, PTL

LEMMA RolesGoByRemoval ==
  ASSUME AccountsInv, AccountsNext
  PROVE  DOMAIN roles \subseteq DOMAIN roles' \/ \E e \in Admins : RemoveRole(e)
<1>1. UNCHANGED roleTables => DOMAIN roles' = DOMAIN roles
  BY DEF roleTables
<1>2. CASE PairingRoutes
  BY <1>2 DEF PairingRoutes, CreatePairing, RemovePairing
<1>3. ASSUME NEW e \in Admins, EndSessionAfterwards(e) \/ EndingFails(e) PROVE UNCHANGED roleTables
  BY <1>3 DEF EndSessionAfterwards, EndingFails
<1>4. ASSUME NEW e \in Admins, UserRoutes(e) PROVE UNCHANGED roleTables
  BY <1>4 DEF UserRoutes, CreateUser, WriteUser, SetUserPermission, TrashUser, HardDeleteUser
<1>5. ASSUME NEW e \in Admins, ManagedRoutes(e) PROVE UNCHANGED roleTables
  BY <1>5 DEF ManagedRoutes, StartManaged, CreateManaged, DoManaged, ManagedFails,
              CreateUser, WriteUser, TrashUser, HardDeleteUser
<1>6. ASSUME NEW e \in Admins, RoleRoutes(e), ~RemoveRole(e)
      PROVE  DOMAIN roles \subseteq DOMAIN roles'
  <2>1. ASSUME NEW ps, CreateRole(ps) PROVE DOMAIN roles \subseteq DOMAIN roles'
    BY <2>1 DEF CreateRole, Put
  <2>2. ASSUME NEW ps, NEW r, SetPermissions(r, ps) PROVE DOMAIN roles \subseteq DOMAIN roles'
    BY <2>2 DEF SetPermissions
  <2>3. ASSUME NEW r, StartRemoveRole(e, r) PROVE DOMAIN roles \subseteq DOMAIN roles'
    BY <1>1, <2>3 DEF StartRemoveRole
  <2> QED
    BY <1>6, <2>1, <2>2, <2>3 DEF RoleRoutes
<1>7. ASSUME NEW e \in Admins, PermissionRoutes(e) PROVE DOMAIN roles \subseteq DOMAIN roles'
  BY <1>1, <1>7 DEF PermissionRoutes, CreatePermission, StartRemovePermission, RemovePermission
<1> QED
  BY <1>1, <1>2, <1>3, <1>4, <1>5, <1>6, <1>7 DEF AccountsNext

(* A user loses a role that is removed only if it was given after the      *)
(* users of the role had been counted: RolesService.remove counts and      *)
(* deletes in two commands, and whoever gets the role in between has it    *)
(* taken away again.                                                       *)
THEOREM RolesLostInTheWindow == SessionsSpec => RoleLostByCrossingOnly
<1> DEFINE Lost ==
      \A u \in DOMAIN users \cap DOMAIN users' : \A r \in DOMAIN roles \ DOMAIN roles' :
        r \in users[u].roles =>
          \E e \in Admins : request[e].at = "removing role" /\ u \in request[e].late
<1>1. ASSUME AuthInv, [SessionsNext]_<<accountVars, sessionVars>> PROVE [Lost]_accountVars
  <2>1. CASE roles' = roles
    BY <2>1
  <2>2. CASE AccountsNext
    <3> SUFFICES ASSUME NEW u \in DOMAIN users, NEW r \in DOMAIN roles \ DOMAIN roles',
                        r \in users[u].roles
                 PROVE  \E e \in Admins : request[e].at = "removing role" /\ u \in request[e].late
      OBVIOUS
    <3>1. PICK e \in Admins : RemoveRole(e)
      BY <1>1, <2>2, RolesGoByRemoval DEF AuthInv
    <3>2. request[e].at = "removing role" /\ DOMAIN roles' = DOMAIN roles \ {request[e].role}
      BY <3>1 DEF RemoveRole, Only
    <3>3. r = request[e].role
      BY <3>2
    <3> QED
      BY <1>1, <3>2, <3>3 DEF AuthInv, AccountsInv, LatecomersNoted
  <2>3. CASE UNCHANGED roleTables
    BY <2>1, <2>3 DEF roleTables
  <2>4. CASE UNCHANGED accountVars
    BY <2>4
  <2>5. ASSUME NEW t \in Tabs, AuthRoutes(t) PROVE UNCHANGED roleTables
    BY <2>5 DEF AuthRoutes, StartLogin, StartRefresh, Asks, WriteSession, Answer, LoseAnswer,
                UserGone, StartReset, ResetPassword, accountVars
  <2>6. ASSUME NEW u, LoginElsewhere(u) PROVE UNCHANGED roleTables
    BY <2>6 DEF LoginElsewhere
  <2>7. ASSUME NEW m, ForgotPassword(m) PROVE UNCHANGED roleTables
    BY <2>7 DEF ForgotPassword
  <2>8. CASE Logout \/ AccessCookieExpires \/ NextPeriod
    BY <2>3, <2>4, <2>8 DEF Logout, AccessCookieExpires, NextPeriod, accountVars
  <2> QED
    BY <1>1, <2>2, <2>3, <2>4, <2>5, <2>6, <2>7, <2>8 DEF SessionsNext
<1> QED
  BY <1>1, AuthInvariant, PTL DEF SessionsSpec, RoleLostByCrossingOnly
=============================================================================
