------------------------------- MODULE Seeding -------------------------------
(***************************************************************************)
(* The seed scripts and the permission guard that reads what they left.    *)
(* A run of the scripts executes its statements one by one and may die     *)
(* between two of them; it is then started over.  Every statement is an    *)
(* upsert.  Roles are looked up by the id they should have, but inserted   *)
(* with the next value of the sequence, and a value taken by an insert     *)
(* that is rolled back never comes back.                                   *)
(***************************************************************************)
EXTENDS Permissions, SequencesExt

CONSTANTS
    MaxRuns,  \* bound: runs of the scripts
    MaxLost   \* bound: sequence values lost

ASSUME SeedingAssumption ==
    /\ MaxRuns \in Nat
    /\ MaxLost \in Nat

-----------------------------------------------------------------------------
(* What the scripts write *)

Roles == <<"SUPER_ADMIN", "ADMIN", "USER", "PREMIUM_USER">>

Actions(scope, actions) == [i \in 1..Len(actions) |-> Permission(scope, actions[i])]
Crud == <<"create", "read", "update", "delete">>
CrudAndWrite == <<"create", "read", "write", "update", "delete">>

OfUsers == Actions("user", Crud)
OfPosts == Actions("post", CrudAndWrite)
OfNotifications == Actions("notification", CrudAndWrite)
OfAdmins == Actions("admin", Crud)
OfRoles == Actions("role", Crud)

SeededPermissions == OfUsers \o OfPosts \o OfNotifications \o OfAdmins \o OfRoles

\* A role is granted the permissions of some scopes, or all there are.
GrantedTo(role) ==
    CASE role = "SUPER_ADMIN" -> SeededPermissions
      [] role = "ADMIN"       -> OfUsers \o OfPosts \o OfNotifications
      [] role = "USER"        -> OfPosts
      [] OTHER                -> <<>>

\* One account stands for those that are seeded with its role.
SeededUsers == <<<<"user1", "USER">>, <<"premium", "PREMIUM_USER">>>>
SeededAdmins == <<<<"superadmin", "SUPER_ADMIN">>, <<"admin01", "ADMIN">>>>

\* signup creates a user without any role.
SignedUp == "signed up"

-----------------------------------------------------------------------------
(* The statements of a run, in order; findMany returns the permissions in  *)
(* an order of the database's, which makes no difference to the upserts    *)

Find(role) == <<[op |-> "find", role |-> role]>>
Grants(role) ==
    LET granted == GrantedTo(role) IN
    Find(role) \o [i \in 1..Len(granted) |->
                     [op |-> "grant", role |-> role, permission |-> granted[i]]]
AccountsAndRoles(accounts) ==
    Find(accounts[1][2]) \o Find(accounts[2][2]) \o
    [i \in 1..Len(accounts) |-> [op |-> "account", name |-> accounts[i][1], role |-> accounts[i][2]]]

RoleSeed == [i \in 1..Len(Roles) |-> [op |-> "role", role |-> Roles[i], id |-> i]]
PermissionSeed ==
    [i \in 1..Len(SeededPermissions) |->
       [op |-> "permission", permission |-> SeededPermissions[i]]]
    \o Grants("SUPER_ADMIN") \o Grants("ADMIN") \o Grants("USER")
UserSeed == AccountsAndRoles(SeededUsers)
AdminSeed == AccountsAndRoles(SeededAdmins)

Statements == RoleSeed \o PermissionSeed \o UserSeed \o AdminSeed

VARIABLES
    at,               \* the statement of the run; 0 when none runs
    finished,         \* a run has got to its end
    runs,
    roles,            \* rows of role, as pairs of id and name
    nextId,           \* the sequence of role ids
    lost,             \* its values that were rolled back
    permissions,      \* rows of permission
    found,            \* the run's roles by name: an id, or 0 for null
    rolePermissions,  \* pairs of a role's id and a permission
    accountRoles      \* user_role and admin_role: pairs of an account and a role's id

seedVars == <<at, finished, runs, roles, nextId, lost, permissions, found,
              rolePermissions, accountRoles>>

NoneFound == [r \in ToSet(Roles) |-> 0]
IdsOf(role) == {r[1] : r \in {s \in roles : s[2] = role}}

SeedInit ==
    /\ at = 0
    /\ finished = FALSE
    /\ runs = 0
    /\ roles = {}
    /\ nextId = 1
    /\ lost = 0
    /\ permissions = {}
    /\ found = NoneFound
    /\ rolePermissions = {}
    /\ accountRoles = {}

Is(op) == at > 0 /\ Statements[at].op = op

Advance ==
    /\ at' = IF at < Len(Statements) THEN at + 1 ELSE 0
    /\ finished' = (finished \/ at = Len(Statements))

-----------------------------------------------------------------------------
\* seed-run starts the scripts in the order of their numbers.
StartRun ==
    /\ at = 0
    /\ runs < MaxRuns
    /\ at' = 1
    /\ runs' = runs + 1
    /\ found' = NoneFound
    /\ UNCHANGED <<finished, roles, nextId, lost, permissions, rolePermissions, accountRoles>>

\* Mutant: roles are created without looking for them.
CreateRole ==
    /\ Is("role")
    /\ roles' = roles \cup {<<nextId, Statements[at].role>>}
    /\ nextId' = nextId + 1
    /\ Advance
    /\ UNCHANGED <<runs, lost, permissions, found, rolePermissions, accountRoles>>

UpsertRole ==
    /\ Is("role")
    /\ IF \E r \in roles : r[1] = Statements[at].id
         THEN UNCHANGED <<roles, nextId>>
         ELSE /\ roles' = roles \cup {<<nextId, Statements[at].role>>}
              /\ nextId' = nextId + 1
    /\ Advance
    /\ UNCHANGED <<runs, lost, permissions, found, rolePermissions, accountRoles>>

\* The insert of a role is rolled back, and the run with it; the id is spent.
LoseRoleId ==
    /\ Is("role")
    /\ ~ \E r \in roles : r[1] = Statements[at].id
    /\ lost < MaxLost
    /\ lost' = lost + 1
    /\ nextId' = nextId + 1
    /\ at' = 0
    /\ UNCHANGED <<finished, runs, roles, permissions, found, rolePermissions, accountRoles>>

UpsertPermission ==
    /\ Is("permission")
    /\ permissions' = permissions \cup {Statements[at].permission}
    /\ Advance
    /\ UNCHANGED <<runs, roles, nextId, lost, found, rolePermissions, accountRoles>>

\* findFirst by name, without an order.
FindRole ==
    /\ Is("find")
    /\ LET ids == IdsOf(Statements[at].role) IN
         \E id \in (IF ids = {} THEN {0} ELSE ids) :
           found' = [found EXCEPT ![Statements[at].role] = id]
    /\ Advance
    /\ UNCHANGED <<runs, roles, nextId, lost, permissions, rolePermissions, accountRoles>>

GrantPermission ==
    /\ Is("grant")
    /\ LET s == Statements[at] IN
         rolePermissions' = IF found[s.role] = 0 THEN rolePermissions
                            ELSE rolePermissions \cup {<<found[s.role], s.permission>>}
    /\ Advance
    /\ UNCHANGED <<runs, roles, nextId, lost, permissions, found, accountRoles>>

\* Mutant: an account is given the id its role should have.
UpsertAccountByPlace ==
    /\ Is("account")
    /\ LET s == Statements[at]
           place == CHOOSE i \in 1..Len(Roles) : Roles[i] = s.role
       IN accountRoles' = accountRoles \cup {<<s.name, place>>}
    /\ Advance
    /\ UNCHANGED <<runs, roles, nextId, lost, permissions, found, rolePermissions>>

UpsertAccount ==
    /\ Is("account")
    /\ LET s == Statements[at] IN
         accountRoles' = IF found[s.role] = 0 THEN accountRoles
                         ELSE accountRoles \cup {<<s.name, found[s.role]>>}
    /\ Advance
    /\ UNCHANGED <<runs, roles, nextId, lost, permissions, found, rolePermissions>>

\* A statement rejects, or the script is killed between two of them.
RunDies ==
    /\ at > 0
    /\ at' = 0
    /\ UNCHANGED <<finished, runs, roles, nextId, lost, permissions, found,
                   rolePermissions, accountRoles>>

SeedNext ==
    \/ StartRun \/ UpsertRole \/ LoseRoleId \/ UpsertPermission
    \/ FindRole \/ GrantPermission \/ UpsertAccount \/ RunDies

SeedSpec == SeedInit /\ [][SeedNext]_seedVars

-----------------------------------------------------------------------------
(* The guards *)

\* PermissionGuard: a role of the caller has the permission.
Owns(account, permission) ==
    \E ar \in accountRoles : ar[1] = account /\ <<ar[2], permission>> \in rolePermissions

\* Every handler: JwtAccessGuard first, then PermissionGuard where a permission is
\* asked.  It throws if the context has no id and aud, and denies by returning false.
Answer(account, token, need) ==
    IF need = Public THEN Handled
    ELSE IF AccessGuard(token) # "pass" THEN GlobalExceptionHandler(BaseException(AccessGuard(token)))
    ELSE IF need = SignedIn THEN Handled
    ELSE IF ~ContextHasCaller(token) THEN GlobalExceptionHandler(BaseException("RESOURCE_ACCESS_DENIED"))
    ELSE IF Owns(account, need) THEN Handled
    ELSE GlobalExceptionHandler(ForbiddenException)

Admits(account, token, need) == Answer(account, token, need) = Handled

-----------------------------------------------------------------------------
(* Properties *)

RoleOf == ToSet(SeededUsers \o SeededAdmins)

\* However often the scripts were killed and started over, a run that gets to its
\* end leaves exactly the roles, grants and accounts of the tables, provided no id
\* was lost.
SeedConverges ==
    finished /\ lost = 0 =>
      /\ {r[2] : r \in roles} = ToSet(Roles)
      /\ Cardinality(roles) = Len(Roles)
      /\ \A r \in roles : {g[2] : g \in {x \in rolePermissions : x[1] = r[1]}} = ToSet(GrantedTo(r[2]))
      /\ \A a \in RoleOf : {ar[2] : ar \in {x \in accountRoles : x[1] = a[1]}} = IdsOf(a[2])

\* At no moment, half seeded or with ids lost, do the guards let an account do, with
\* whatever token, what the table does not give its role; and who signed up passes no
\* permission.
RolesConfined ==
    \A token \in Tokens :
      /\ \A a \in RoleOf : \A need \in Guarded(UserNeeds \cup AdminNeeds) \ ToSet(GrantedTo(a[2])) :
           ~ Admits(a[1], token, need)
      /\ \A need \in Guarded(UserNeeds) : ~ Admits(SignedUp, token, need)

\* SUPER_ADMIN is described as having all permissions.
SuperAdminHasAll ==
    finished /\ lost = 0 =>
      \A need \in Guarded(AdminNeeds) : Admits("superadmin", AccessToken, need)

=============================================================================
