------------------------------- MODULE Access -------------------------------
(***************************************************************************)
(* Who may use which app: memberships, tiers, the roles an app defines for *)
(* itself, and the groups of the directory that open and close accesses    *)
(* (server/services/scimGroupAccess.js, appDefinedRoles.js and             *)
(* ownerBackfill.js; server/routes/scim.js, users.js, apps.js, appRoles.js *)
(* and the access tools of mcpTools.js).                                   *)
(*                                                                         *)
(* A request is one step: better-sqlite3 is synchronous, and no handler    *)
(* here awaits between its writes.  A group request writes the directory   *)
(* in one transaction and the accesses in a second, the reconciler's; the  *)
(* server may die between the two, and nothing repeats the second but the  *)
(* next group request.                                                     *)
(*                                                                         *)
(* The tables do not say who wrote a row; the model does, in `member' and  *)
(* `tierBy':  "hand" for a row written while the ledger did not list the   *)
(* pair, "late" for one written by hand while it did, "group" for one the  *)
(* reconciler wrote.  An app defines one role of its own.  Left out: names,*)
(* external ids, timestamps, the token, who is allowed to ask.             *)
(***************************************************************************)
EXTENDS Naturals, FiniteSets

CONSTANTS App, User, Group, NoUser,
          Tier,     \* the tiers in use
          Crowd     \* bound: users and groups at once

ASSUME AccessAssumption ==
    /\ NoUser \notin User
    /\ Tier \subseteq {"user", "admin", "owner"} /\ "owner" \in Tier
    /\ Crowd \in Nat

Pair == App \X User

Writer == {"none", "hand", "late", "group"}
Rank   == [none |-> 0, user |-> 1, admin |-> 2, owner |-> 3]

VARIABLES
    users,     \* rows of users
    apps,      \* rows of apps
    creator,   \* apps.created_by
    groups,    \* rows of scim_groups
    inGroup,   \* scim_group_members
    grants,    \* scim_group_app_roles: what a group grants on an app
    behind,    \* the last group request died before the reconciler ran
    member,    \* app_users, by writer
    tier,      \* app_user_roles
    tierBy,    \* who wrote that row
    ledger,    \* scim_group_access
    held       \* app_role_grants

people    == <<users, apps, creator>>
directory == <<groups, inGroup, grants, behind>>
access    == <<member, tier, tierBy>>
vars      == <<people, directory, access, ledger, held>>

NoRow  == [tier |-> "none", madeMember |-> FALSE, madeTier |-> FALSE]
Ledger == [tier : Tier \cup {"none"}, madeMember : BOOLEAN, madeTier : BOOLEAN]

\* Every row refers to rows that exist, and a row is there when it has a writer.
TypeOK ==
    /\ users \subseteq User /\ apps \subseteq App /\ groups \subseteq Group
    /\ behind \in BOOLEAN
    /\ creator \in [App -> User \cup {NoUser}]
    /\ \A a \in App : creator[a] \in users \cup {NoUser}
    /\ inGroup \subseteq groups \X users
    /\ grants \in [Group -> [App -> Tier \cup {"none"}]]
    /\ \A g \in Group, a \in App : grants[g][a] # "none" => g \in groups /\ a \in apps
    /\ member \in [Pair -> Writer]
    /\ tier \in [Pair -> Tier \cup {"none"}]
    /\ tierBy \in [Pair -> Writer]
    /\ ledger \in [Pair -> Ledger]
    /\ held \subseteq apps \X users
    /\ \A p \in Pair : tier[p] = "none" <=> tierBy[p] = "none"
    /\ \A p \in Pair : p \notin apps \X users =>
          member[p] = "none" /\ tier[p] = "none" /\ ledger[p] = NoRow

Init ==
    /\ users = User /\ apps = {} /\ creator = [a \in App |-> NoUser]
    /\ groups = {} /\ inGroup = {} /\ behind = FALSE
    /\ grants = [g \in Group |-> [a \in App |-> "none"]]
    /\ member = [p \in Pair |-> "none"]
    /\ tier = [p \in Pair |-> "none"] /\ tierBy = [p \in Pair |-> "none"]
    /\ ledger = [p \in Pair |-> NoRow]
    /\ held = {}

-----------------------------------------------------------------------------
(* What the groups are worth.                                              *)

Offers(p) ==
    {grants[g][p[1]] : g \in {h \in Group : <<h, p[2]>> \in inGroup}} \ {"none"}

\* "Highest wins": the tier the groups want the pair to have.
Wanted(p) ==
    IF Offers(p) = {} THEN "none"
    ELSE CHOOSE t \in Offers(p) : \A o \in Offers(p) : Rank[o] <= Rank[t]

Open(p) == ledger[p].tier # "none"

\* The pairs that reconcileGroupAccess changes; w is what the groups want of
\* each pair by now.
Released(w, p) == Open(p) /\ w[p] = "none"
Opened(w, p)   == ~Open(p) /\ w[p] # "none"
Retiered(w, p) == Open(p) /\ w[p] \notin {"none", ledger[p].tier}

\* It inserts the tier, or updates the one it made.
TierWritten(w, p) ==
    \/ Opened(w, p) /\ tier[p] = "none"
    \/ Retiered(w, p) /\ ledger[p].madeTier /\ tier[p] # "none"

\* Mutant: revocation takes every row, whoever made it.
ReconcileTaking(w) ==
    /\ member' = [p \in Pair |->
          IF Released(w, p) THEN "none"
          ELSE IF Opened(w, p) /\ member[p] = "none" THEN "group" ELSE member[p]]
    /\ tier' = [p \in Pair |->
          IF Released(w, p) THEN "none" ELSE IF TierWritten(w, p) THEN w[p] ELSE tier[p]]
    /\ tierBy' = [p \in Pair |->
          IF Released(w, p) THEN "none" ELSE IF TierWritten(w, p) THEN "group" ELSE tierBy[p]]
    /\ ledger' = [p \in Pair |->
          IF Released(w, p) THEN NoRow
          ELSE IF Opened(w, p) THEN [tier       |-> w[p],
                                     madeMember |-> member[p] = "none",
                                     madeTier   |-> tier[p] = "none"]
          ELSE IF Retiered(w, p) THEN [ledger[p] EXCEPT !.tier = w[p]]
          ELSE ledger[p]]

\* Mutant: a change of tier takes the flags anew.
ReconcileAnew(w) ==
    /\ member' = [p \in Pair |->
          IF Released(w, p) /\ ledger[p].madeMember THEN "none"
          ELSE IF Opened(w, p) /\ member[p] = "none" THEN "group" ELSE member[p]]
    /\ tier' = [p \in Pair |->
          IF Released(w, p) /\ ledger[p].madeTier THEN "none"
          ELSE IF TierWritten(w, p) THEN w[p] ELSE tier[p]]
    /\ tierBy' = [p \in Pair |->
          IF Released(w, p) /\ ledger[p].madeTier THEN "none"
          ELSE IF TierWritten(w, p) THEN "group" ELSE tierBy[p]]
    /\ ledger' = [p \in Pair |->
          IF Released(w, p) THEN NoRow
          ELSE IF Opened(w, p) \/ Retiered(w, p)
          THEN [tier       |-> w[p],
                madeMember |-> member[p] = "none",
                madeTier   |-> tier[p] = "none"]
          ELSE ledger[p]]

\* reconcileGroupAccess
ReconcileTo(w) ==
    /\ member' = [p \in Pair |->
          IF Released(w, p) /\ ledger[p].madeMember THEN "none"
          ELSE IF Opened(w, p) /\ member[p] = "none" THEN "group" ELSE member[p]]
    /\ tier' = [p \in Pair |->
          IF Released(w, p) /\ ledger[p].madeTier THEN "none"
          ELSE IF TierWritten(w, p) THEN w[p] ELSE tier[p]]
    /\ tierBy' = [p \in Pair |->
          IF Released(w, p) /\ ledger[p].madeTier THEN "none"
          ELSE IF TierWritten(w, p) THEN "group" ELSE tierBy[p]]
    /\ ledger' = [p \in Pair |->
          IF Released(w, p) THEN NoRow
          ELSE IF Opened(w, p) THEN [tier       |-> w[p],
                                     madeMember |-> member[p] = "none",
                                     madeTier   |-> tier[p] = "none"]
          ELSE IF Retiered(w, p) THEN [ledger[p] EXCEPT !.tier = w[p]]
          ELSE ledger[p]]

\* What the groups want is read once, from the tables as the request left them.
Reconcile == \E w \in {[p \in Pair |-> Wanted(p)']} : ReconcileTo(w)

\* How a group request ends, once the directory is written.
Settled ==
    \/ Reconcile /\ behind' = FALSE
    \/ UNCHANGED <<access, ledger>> /\ behind' = TRUE

-----------------------------------------------------------------------------
(* The directory.                                                          *)

\* POST /Groups
PostGroup(g, M) ==
    /\ g \in Group \ groups /\ M \subseteq users
    /\ Cardinality(users) + Cardinality(groups) < Crowd
    /\ groups' = groups \cup {g} /\ inGroup' = inGroup \cup ({g} \X M)
    /\ UNCHANGED <<people, grants, held>> /\ Settled

\* PUT /Groups/:id replaces the whole list.
PutGroup(g, M) ==
    /\ g \in groups /\ M \subseteq users
    /\ inGroup' = (inGroup \ ({g} \X User)) \cup ({g} \X M)
    /\ UNCHANGED <<people, groups, grants, held>> /\ Settled

\* PATCH /Groups/:id: members in, members out; who is named twice is where
\* the last operation says.
PatchGroup(g, plus, minus) ==
    /\ g \in groups /\ plus \subseteq users /\ plus \cap minus = {}
    /\ inGroup' = (inGroup \cup ({g} \X plus)) \ ({g} \X minus)
    /\ UNCHANGED <<people, groups, grants, held>> /\ Settled

\* Mutant: no reconcile after the delete.
DeleteGroupOnly(g) ==
    /\ g \in groups
    /\ groups' = groups \ {g} /\ inGroup' = inGroup \ ({g} \X User)
    /\ grants' = [grants EXCEPT ![g] = [a \in App |-> "none"]]
    /\ behind' = FALSE /\ UNCHANGED <<people, access, ledger, held>>

\* DELETE /Groups/:id; members and mappings cascade.
DeleteGroup(g) ==
    /\ g \in groups
    /\ groups' = groups \ {g} /\ inGroup' = inGroup \ ({g} \X User)
    /\ grants' = [grants EXCEPT ![g] = [a \in App |-> "none"]]
    /\ UNCHANGED <<people, held>> /\ Settled

\* PUT /groups/:id/apps, by a platform admin.
MapApps(g, m) ==
    /\ g \in groups /\ \A a \in App : m[a] # "none" => a \in apps
    /\ grants' = [grants EXCEPT ![g] = m]
    /\ UNCHANGED <<people, groups, inGroup, held>> /\ Settled

\* What the foreign keys take along with a user, or with an app.
Cascade(gone) ==
    /\ member' = [p \in Pair |-> IF p \in gone THEN "none" ELSE member[p]]
    /\ tier'   = [p \in Pair |-> IF p \in gone THEN "none" ELSE tier[p]]
    /\ tierBy' = [p \in Pair |-> IF p \in gone THEN "none" ELSE tierBy[p]]
    /\ ledger' = [p \in Pair |-> IF p \in gone THEN NoRow ELSE ledger[p]]
    /\ held' = held \ gone

\* DELETE /Users/:id.  No reconcile; a row that names the user as the creator
\* of an app does not cascade and makes the request fail.
ScimDeleteUser(u) ==
    /\ u \in users /\ \A a \in App : creator[a] # u
    /\ users' = users \ {u} /\ inGroup' = inGroup \ (Group \X {u})
    /\ Cascade(App \X {u})
    /\ UNCHANGED <<apps, creator, groups, grants, behind>>

-----------------------------------------------------------------------------
(* The hands: dashboard and MCP tools.                                     *)

\* The writer of a row that a hand inserts or updates.
ByHand(old, p) == IF old = "hand" \/ ~Open(p) THEN "hand" ELSE "late"

Owners(a) == {u \in users : tier[<<a, u>>] = "owner"}

\* The guard of PUT /:slug/roles and of the MCP revocation.
NotLastOwner(p) == tier[p] = "owner" => Cardinality(Owners(p[1])) > 1

GiveTier(p, t) ==
    /\ tier' = [tier EXCEPT ![p] = t]
    /\ tierBy' = [tierBy EXCEPT ![p] = ByHand(@, p)]
    /\ member' = [member EXCEPT ![p] = IF @ = "none" THEN ByHand(@, p) ELSE @]
    /\ UNCHANGED <<people, directory, ledger, held>>

TakeAway(p) ==
    /\ NotLastOwner(p)
    /\ member' = [member EXCEPT ![p] = "none"]
    /\ tier' = [tier EXCEPT ![p] = "none"] /\ tierBy' = [tierBy EXCEPT ![p] = "none"]
    /\ held' = held \ {p}
    /\ UNCHANGED <<people, directory, ledger>>

\* PUT /:slug/roles
SetRole(p, t) ==
    /\ p \in apps \X users
    /\ IF t = "none" THEN TakeAway(p)
       ELSE (t # "owner" => NotLastOwner(p)) /\ GiveTier(p, t)

\* appcrane_grant_app_access and appcrane_approve_access_request: no such guard.
GrantAccess(p, t) == p \in apps \X users /\ GiveTier(p, t)

\* appcrane_revoke_app_access
RevokeAccess(p) == p \in apps \X users /\ TakeAway(p)

\* Mutant: the tiers of those who are not listed stay.
AssignMembersOnly(a, U) ==
    /\ a \in apps /\ U \subseteq users
    /\ member' = [p \in Pair |->
          IF p[1] # a THEN member[p]
          ELSE IF p[2] \in U THEN ByHand(member[p], p) ELSE "none"]
    /\ held' = {p \in held : p[1] = a => p[2] \in U}
    /\ UNCHANGED <<people, directory, tier, tierBy, ledger>>

\* PUT /:slug/users replaces the members; who is not listed loses all.
AssignUsers(a, U) ==
    /\ a \in apps /\ U \subseteq users
    /\ member' = [p \in Pair |->
          IF p[1] # a THEN member[p]
          ELSE IF p[2] \in U THEN ByHand(member[p], p) ELSE "none"]
    /\ tier'   = [p \in Pair |-> IF p[1] = a /\ p[2] \notin U THEN "none" ELSE tier[p]]
    /\ tierBy' = [p \in Pair |-> IF p[1] = a /\ p[2] \notin U THEN "none" ELSE tierBy[p]]
    /\ held' = {p \in held : p[1] = a => p[2] \in U}
    /\ UNCHANGED <<people, directory, ledger>>

\* PUT /:slug/app-roles/members/:userId; on is whether the list names the role.
SetAppRole(p, on) ==
    /\ p \in apps \X users /\ member[p] # "none"
    /\ held' = IF on THEN held \cup {p} ELSE held \ {p}
    /\ UNCHANGED <<people, directory, access, ledger>>

\* DELETE /:slug/app-roles/:id; its grants cascade.
DeleteAppRole(a) ==
    /\ a \in apps
    /\ held' = held \ ({a} \X User)
    /\ UNCHANGED <<people, directory, access, ledger>>

\* POST /api/apps
CreateApp(a, u) ==
    /\ a \notin apps /\ u \in users
    /\ apps' = apps \cup {a} /\ creator' = [creator EXCEPT ![a] = u]
    /\ member' = [member EXCEPT ![<<a, u>>] = "hand"]
    /\ tier' = [tier EXCEPT ![<<a, u>>] = "owner"]
    /\ tierBy' = [tierBy EXCEPT ![<<a, u>>] = "hand"]
    /\ UNCHANGED <<users, directory, ledger, held>>

\* DELETE /api/apps/:slug
DeleteApp(a) ==
    /\ a \in apps
    /\ apps' = apps \ {a} /\ creator' = [creator EXCEPT ![a] = NoUser]
    /\ grants' = [g \in Group |-> [grants[g] EXCEPT ![a] = "none"]]
    /\ Cascade({a} \X User)
    /\ UNCHANGED <<users, groups, inGroup, behind>>

\* DELETE /api/users/:id
DeleteUser(u) ==
    /\ u \in users
    /\ users' = users \ {u} /\ inGroup' = inGroup \ (Group \X {u})
    /\ creator' = [a \in App |-> IF creator[a] = u THEN NoUser ELSE creator[a]]
    /\ Cascade(App \X {u})
    /\ UNCHANGED <<apps, groups, grants, behind>>

\* backfillAppOwners, when the server starts.  It inserts the tier alone, and
\* ignores the creator who has another tier.
Promoted(p) ==
    /\ p[1] \in apps /\ p[2] = creator[p[1]]
    /\ Owners(p[1]) = {} /\ tier[p] = "none"

Boot ==
    /\ tier'   = [p \in Pair |-> IF Promoted(p) THEN "owner" ELSE tier[p]]
    /\ tierBy' = [p \in Pair |-> IF Promoted(p) THEN ByHand("none", p) ELSE tierBy[p]]
    /\ UNCHANGED <<people, directory, member, ledger, held>>

-----------------------------------------------------------------------------
GroupStep ==
    \E g \in Group :
        \/ \E M \in SUBSET User : PostGroup(g, M) \/ PutGroup(g, M)
        \* several operations at once end in a list that PUT reaches as well
        \/ \E u \in User : PatchGroup(g, {u}, {}) \/ PatchGroup(g, {}, {u})
        \/ DeleteGroup(g)
        \/ \E m \in [App -> Tier \cup {"none"}] : MapApps(g, m)

HandStep ==
    \/ \E p \in Pair :
          \/ \E t \in Tier \cup {"none"} : SetRole(p, t)
          \/ \E t \in Tier : GrantAccess(p, t)
          \/ RevokeAccess(p)
          \/ \E on \in BOOLEAN : SetAppRole(p, on)
    \/ \E a \in App :
          \/ \E U \in SUBSET User : AssignUsers(a, U)
          \/ DeleteAppRole(a) \/ DeleteApp(a)
          \/ \E u \in User : CreateApp(a, u)
    \/ \E u \in User : ScimDeleteUser(u) \/ DeleteUser(u)

Next == GroupStep \/ HandStep \/ Boot

Spec == Init /\ [][Next]_vars

-----------------------------------------------------------------------------
(* The ledger agrees with the groups after every request, also after those  *)
(* that do not reconcile: deleted users and apps take their rows along.  A  *)
(* crash leaves it behind them until the next group request, whichever      *)
(* group that is about, sweeps everything.                                  *)
LedgerIsWanted == ~behind => \A p \in Pair : ledger[p].tier = Wanted(p)

(* Nothing the reconciler wrote outlives the groups it was written for, and *)
(* the tier it wrote is the one they want now, however often the groups and *)
(* their worth change, whatever hands do to the rows in between, and        *)
(* however many requests the server died in before the last one.            *)
NoGroupLeftovers ==
    ~behind => \A p \in Pair :
        /\ member[p] = "group" => Wanted(p) # "none"
        /\ tierBy[p] = "group" => tier[p] = Wanted(p)

(* Who is not a member has no tier, which /api/identity/verify would read   *)
(* first; but for the creator, whom the start of the server promotes.       *)
TierNeedsMember ==
    \A p \in Pair : tier[p] # "none" => member[p] # "none" \/ p[2] = creator[p[1]]

\* A request about groups that changed something.
OfGroups == UNCHANGED people /\ directory' # directory

(* 084-scim-groups.sql: "A pre-existing direct grant survives": no request  *)
(* about groups touches a row a hand wrote while the ledger did not list    *)
(* the pair.                                                                *)
DirectStays ==
    [][OfGroups => \A p \in Pair :
          /\ member[p] = "hand" => member'[p] = "hand"
          /\ tierBy[p] = "hand" => tierBy'[p] = "hand" /\ tier'[p] = tier[p]]_vars

(* scimGroupAccess.js:21: it "never overwrites a tier a human set by hand". *)
HandTierStays ==
    [][OfGroups => \A p \in Pair :
          tierBy[p] \in {"hand", "late"} => tier'[p] \in {tier[p], "none"}]_vars

(* appDefinedRoles.js:205: "re-adding the person later does not silently    *)
(* restore roles nobody re-granted".                                        *)
NothingRestored ==
    [][\A p \in held : member[p] = "none" => member'[p] = "none" \/ p \notin held']_vars

=============================================================================
