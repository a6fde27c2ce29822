----------------------------- MODULE ManagedDb -----------------------------
(***************************************************************************)
(* The managed databases of one engine (server/services/managedDb.js) and  *)
(* the requests that make and drop them (routes/managedDb.js,              *)
(* routes/apps.js DELETE).                                                 *)
(*                                                                         *)
(* A request runs between its awaits as one step: a docker call, or one    *)
(* statement inside the engine.  SQLite and the engine share nothing, so a *)
(* row, its role and its database come and go in different steps.  Names   *)
(* are functions of the app here and stand for the app; row ids and the    *)
(* passwords of roles are fresh, so one number is both.  Left out:         *)
(* tenants, what the grants say, and statements that still run after their *)
(* client's timeout.                                                       *)
(***************************************************************************)
EXTENDS Naturals

CONSTANTS App, Proc,      \* apps, and requests under way at once
          AdminPw,        \* superuser passwords
          None,
          MaxRows,        \* bound on the rows ever inserted
          MaxCrashes      \* bound on the restarts of the server

ASSUME ManagedDbAssumption ==
    None \notin App \cup AdminPw /\ MaxRows \in Nat /\ MaxCrashes \in Nat

VARIABLES
    engine,    \* which engine this is
    gateway,   \* the host can bind the bridge gateway
    apps,      \* the apps table
    srv,       \* the superuser password in managed_db_servers
    box,       \* the container; "created": it has bindings it cannot get
    boxPw,     \* the password in its environment
    cred,      \* the password in its /root/.my.cnf
    volume,    \* the password the data directory was initialised with
    rows,      \* managed_databases: the id of the app's row; 0: no row
    lastRow,   \* the last id given out
    roles,     \* in the engine: the role's password; 0: no role
    dbs,       \* in the engine: the apps that have a database
    req,       \* the requests under way: where, what, for whom, with what
    stained,   \* apps with overlapping requests, a failed drop or a crash
    crashes

table  == <<apps, srv, rows, lastRow>>
server == <<box, boxPw, cred, volume>>
inside == <<roles, dbs>>
fixed  == <<engine, gateway>>
vars   == <<fixed, table, server, inside, req, stained, crashes>>

Ensuring == {"inspect", "start", "rm", "run", "rmAgain", "runLoopback", "ready"}
Making   == {"look", "role", "base", "schema"}
Dropping == {"dropBase", "dropRole"}

\* row: the row it inserted or read; admin: the superuser password it read.
Idle == [at |-> "idle", job |-> "none", app |-> None, row |-> 0, admin |-> None]
Request ==
    [at : {"stop", "gone"} \cup Ensuring \cup Making \cup Dropping,
     job : {"provision", "deprovision", "delete"}, app : App,
     row : 0 .. MaxRows, admin : AdminPw \cup {None}]

TypeOK ==
    /\ engine \in {"postgres", "mariadb"} /\ gateway \in BOOLEAN
    /\ apps \subseteq App
    /\ srv \in AdminPw \cup {None}
    /\ box \in {"none", "created", "stopped", "running"}
    /\ boxPw \in AdminPw \cup {None}
    /\ cred \in AdminPw \cup {None} /\ volume \in AdminPw \cup {None}
    /\ lastRow \in 0 .. MaxRows
    /\ rows \in [App -> 0 .. MaxRows] /\ roles \in [App -> 0 .. MaxRows]
    /\ \A a \in App : rows[a] # 0 => a \in apps
    /\ dbs \subseteq App
    /\ req \in [Proc -> Request \cup {Idle}]
    /\ stained \subseteq App /\ crashes \in 0 .. MaxCrashes

Init ==
    /\ engine \in {"postgres", "mariadb"} /\ gateway \in BOOLEAN
    /\ apps = App /\ srv = None
    /\ box = "none" /\ boxPw = None /\ cred = None /\ volume = None
    /\ rows = [a \in App |-> 0] /\ roles = [a \in App |-> 0] /\ dbs = {} /\ lastRow = 0
    /\ req = [p \in Proc |-> Idle]
    /\ stained = {} /\ crashes = 0

AtWork(a) == \E p \in Proc : req[p].app = a

GoesTo(p, where) == req' = [req EXCEPT ![p].at = where]
Ends(p) == req' = [req EXCEPT ![p] = Idle]
Stain(a) == stained' = stained \cup {a}

\* A deletion that fails to drop says so in the log and goes on.
Dropless(p) == IF req[p].job = "delete" THEN GoesTo(p, "gone") ELSE Ends(p)

\* ensureServer throws.
Throws(p) ==
    /\ Dropless(p)
    /\ IF req[p].job = "delete" THEN Stain(req[p].app) ELSE UNCHANGED stained

-----------------------------------------------------------------------------
(* ensureServer.                                                           *)

\* docker inspect has answered, or failed, which reads as no container.
Inspect(p) ==
    /\ req[p].at = "inspect"
    /\ \/ box = "running" /\ GoesTo(p, "ready")
       \/ box \in {"created", "stopped"} /\ GoesTo(p, "start")
       \/ GoesTo(p, "run")
    /\ UNCHANGED <<fixed, table, server, inside, stained, crashes>>

\* The image's entry point: the password counts in an empty directory only.
Runs(w) ==
    /\ box' = "running" /\ boxPw' = w
    /\ volume' = IF volume = None THEN w ELSE volume

Start(p) ==
    /\ req[p].at = "start"
    /\ \/ /\ box \in {"stopped", "running"} /\ Runs(boxPw)
          /\ GoesTo(p, "ready") /\ UNCHANGED <<cred, stained>>
       \/ /\ box = "created" /\ GoesTo(p, "rm")
          /\ UNCHANGED <<server, stained>>
       \/ Throws(p) /\ UNCHANGED server
    /\ UNCHANGED <<fixed, table, inside, crashes>>

\* docker rm -f, whose failure is ignored.
Remove(p) ==
    /\ \/ req[p].at = "rm" /\ GoesTo(p, "run")
       \/ req[p].at = "rmAgain" /\ GoesTo(p, "runLoopback")
    /\ \/ box' = "none" /\ boxPw' = None /\ cred' = None /\ UNCHANGED volume
       \/ UNCHANGED server
    /\ UNCHANGED <<fixed, table, inside, stained, crashes>>

\* docker run: the name may be taken, the gateway not bindable.
Run(p) ==
    /\ req[p].at \in {"run", "runLoopback"}
    /\ \/ /\ box = "none" /\ (req[p].at = "runLoopback" \/ gateway)
          /\ Runs(req[p].admin) /\ GoesTo(p, "ready")
          /\ UNCHANGED <<cred, stained>>
       \/ /\ box = "none" /\ req[p].at = "run" /\ ~gateway
          /\ box' = "created" /\ boxPw' = req[p].admin /\ GoesTo(p, "rmAgain")
          /\ UNCHANGED <<cred, volume, stained>>
       \/ /\ box = "none" /\ box' = "stopped" /\ boxPw' = req[p].admin
          /\ Throws(p) /\ UNCHANGED <<cred, volume>>
       \/ Throws(p) /\ UNCHANGED server
    /\ UNCHANGED <<fixed, table, inside, crashes>>

\* waitReady, the credential file, the server-wide revokes.
Ready(p) ==
    /\ req[p].at = "ready"
    /\ \/ /\ box = "running"
          /\ cred' = IF engine = "mariadb" THEN req[p].admin ELSE cred
          /\ GoesTo(p, IF req[p].job = "provision" THEN "look" ELSE "dropBase")
          /\ UNCHANGED stained
       \/ Throws(p) /\ UNCHANGED cred
    /\ UNCHANGED <<fixed, table, box, boxPw, volume, inside, crashes>>

-----------------------------------------------------------------------------
(* The requests.                                                           *)

\* Mutant: a password per start.
PasswordAnew(w) == srv' = IF srv = None THEN w ELSE srv

\* ensureServer, before its first await: the server row's password, which is
\* written fresh when there is no row.
Password(w) == srv \in {None, w} /\ srv' = w

\* A request is let in; one that meets another of its app is not alone.
Begin(p, a, r) ==
    /\ req[p] = Idle /\ a \in apps
    /\ req' = [req EXCEPT ![p] = r]
    /\ stained' = IF AtWork(a) THEN stained \cup {a} ELSE stained

\* provision, up to its first await.
Provision(p, a) ==
    /\ \E w \in AdminPw :
          /\ Password(w)
          /\ Begin(p, a, [at |-> "inspect", job |-> "provision", app |-> a,
                          row |-> 0, admin |-> w])
    /\ UNCHANGED <<fixed, apps, rows, lastRow, server, inside, crashes>>

\* deprovision: no row, nothing to do.
Deprovision(p, a) ==
    /\ rows[a] # 0
    /\ \E w \in AdminPw :
          /\ Password(w)
          /\ Begin(p, a, [at |-> "inspect", job |-> "deprovision", app |-> a,
                          row |-> rows[a], admin |-> w])
    /\ UNCHANGED <<fixed, apps, rows, lastRow, server, inside, crashes>>

\* DELETE /:slug stops the containers first.
DeleteApp(p, a) ==
    /\ Begin(p, a, [at |-> "stop", job |-> "delete", app |-> a, row |-> 0, admin |-> None])
    /\ UNCHANGED <<fixed, table, server, inside, crashes>>

\* deprovisionApp: the app's row is looked up only now.
Stopped(p) ==
    LET a == req[p].app IN
    /\ req[p].at = "stop"
    /\ \/ rows[a] = 0 /\ GoesTo(p, "gone") /\ UNCHANGED srv
       \/ /\ rows[a] # 0
          /\ \E w \in AdminPw :
                /\ Password(w)
                /\ req' = [req EXCEPT ![p].at = "inspect", ![p].row = rows[a],
                                      ![p].admin = w]
    /\ UNCHANGED <<fixed, apps, rows, lastRow, server, inside, stained, crashes>>

\* The deletion's transaction; the row of the database goes by cascade.
Gone(p) ==
    /\ req[p].at = "gone" /\ Ends(p)
    /\ apps' = apps \ {req[p].app} /\ rows' = [rows EXCEPT ![req[p].app] = 0]
    /\ UNCHANGED <<fixed, srv, lastRow, server, inside, stained, crashes>>

\* The existing row is returned; a new one goes in first.  An app deleted
\* meanwhile fails the foreign key.
Look(p) ==
    LET a == req[p].app IN
    /\ req[p].at = "look"
    /\ \/ /\ rows[a] # 0 \/ a \notin apps
          /\ Ends(p) /\ UNCHANGED <<rows, lastRow>>
       \/ /\ rows[a] = 0 /\ a \in apps /\ lastRow < MaxRows
          /\ lastRow' = lastRow + 1 /\ rows' = [rows EXCEPT ![a] = lastRow + 1]
          /\ req' = [req EXCEPT ![p].at = "role", ![p].row = lastRow + 1]
    /\ UNCHANGED <<fixed, apps, srv, server, inside, stained, crashes>>

-----------------------------------------------------------------------------
(* Inside the engine.                                                      *)

\* Postgres trusts its socket; MariaDB asks for the password in the file.
Up == box = "running" /\ (engine = "mariadb" => cred = volume)

\* Mutant: the row goes, what the engine holds stays.
RollbackRow(p) ==
    rows' = [rows EXCEPT ![req[p].app] = 0] /\ Ends(p)

\* The catch of provision: the row of the scope, then the engine.
Rollback(p) ==
    rows' = [rows EXCEPT ![req[p].app] = 0] /\ GoesTo(p, "dropBase")

\* CREATE ROLE; a failure may have left its effect.
MakeRole(p) ==
    LET a == req[p].app
        Works == Up /\ roles[a] = 0 /\ roles' = [roles EXCEPT ![a] = req[p].row] IN
    /\ req[p].at = "role"
    /\ \/ Works /\ GoesTo(p, "base") /\ UNCHANGED rows
       \/ (Works \/ UNCHANGED roles) /\ Rollback(p)
    /\ UNCHANGED <<fixed, apps, srv, lastRow, server, dbs, stained, crashes>>

\* CREATE DATABASE and its grants, for a role that must exist.
MakeDatabase(p) ==
    LET a == req[p].app
        Works == Up /\ roles[a] # 0 /\ a \notin dbs /\ dbs' = dbs \cup {a} IN
    /\ req[p].at = "base"
    /\ \/ /\ Works /\ UNCHANGED rows
          /\ IF engine = "postgres" THEN GoesTo(p, "schema") ELSE Ends(p)
       \/ (Works \/ UNCHANGED dbs) /\ Rollback(p)
    /\ UNCHANGED <<fixed, apps, srv, lastRow, server, roles, stained, crashes>>

\* The second script, inside the new database.
MakeSchema(p) ==
    /\ req[p].at = "schema"
    /\ \/ Up /\ req[p].app \in dbs /\ Ends(p) /\ UNCHANGED rows
       \/ Rollback(p)
    /\ UNCHANGED <<fixed, apps, srv, lastRow, server, inside, stained, crashes>>

\* DROP DATABASE IF EXISTS.
DropDatabase(p) ==
    LET Works == Up /\ dbs' = dbs \ {req[p].app} IN
    /\ req[p].at = "dropBase"
    /\ \/ Works /\ GoesTo(p, "dropRole") /\ UNCHANGED stained
       \/ (Works \/ UNCHANGED dbs) /\ Stain(req[p].app) /\ Dropless(p)
    /\ UNCHANGED <<fixed, table, server, roles, crashes>>

\* DROP ROLE IF EXISTS, and then the row by its id.  In Postgres a role that
\* owns a database stays.
DropRole(p) ==
    LET a == req[p].app
        Works == /\ Up /\ ~(engine = "postgres" /\ a \in dbs)
                 /\ roles' = [roles EXCEPT ![a] = 0] IN
    /\ req[p].at = "dropRole" /\ Dropless(p)
    /\ \/ /\ Works /\ UNCHANGED stained
          /\ rows' = IF req[p].job # "provision" /\ rows[a] = req[p].row
                     THEN [rows EXCEPT ![a] = 0] ELSE rows
       \/ (Works \/ UNCHANGED roles) /\ Stain(a) /\ UNCHANGED rows
    /\ UNCHANGED <<fixed, apps, srv, lastRow, server, dbs, crashes>>

-----------------------------------------------------------------------------

\* The engine's process dies, or the host restarts under it.
Stops ==
    /\ box = "running" /\ box' = "stopped"
    /\ UNCHANGED <<fixed, table, boxPw, cred, volume, inside, req, stained, crashes>>

\* The server dies: its requests end where they are.
Crash ==
    /\ crashes < MaxCrashes /\ crashes' = crashes + 1
    /\ req' = [p \in Proc |-> Idle]
    /\ stained' = stained \cup {a \in App : AtWork(a)}
    /\ UNCHANGED <<fixed, table, server, inside>>

Ensure(p) == Inspect(p) \/ Start(p) \/ Remove(p) \/ Run(p) \/ Ready(p)
Engine(p) ==
    \/ MakeRole(p) \/ MakeDatabase(p) \/ MakeSchema(p)
    \/ DropDatabase(p) \/ DropRole(p)

Next ==
    \/ \E p \in Proc, a \in App : Provision(p, a) \/ Deprovision(p, a) \/ DeleteApp(p, a)
    \/ \E p \in Proc : Ensure(p) \/ Look(p) \/ Stopped(p) \/ Gone(p) \/ Engine(p)
    \/ Stops \/ Crash

Spec == Init /\ [][Next]_vars

-----------------------------------------------------------------------------
(* The password that opens the data directory is the one in the row, in the *)
(* container's credential file and in every request under way, whatever     *)
(* removed, recreated or restarted the container (migration 085: a fresh    *)
(* password per start is refused months later).                             *)
AdminGetsIn ==
    volume # None =>
        /\ srv = volume /\ cred \in {None, volume}
        /\ \A p \in Proc : req[p].admin \in {None, volume}

(* An app whose requests never overlapped, failed to drop or were cut off   *)
(* has all three of row, role with the row's password, and database, or     *)
(* none; requests of other apps that remove the container do not matter.    *)
Whole(a) ==
    \/ rows[a] = 0 /\ roles[a] = 0 /\ a \notin dbs
    \/ rows[a] # 0 /\ roles[a] = rows[a] /\ a \in dbs
OneAtATimeIsWhole == \A a \in App \ stained : AtWork(a) \/ Whole(a)

(* mcpTools.js:4472: "the engine rolls back its own row and role on failure  *)
(* - so this is safe to retry": a provision that failed does not drop the   *)
(* database of a retry that has row, role and database together.            *)
RollsBackItsOwn ==
    [][\A p \in Proc :
          /\ req[p].job = "provision" /\ req[p].at = "dropBase"
          /\ req'[p] # req[p] /\ dbs' # dbs
          => ~(Whole(req[p].app) /\ rows[req[p].app] # 0)]_vars

=============================================================================
