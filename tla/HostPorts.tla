----------------------------- MODULE HostPorts -----------------------------
(***************************************************************************)
(* Public host ports: the apps columns that select an ingress type and a   *)
(* port, the app_host_ports registry that owns every port, and the         *)
(* containers that bind them (server/services/tcpIngress.js; the writers   *)
(* PUT /api/apps/:slug and appcrane_set_app_ingress; startApp() in         *)
(* server/services/docker.js).                                             *)
(*                                                                         *)
(* A port is a `docker run` flag.  It is read from the row when the run is *)
(* issued, the container answers on it until it is removed, and the        *)
(* registry has to keep the number out of the pool in between.  Each await *)
(* of startApp() and of the delete route is a step boundary; a request     *)
(* handler with its checks and its transaction is one step, also where it  *)
(* awaits the import of a module that was loaded when the server started   *)
(* (apps.js:962, mcpTools.js:2563), which waits for nothing.               *)
(*                                                                         *)
(* One start of a lane at a time: overlapping runs on one container are    *)
(* the subject of Deploy.  A registry that disagrees with the columns      *)
(* before the first step (a hand-edited row) is not modelled.              *)
(***************************************************************************)
EXTENDS Naturals

CONSTANTS App,
          Lane,         \* the <<app, environment>> pairs considered
          Port,         \* host ports considered
          AutoPort,     \* those of the band AppCrane allocates from
          ReservedPort  \* those assertPublicPortAssignable refuses outright

NoPort == 0

Prod(a) == <<a, "production">>
Sand(a) == <<a, "sandbox">>

ASSUME PortsAssumption ==
    /\ Port \subseteq Nat \ {NoPort}
    /\ AutoPort \subseteq Port /\ ReservedPort \subseteq Port
    /\ Lane \subseteq App \X {"production", "sandbox"}
    /\ \A a \in App : Prod(a) \in Lane

NoLane == <<"none", "none">>

Type == {"http", "tcp", "dual"}

VARIABLES
    exists,     \* apps with a row
    type,       \* apps.ingress_type
    dataPlane,  \* apps.data_plane_port is set
    col,        \* apps.public_port / apps.sandbox_public_port
    owner,      \* app_host_ports: the lane a port belongs to
    draining,   \* rows in state 'draining'; the other rows are 'pinned'
    live,       \* the lane has a deployment row in status 'live'
    bound,      \* the port the lane's container was started with
    start,      \* where the startApp() call of the lane is
    pub,        \* the publish target that call has read
    deleting,   \* apps whose delete request has stopped the containers
    since       \* history: what was done to the lane since its target was read

rowVars  == <<exists, type, dataPlane, col, owner, draining>>
hostVars == <<live, bound, start, pub, deleting>>
vars == <<rowVars, hostVars, since>>

\* Nothing; a change; a change that takes the port from the container.
Event == {"nothing", "changed", "loosened"}

\* The columns, the registry and the containers hold what the schema allows;
\* in particular no number is drained that no lane owns.
TypeOK ==
    /\ exists \subseteq App
    /\ type \in [App -> Type]
    /\ dataPlane \in [App -> BOOLEAN]
    /\ col \in [Lane -> Port \cup {NoPort}]
    /\ owner \in [Port -> Lane \cup {NoLane}]
    /\ draining \subseteq {p \in Port : owner[p] \in Lane}
    /\ live \in [Lane -> BOOLEAN]
    /\ bound \in [Lane -> Port \cup {NoPort}]
    /\ start \in [Lane -> {"none", "stopping", "running", "created", "up"}]
    /\ pub \in [Lane -> Port \cup {NoPort}]
    /\ deleting \subseteq App
    /\ since \in [Lane -> Event]

Init ==
    /\ exists = {} /\ deleting = {}
    /\ type = [a \in App |-> "http"]
    /\ dataPlane = [a \in App |-> FALSE]
    /\ col = [l \in Lane |-> NoPort]
    /\ owner = [p \in Port |-> NoLane]
    /\ draining = {}
    /\ live = [l \in Lane |-> FALSE]
    /\ bound = [l \in Lane |-> NoPort]
    /\ start = [l \in Lane |-> "none"]
    /\ pub = [l \in Lane |-> NoPort]
    /\ since = [l \in Lane |-> "nothing"]

-----------------------------------------------------------------------------
(* The allocator.  r is the registry with its mirror columns: a record     *)
(* with fields owner, draining and col.                                    *)

Registry == [owner |-> owner, draining |-> draining, col |-> col]

PinnedRows(r, l) == {p \in Port : r.owner[p] = l /\ p \notin r.draining}
OwnedRows(r, l)  == {p \in Port : r.owner[p] = l}

\* No other lane, of any app and any environment, has the number in any state.
Assignable(r, l, p) == p \notin ReservedPort /\ r.owner[p] \in {NoLane, l}

AutoPorts(r, l) == {p \in AutoPort : Assignable(r, l, p)}

\* The number is one the INSERT of a pinned row can take: a row of the lane
\* itself that is draining still holds the primary key.
Insertable(r, l, p) == r.owner[p] = NoLane \/ (r.owner[p] = l /\ p \notin r.draining)

\* The lowest free port of the band; none when the band is full.
LowestAuto(r, l) ==
    {q \in AutoPorts(r, l) :
        Insertable(r, l, q) /\ \A m \in AutoPorts(r, l) : q <= m}

\* Only the pinned row is replaced.
Claimed(r, l, p) ==
    [owner |-> [q \in Port |-> IF q = p THEN l
                               ELSE IF q \in PinnedRows(r, l) THEN NoLane
                               ELSE r.owner[q]],
     draining |-> r.draining,
     col |-> [r.col EXCEPT ![l] = p]]

\* The container of the lane is answering on the number it is moved away from.
Published(r, l, p) == r.col[l] # NoPort /\ live[l] /\ r.col[l] # p

Drained(r, l) ==
    [owner |-> r.owner, draining |-> r.draining \cup PinnedRows(r, l), col |-> r.col]

\* Faulty: a re-pin forgets the number the running container answers on.
AssignsToForgetting(r, l, p) ==
    IF p = NoPort
    THEN IF r.col[l] # NoPort THEN {r}
         ELSE {Claimed(r, l, q) : q \in LowestAuto(r, l)}
    ELSE IF Assignable(r, l, p) /\ Insertable(r, l, p) THEN {Claimed(r, l, p)} ELSE {}

\* What the registry becomes, and whether the transaction commits, when the
\* lane is given the port p, or any port when p is NoPort.
AssignsTo(r, l, p) ==
    IF p = NoPort
    THEN IF r.col[l] # NoPort THEN {r}
         ELSE {Claimed(r, l, q) : q \in LowestAuto(r, l)}
    ELSE LET d == IF Published(r, l, p) THEN Drained(r, l) ELSE r
         IN IF Assignable(d, l, p) /\ Insertable(d, l, p)
            THEN {Claimed(d, l, p)} ELSE {}

\* Faulty: the registry is cleared and the column is not.
DroppedInRegistry(r, l) ==
    [owner |-> [q \in Port |-> IF r.owner[q] = l THEN NoLane ELSE r.owner[q]],
     draining |-> r.draining \ OwnedRows(r, l),
     col |-> r.col]

\* Both the pinned and the draining rows go.
Dropped(r, l) ==
    [owner |-> [q \in Port |-> IF r.owner[q] = l THEN NoLane ELSE r.owner[q]],
     draining |-> r.draining \ OwnedRows(r, l),
     col |-> [r.col EXCEPT ![l] = NoPort]]

\* Draining rows go back to the pool.
Freed(r, l) ==
    [owner |-> [q \in Port |-> IF r.owner[q] = l /\ q \in r.draining
                               THEN NoLane ELSE r.owner[q]],
     draining |-> r.draining \ OwnedRows(r, l),
     col |-> r.col]

\* Faulty: the number of an app that was switched to http is never given back.
RecreatedKeepingPin(r, l) == Freed(r, l)

\* After `docker run`: the draining rows, and the number of an app that was
\* switched to http.  The row is read now, not when the run was issued.
Recreated(r, l) ==
    IF l[2] = "production" /\ type[l[1]] = "http" /\ r.col[l] # NoPort
    THEN Dropped(r, l) ELSE Freed(r, l)

SetRegistry(r) ==
    /\ owner' = r.owner
    /\ draining' = r.draining
    /\ col' = r.col

-----------------------------------------------------------------------------
(* Requests that select the ingress of an app.                             *)

\* What a request asks: "keep" leaves the field out, "drop" sends null.
DataPlaneArg == {"keep", "drop", "set"}
SandboxArg == [do : {"keep", "drop"}] \cup [do : {"pin"}, port : Port]

\* The data plane the row would carry.
NextDataPlane(a, dp) == IF dp = "keep" THEN dataPlane[a] ELSE dp = "set"

\* Faulty: a tcp app may be left with a stored data plane port.
AcceptedStillPinned(a, t, dp) ==
    /\ (dp = "set" => t = "dual") /\ (dp = "drop" => t # "dual")
    /\ (t = "dual" => NextDataPlane(a, dp))

\* The refusals the REST route and the MCP tool share.
Accepted(a, t, dp) ==
    /\ (dp = "set" => t = "dual") /\ (dp = "drop" => t # "dual")
    /\ (t = "tcp" => ~NextDataPlane(a, dp))
    /\ (t = "dual" => NextDataPlane(a, dp))

\* The history of the lanes of a that the request changes.  The container may
\* answer on a number taken from it when the number is dropped, when the change
\* comes between the read of the publish target and the return of `docker run`,
\* and when no live row says that a container is bound to the old number.
Touch(a, r, t, dp, dropped) ==
    since' = [l \in Lane |->
        IF l[1] # a \/ (/\ r.col[l] = col[l] /\ type[a] = t
                        /\ OwnedRows(r, l) = OwnedRows(Registry, l)
                        /\ dataPlane[a] = NextDataPlane(a, dp))
        THEN since[l]
        ELSE IF \/ l \in dropped \/ since[l] = "loosened"
                \/ start[l] \in {"running", "created"}
                \/ r.col[l] # col[l] /\ ~live[l]
             THEN "loosened" ELSE "changed"]

SetRow(a, t, dp) ==
    /\ type' = [type EXCEPT ![a] = t]
    /\ dataPlane' = [dataPlane EXCEPT ![a] = NextDataPlane(a, dp)]
    /\ UNCHANGED <<exists, hostVars>>

\* Publish: the production port is assigned, then the sandbox one when named.
Publish(a, t, dp, p, sand) ==
    /\ a \in exists
    /\ t # "http" /\ Accepted(a, t, dp)
    /\ Sand(a) \in Lane \/ sand.do = "keep"
    /\ \E r1 \in AssignsTo(Registry, Prod(a), p) :
       \E r2 \in CASE sand.do = "keep" -> {r1}
                   [] sand.do = "drop" -> {Dropped(r1, Sand(a))}
                   [] sand.do = "pin"  -> AssignsTo(r1, Sand(a), sand.port) :
           /\ SetRegistry(r2)
           /\ Touch(a, r2, t, dp, IF sand.do = "drop" THEN {Sand(a)} ELSE {})
    /\ SetRow(a, t, dp)

\* PUT with ingress_type http: the number stays reserved, sandbox is untouched.
StopPublishing(a, dp) ==
    /\ a \in exists
    /\ Accepted(a, "http", dp)
    /\ UNCHANGED <<col, owner, draining>>
    /\ Touch(a, Registry, "http", dp, {})
    /\ SetRow(a, "http", dp)

\* The MCP tool drops the sandbox number whatever the type.
McpStopPublishing(a, dp) ==
    /\ a \in exists /\ Sand(a) \in Lane
    /\ Accepted(a, "http", dp)
    /\ LET r == Dropped(Registry, Sand(a))
       IN SetRegistry(r) /\ Touch(a, r, "http", dp, {Sand(a)})
    /\ SetRow(a, "http", dp)

CreateApp(a) ==
    /\ a \notin exists
    /\ exists' = exists \cup {a}
    /\ UNCHANGED <<type, dataPlane, col, owner, draining, hostVars, since>>

\* DELETE stops both containers, then awaits the managed databases.
DeleteStops(a) ==
    /\ a \in exists \ deleting
    /\ deleting' = deleting \cup {a}
    /\ bound' = [l \in Lane |-> IF l[1] = a THEN NoPort ELSE bound[l]]
    /\ UNCHANGED <<rowVars, live, start, pub, since>>

\* The row goes, and the registry rows with it.
DeleteRow(a) ==
    /\ a \in deleting
    /\ deleting' = deleting \ {a}
    /\ exists' = exists \ {a}
    /\ type' = [type EXCEPT ![a] = "http"]
    /\ dataPlane' = [dataPlane EXCEPT ![a] = FALSE]
    /\ col' = [l \in Lane |-> IF l[1] = a THEN NoPort ELSE col[l]]
    /\ owner' = [p \in Port |-> IF owner[p][1] = a THEN NoLane ELSE owner[p]]
    /\ draining' = {p \in draining : owner[p][1] # a}
    /\ live' = [l \in Lane |-> IF l[1] = a THEN FALSE ELSE live[l]]
    /\ since' = [l \in Lane |-> IF l[1] = a THEN "loosened" ELSE since[l]]
    /\ UNCHANGED <<bound, start, pub>>

-----------------------------------------------------------------------------
(* startApp(), and the deployment it is a part of.                         *)

\* A promote or a rollback retires the live rows before it starts the container.
StartBegins(l, retires) ==
    /\ l[1] \in exists /\ start[l] = "none"
    /\ start' = [start EXCEPT ![l] = "stopping"]
    /\ live' = [live EXCEPT ![l] = @ /\ ~retires]
    /\ UNCHANGED <<rowVars, bound, pub, deleting, since>>

\* The app's publish target as the row stands.
PublishTarget(l) ==
    IF l[1] \in exists /\ type[l[1]] # "http"
       /\ (type[l[1]] = "dual" => dataPlane[l[1]])
    THEN col[l] ELSE NoPort

\* The old container is gone; the target is read and `docker run` is issued.
StartRuns(l) ==
    /\ start[l] = "stopping"
    /\ start' = [start EXCEPT ![l] = "running"]
    /\ bound' = [bound EXCEPT ![l] = NoPort]
    /\ pub' = [pub EXCEPT ![l] = PublishTarget(l)]
    /\ since' = [since EXCEPT ![l] = "nothing"]
    /\ UNCHANGED <<rowVars, live, deleting>>

\* Docker refuses a port another container is bound to.
Bindable(l) == \A m \in Lane \ {l} : bound[m] = NoPort \/ bound[m] # pub[l]

StartBinds(l) ==
    /\ start[l] = "running" /\ Bindable(l)
    /\ start' = [start EXCEPT ![l] = "created"]
    /\ bound' = [bound EXCEPT ![l] = pub[l]]
    /\ UNCHANGED <<rowVars, live, pub, deleting, since>>

\* `docker run` has returned: releasePendingPortAfterRecreate.
StartReturns(l) ==
    /\ start[l] = "created"
    /\ start' = [start EXCEPT ![l] = "up"]
    /\ IF l[1] \in exists THEN SetRegistry(Recreated(Registry, l))
                          ELSE UNCHANGED <<owner, draining, col>>
    /\ UNCHANGED <<exists, type, dataPlane, live, bound, pub, deleting, since>>

\* The network is missing, or `docker run` fails.
StartFails(l) ==
    /\ start[l] \in {"stopping", "running"}
    /\ start' = [start EXCEPT ![l] = "none"]
    /\ pub' = [pub EXCEPT ![l] = NoPort]
    /\ UNCHANGED <<rowVars, live, bound, deleting, since>>

\* The container is healthy and its row becomes live, or the run gives up.
StartEnds(l, ok) ==
    /\ start[l] = "up"
    /\ start' = [start EXCEPT ![l] = "none"]
    /\ live' = [live EXCEPT ![l] = @ \/ (ok /\ l[1] \in exists)]
    /\ pub' = [pub EXCEPT ![l] = NoPort]
    /\ UNCHANGED <<rowVars, bound, deleting, since>>

\* The server dies.  A `docker run` already issued may still create the
\* container; nothing on boot releases or re-reads a port.
Crash ==
    /\ \E L \in SUBSET {l \in Lane : start[l] = "running" /\ Bindable(l)} :
        /\ \A l, m \in L : l = m \/ pub[l] = NoPort \/ pub[l] # pub[m]
        /\ bound' = [l \in Lane |-> IF l \in L THEN pub[l] ELSE bound[l]]
    /\ start' = [l \in Lane |-> "none"]
    /\ pub' = [l \in Lane |-> NoPort]
    /\ deleting' = {}
    /\ UNCHANGED <<rowVars, live, since>>

Next ==
    \/ \E a \in App :
        \/ CreateApp(a) \/ DeleteStops(a) \/ DeleteRow(a)
        \/ \E dp \in DataPlaneArg :
            \/ StopPublishing(a, dp)
            \/ McpStopPublishing(a, dp)
            \/ \E t \in Type, p \in Port \cup {NoPort}, sand \in SandboxArg :
                  Publish(a, t, dp, p, sand)
    \/ \E l \in Lane :
        \/ \E retires \in BOOLEAN : StartBegins(l, retires)
        \/ StartRuns(l) \/ StartBinds(l) \/ StartReturns(l) \/ StartFails(l)
        \/ \E ok \in BOOLEAN : StartEnds(l, ok)
    \/ Crash

Spec == Init /\ [][Next]_vars

-----------------------------------------------------------------------------
(* Properties.                                                             *)

(* tcpIngress.js keeps two copies of who holds a port and writes them       *)
(* together: a column says p exactly when the registry has p pinned to that *)
(* lane, so no lane has two pinned numbers and no number is forgotten by    *)
(* re-pins, drops, recreates, deletes and crashes in any order.             *)
MirrorAgrees ==
    \A l \in Lane :
        PinnedRows(Registry, l) = IF col[l] = NoPort THEN {} ELSE {col[l]}

(* A type change that fails leaves no trace and one that commits is whole:  *)
(* a publishing app always holds a production port, a dual app has a data   *)
(* plane port, and a tcp app, whose publish targets the control plane,      *)
(* never keeps a data plane port from an earlier life as dual.              *)
PublishingIsWhole ==
    \A a \in App :
        /\ type[a] # "http" => col[Prod(a)] # NoPort
        /\ type[a] = "dual" <=> (dataPlane[a] /\ type[a] # "http")

(* The reservation outlives the publish: a number that a container answers  *)
(* on, or that a `docker run` under way will bind, belongs to that lane --  *)
(* through flips to http and back, re-pins, failed starts and crashes --    *)
(* unless the change is one of the three kinds that loosen it (see Touch).  *)
BoundIsReserved ==
    \A l \in Lane : since[l] # "loosened" =>
        /\ bound[l] # NoPort => owner[bound[l]] = l
        /\ start[l] = "running" /\ pub[l] # NoPort => owner[pub[l]] = l

(* What an operator sees of that: a `docker run` is never refused because   *)
(* another app answers on the port the row gave it.                         *)
NoPortClash ==
    \A l, m \in Lane : l # m /\ since[l] # "loosened" /\ since[m] # "loosened" =>
        ~(start[l] = "running" /\ pub[l] # NoPort /\ pub[l] = bound[m])

(* Nothing is held back for ever: once a production container has been      *)
(* recreated after the last change of its ingress, its app has exactly the  *)
(* port that container was given, and an app that no longer publishes has   *)
(* none.                                                                    *)
NothingLeftReserved ==
    \A l \in Lane :
        l[2] = "production" /\ start[l] = "up" /\ since[l] = "nothing"
            => OwnedRows(Registry, l) = {pub[l]} \ {NoPort}

(* tcpIngress.js:304 says of a reservation that "it goes back in the pool   *)
(* at the one moment nothing can still bind it".                            *)
ReservedWhileBound ==
    \A l \in Lane : bound[l] # NoPort => owner[bound[l]] = l

=============================================================================
