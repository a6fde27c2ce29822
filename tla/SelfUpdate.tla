----------------------------- MODULE SelfUpdate -----------------------------
(***************************************************************************)
(* The server replacing its own code: POST /api/self-update and the boot   *)
(* sequence (server/index.js), the migrations (server/db.js), the          *)
(* snapshots taken before them (server/services/updateSnapshot.js), the    *)
(* boot wrapper (scripts/safe-boot.sh) and systemd, which starts it again  *)
(* (install.sh).                                                           *)
(*                                                                         *)
(* The steps of an update that block the event loop are apart only where a *)
(* crash between them is seen.  A release is its place in the history of   *)
(* origin/main; releases only add migrations.  systemd starts the unit     *)
(* again without end: install.sh writes StartLimitIntervalSec into the     *)
(* [Service] section, where systemd does not read it, and with a start     *)
(* every three seconds ten never fall into its default of ten seconds.     *)
(* Left out: the admin interface's bundle, the rebuilding of native        *)
(* addons, the refusals while builds or agents are at work, and files that *)
(* cannot be written.                                                      *)
(***************************************************************************)
EXTENDS Naturals, Sequences

CONSTANTS Update,      \* update requests that may be under way at once
          MaxRelease,  \* bound on the releases of origin/main
          Ships,       \* how many migrations the tree of a release has
          Bad,         \* migrations that fail on this host's data
          NoTx,        \* migrations that ask not to run in a transaction
          Once,        \* of these, the ones that fail over their own effect
          Modern,      \* releases that need a newer Node than the host had
          NoRecord,
          Keep,        \* KEEP, 5 in the code
          MaxTries,    \* MAX_ROLLBACK_ATTEMPTS, 3 in the script
          MaxCrashes   \* bound on the crashes of the host

Release == 1 .. MaxRelease
Record == [prev : Release, target : Release, done : BOOLEAN, ok : BOOLEAN,
           tries : 0 .. MaxTries]

ASSUME UpdateAssumption ==
    /\ MaxRelease \in Nat \ {0} /\ Ships \in [Release -> Nat]
    /\ \A r, s \in Release : r <= s => Ships[r] <= Ships[s]
    /\ Modern \subseteq Release /\ NoRecord \notin Record
    /\ Keep \in Nat \ {0} /\ MaxTries \in Nat /\ MaxCrashes \in Nat

VARIABLES
    origin,   \* the newest release
    fetched,  \* the host's origin/main
    tree,     \* the release checked out
    deps,     \* the release node_modules was installed for
    node,     \* the host's Node is the newer one
    applied,  \* rows of _migrations, in order
    effect,   \* migrations whose SQL has run
    torn,     \* the file of the next one was left in its middle, and cannot run again
    snaps,    \* update-snapshots, newest first: the `applied` of each
    record,   \* self-update-pending.json
    proc,     \* down, loading its modules, migrating, between the SQL of a migration
              \* and its row, or up
    code,     \* the release the process loaded
    at,       \* where each request is
    prev,     \* its previousSha
    floor,    \* the release it fetched needs the newer Node
    base,     \* what was applied when a release last came up
    opened,   \* boots that have taken a snapshot since, counted up to Keep + 1
    crashes

hostVars   == <<tree, deps, node>>
dbVars     == <<applied, effect, torn, snaps>>
reqVars    == <<at, prev, floor>>
historyVars == <<base, opened>>
vars == <<origin, fetched, hostVars, dbVars, record, proc, code, reqVars,
          historyVars, crashes>>

TypeOK ==
    /\ {origin, fetched, tree, deps, code} \subseteq Release
    /\ node \in BOOLEAN /\ torn \in BOOLEAN
    /\ applied \in Nat /\ effect \in Nat /\ base \in Nat /\ opened \in 0 .. Keep + 1
    /\ snaps \in Seq(Nat) /\ Len(snaps) <= Keep
    /\ record \in Record \cup {NoRecord}
    /\ proc \in {"down", "loading", "migrating", "recording", "up"}
    /\ at \in [Update -> {"idle", "captured", "fetched", "installing", "building",
                          "exiting"}]
    /\ prev \in [Update -> 0 .. MaxRelease] /\ floor \in [Update -> BOOLEAN]
    /\ crashes \in 0 .. MaxCrashes

Idle ==
    /\ at = [u \in Update |-> "idle"] /\ prev = [u \in Update |-> 0]
    /\ floor = [u \in Update |-> FALSE]

Init ==
    /\ origin = 1 /\ fetched = 1 /\ tree = 1 /\ deps = 1 /\ code = 1
    /\ node \in BOOLEAN /\ (1 \in Modern => node)
    /\ applied = Ships[1] /\ effect = Ships[1] /\ base = Ships[1] /\ snaps = <<>>
    /\ record = NoRecord /\ proc = "up" /\ torn = FALSE /\ opened = 0 /\ crashes = 0
    /\ Idle

\* Somebody pushes a release.
Push ==
    /\ origin < MaxRelease /\ origin' = origin + 1
    /\ UNCHANGED <<fetched, hostVars, dbVars, record, proc, code, reqVars,
                   historyVars, crashes>>

-----------------------------------------------------------------------------
(* Snapshots.                                                              *)

\* Mutant: the sort is the other way round.
KeptOldest(s) == SubSeq(s, IF Len(s) < Keep THEN 1 ELSE Len(s) - Keep + 1, Len(s))

Kept(s) == SubSeq(s, 1, IF Len(s) < Keep THEN Len(s) ELSE Keep)

\* createPreUpdateSnapshot with its prune.
createPreUpdateSnapshot == snaps' = Kept(<<applied>> \o snaps)

-----------------------------------------------------------------------------
(* POST /api/self-update, between its awaits.                              *)

\* npm install holds the event loop.
Free == proc = "up" /\ \A u \in Update : at[u] # "installing"

To(u, stage) == at' = [at EXCEPT ![u] = stage]

Ended(u) ==
    /\ To(u, "idle")
    /\ prev' = [prev EXCEPT ![u] = 0] /\ floor' = [floor EXCEPT ![u] = FALSE]

\* git rev-parse HEAD.
Capture(u) ==
    /\ Free /\ at[u] = "idle" /\ To(u, "captured")
    /\ prev' = [prev EXCEPT ![u] = tree]
    /\ UNCHANGED <<origin, fetched, hostVars, dbVars, record, proc, code, floor,
                   historyVars, crashes>>

\* Snapshot, git fetch, and the floor of what was fetched: the running release's
\* own when the other's package.json cannot be read.
Fetch(u) ==
    /\ Free /\ at[u] = "captured"
    /\ createPreUpdateSnapshot
    /\ \/ fetched' = origin /\ To(u, "fetched") /\ UNCHANGED prev
          /\ \E r \in {origin, code} : floor' = [floor EXCEPT ![u] = r \in Modern]
       \/ fetched' = fetched /\ Ended(u)
    /\ UNCHANGED <<origin, hostVars, applied, effect, torn, record, proc, code,
                   historyVars, crashes>>

\* A host below the floor is brought up to it, or the update refused; a process
\* started on the old Node asks although the host has the newer one by now.
planNodeUpgrade(u) == IF floor[u] THEN {"upgrade", "refuse"} ELSE {"proceed"}

\* Node first, the tree after it; or the handler stops at a refusal or an error.
Reset(u) ==
    /\ Free /\ at[u] = "fetched"
    /\ \E plan \in planNodeUpgrade(u) :
          /\ node' = (node \/ plan = "upgrade")
          /\ \/ plan # "refuse" /\ tree' = fetched /\ To(u, "installing")
                /\ UNCHANGED <<prev, floor>>
             \/ Ended(u) /\ UNCHANGED tree
    /\ UNCHANGED <<origin, fetched, deps, dbVars, record, proc, code,
                   historyVars, crashes>>

\* npm install, which may fail and leave the tree ahead of its dependencies.
Install(u) ==
    /\ proc = "up" /\ at[u] = "installing"
    /\ \/ deps' = tree /\ To(u, "building") /\ UNCHANGED <<prev, floor>>
       \/ Ended(u) /\ UNCHANGED deps
    /\ UNCHANGED <<origin, fetched, tree, node, dbVars, record, proc, code,
                   historyVars, crashes>>

\* The record for the boot sequence is written and the request answered.
WriteRecord(u) ==
    /\ Free /\ at[u] = "building" /\ To(u, "exiting")
    /\ record' = [prev |-> prev[u], target |-> tree, done |-> FALSE, ok |-> FALSE,
                  tries |-> 0]
    /\ UNCHANGED <<origin, fetched, hostVars, dbVars, proc, code, prev, floor,
                   historyVars, crashes>>

Down ==
    /\ proc' = "down"
    /\ at' = [u \in Update |-> "idle"] /\ prev' = [u \in Update |-> 0]
    /\ floor' = [u \in Update |-> FALSE]

\* A second later the process exits.
Exit ==
    /\ Free /\ \E u \in Update : at[u] = "exiting"
    /\ Down
    /\ UNCHANGED <<origin, fetched, hostVars, dbVars, record, code, historyVars,
                   crashes>>

\* POST /api/self-update/restart.
restart ==
    /\ Free /\ Down
    /\ UNCHANGED <<origin, fetched, hostVars, dbVars, record, code, historyVars,
                   crashes>>

Crash ==
    /\ proc # "down" /\ crashes < MaxCrashes
    /\ crashes' = crashes + 1 /\ Down
    /\ UNCHANGED <<origin, fetched, hostVars, dbVars, record, code, historyVars>>

-----------------------------------------------------------------------------
(* The boot: systemd, safe-boot.sh, the modules, the database.             *)

\* The wrapper brings Node up to what the tree needs, when the host lets it, and
\* installs the dependencies then; it spawns node in any case.
Start ==
    /\ proc = "down"
    /\ \/ UNCHANGED <<node, deps>>
       \/ tree \in Modern /\ ~node /\ node' = TRUE /\ deps' \in {deps, tree}
    /\ code' = tree /\ proc' = "loading"
    /\ UNCHANGED <<origin, fetched, tree, dbVars, record, reqVars, historyVars, crashes>>

\* Mutant: only the release that was asked for settles the record.
ReconciledByTarget(r) ==
    IF r \in Record /\ ~r.done /\ r.target = code
    THEN [r EXCEPT !.done = TRUE, !.ok = TRUE] ELSE r

\* The record of an update is settled by the next release that comes up.
Reconciled(r) ==
    IF r \in Record /\ ~r.done THEN [r EXCEPT !.done = TRUE, !.ok = r.target = code] ELSE r

Opened ==
    IF applied < Ships[code]
    THEN createPreUpdateSnapshot /\ opened' = IF opened > Keep THEN opened ELSE opened + 1
    ELSE UNCHANGED <<snaps, opened>>

\* Mutant: the record is settled with the boot sentinel, before the migrations.
OpenDbSettling ==
    /\ proc = "loading" /\ proc' = "migrating" /\ Opened
    /\ record' = Reconciled(record)
    /\ UNCHANGED <<origin, fetched, hostVars, applied, effect, torn, code, reqVars, base,
                   crashes>>

\* initDb, which runs while the modules load: a snapshot when migrations wait.
OpenDb ==
    /\ proc = "loading" /\ proc' = "migrating" /\ Opened
    /\ UNCHANGED <<origin, fetched, hostVars, applied, effect, torn, record, code,
                   reqVars, base, crashes>>

\* Mutant: no migration without a transaction can run over its own effect.
FailsTwice(m) == m \in Bad \/ torn \/ effect = m

\* The SQL of the next migration fails: on this host's data, over what was left
\* of its file, or over its own effect.
Fails(m) == m \in Bad \/ torn \/ (m \in Once /\ effect = m)

\* Mutant: the row is written before the SQL runs.
RowFirst(m) ==
    \/ /\ proc = "migrating" /\ m \in NoTx /\ proc' = "recording"
       /\ applied' = m /\ UNCHANGED effect
    \/ proc = "recording" /\ proc' = "migrating" /\ effect' = applied /\ UNCHANGED applied

\* A migration without a transaction: its SQL, again if need be, then its row.
SqlFirst(m) ==
    \/ /\ proc = "migrating" /\ m \in NoTx /\ proc' = "recording"
       /\ effect' = m /\ UNCHANGED applied
    \/ proc = "recording" /\ proc' = "migrating" /\ applied' = m /\ UNCHANGED effect

Migrate ==
    /\ LET m == applied + 1 IN
       /\ proc = "migrating" => applied < Ships[code] /\ ~Fails(m)
       /\ \/ SqlFirst(m)
          \/ /\ proc = "migrating" /\ m \notin NoTx
             /\ applied' = m /\ effect' = m /\ UNCHANGED proc
    /\ UNCHANGED <<origin, fetched, hostVars, torn, snaps, record, code, reqVars,
                   historyVars, crashes>>

\* What attempt_rollback finds: it looks in $DATA_DIR/.self-update, and the
\* server writes to $DATA_DIR.
SeenByWrapper == NoRecord

\* node died within its first half minute, with an error: go back, when there is
\* a record of where to, or leave it to systemd.
attempt_rollback ==
    IF SeenByWrapper \in Record /\ ~SeenByWrapper.done /\ SeenByWrapper.tries < MaxTries
    THEN /\ record' = [SeenByWrapper EXCEPT !.tries = @ + 1]
         /\ tree' = SeenByWrapper.prev /\ deps' = tree' /\ code' = tree'
         /\ proc' = "loading"
    ELSE proc' = "down" /\ UNCHANGED <<record, tree, deps, code>>

\* The modules do not load: a dependency is missing, or Node too old.
LoadFails ==
    /\ proc = "loading" /\ (deps # code \/ (code \in Modern /\ ~node))
    /\ attempt_rollback
    /\ UNCHANGED <<origin, fetched, node, dbVars, reqVars, historyVars, crashes>>

\* A migration fails, and with it initDb and the process: the catch that would
\* roll back from inside is not there yet.
MigrationFails ==
    /\ proc = "migrating" /\ applied < Ships[code] /\ Fails(applied + 1)
    /\ attempt_rollback
    /\ UNCHANGED <<origin, fetched, node, dbVars, reqVars, historyVars, crashes>>

\* The host dies among the statements of a file that has no transaction: past its
\* CREATE TABLE apps_new, say, which the next run of the file then fails over.
DiesInFile ==
    /\ proc = "migrating" /\ applied < Ships[code] /\ applied + 1 \in NoTx
    /\ ~Fails(applied + 1) /\ crashes < MaxCrashes
    /\ crashes' = crashes + 1 /\ torn' = TRUE /\ Down
    /\ UNCHANGED <<origin, fetched, hostVars, applied, effect, snaps, record, code,
                   historyVars>>

\* The server listens, and settles the record of the update it came from.
ComeUp ==
    /\ proc = "migrating" /\ applied >= Ships[code]
    /\ proc' = "up" /\ record' = Reconciled(record)
    /\ base' = applied /\ opened' = 0
    /\ UNCHANGED <<origin, fetched, hostVars, dbVars, code, reqVars, crashes>>

Boot == Start \/ OpenDb \/ LoadFails \/ Migrate \/ MigrationFails \/ ComeUp

Next ==
    \/ Push
    \/ \E u \in Update :
          Capture(u) \/ Fetch(u) \/ Reset(u) \/ Install(u) \/ WriteRecord(u)
    \/ Exit \/ restart \/ Crash \/ DiesInFile
    \/ Boot

\* The boot goes on, npm has a timeout, and the timer of the exit fires when the
\* event loop next comes to it.
Fairness ==
    /\ WF_vars(Boot) /\ SF_vars(Exit)
    /\ \A u \in Update : WF_vars(Install(u))

Spec == Init /\ [][Next]_vars /\ Fairness

-----------------------------------------------------------------------------
\* An update without a verdict.
Open == record \in Record /\ ~record.done

(* A server that is up has exactly the schema its rows say, and all that    *)
(* its release needs, however boots crashed between a migration's SQL and   *)
(* its row, or in the middle of its file.                                   *)
ServesItsSchema == proc = "up" => applied >= Ships[code] /\ effect = applied /\ ~torn

(* "success" is written of an update only after a boot in which every       *)
(* migration of the release it installed was applied.                       *)
SuccessIsTrue == record \in Record /\ record.ok => record.done /\ applied >= Ships[record.target]

(* Whatever updates and boots came since, the database as the last release  *)
(* that came up left it can be restored, unless Keep boots or more failed   *)
(* after it: from then on their own snapshots may have pushed it out.       *)
RestorePointKept ==
    applied # base /\ opened <= Keep => \E i \in DOMAIN snaps : snaps[i] = base

\* The dependencies, the Node and the migrations of the tree are in order.
Sound ==
    /\ deps = tree /\ (tree \in Modern => node)
    /\ \A m \in applied + 1 .. Ships[tree] : m \notin Bad

\* A crash left a migration half done: in the middle of its file, or with its
\* SQL run, without its row, and not to be run again.
Halfway ==
    torn \/ (proc # "recording" /\ effect > applied /\ effect \in Once)

(* A release whose dependencies, Node and migrations are in order comes up, *)
(* however many boots of it were cut short and repeated the SQL of a        *)
(* migration, unless one left a migration half done.                        *)
SoundReleaseComesUp == proc # "up" ~> (proc = "up" \/ ~Sound \/ Halfway)

(* An update that was recorded gets its verdict, whichever release the      *)
(* process comes up with, unless what is checked out cannot come up.        *)
VerdictComes == Open ~> (~Open \/ (proc # "up" /\ ~Sound) \/ Halfway)

(* install.sh:344-345: safe-boot.sh "git-resets to the previous SHA if a    *)
(* self-update crashes on boot": a recorded update comes up, or an attempt  *)
(* to go back from it is counted.                                           *)
NotLeftOnBadRelease ==
    Open /\ record.prev # record.target /\ proc # "up"
        ~> (proc = "up" \/ (record \in Record /\ record.tries > 0))

(* db.js:108-109, of migrations without a transaction: "keep these short    *)
(* and safely re-runnable".  A boot cut short in one never keeps its        *)
(* release from coming up.                                                  *)
SafelyRerunnable == proc # "up" ~> (proc = "up" \/ ~Sound)

(* updateSnapshot.js:15-17: the snapshots are there "so a bad upgrade is    *)
(* recoverable rather than terminal".                                       *)
Recoverable == applied # base => \E i \in DOMAIN snaps : snaps[i] = base

(* index.js:680-684: the SHA captured to go back to is that of the release   *)
(* the server ran when it was asked to update.                              *)
BackToWhatRan == proc = "up" /\ Open => record.prev = code
=============================================================================
