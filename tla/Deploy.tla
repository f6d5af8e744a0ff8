------------------------------- MODULE Deploy -------------------------------
(***************************************************************************)
(* Deploying and rolling back on the single production host: deploy.sh,    *)
(* rollback.sh, backup-postgres.sh and restore-postgres.sh of src/scripts, *)
(* with docker-compose.prod.yml.                                           *)
(*                                                                         *)
(* The scripts run under `set -e`, so a command that fails ends them where *)
(* they stand.  Images are known by their tags.  Compose builds the images *)
(* watermenu-backend and watermenu-nginx; the scripts save and restore     *)
(* watermenu-backend and watermenu-frontend, a name no build produces.     *)
(* A version is an image and also the migrations that come with it.  A     *)
(* backend migrates the database when it starts; `up -d` starts nginx only *)
(* after the backend is healthy and fails if it never is.  It does not     *)
(* wait for nginx, which exits at once where the certificates its          *)
(* configuration names are missing, and is restarted over and over.        *)
(***************************************************************************)
EXTENDS Naturals, Sequences, FiniteSets

CONSTANTS
    MaxVersion,  \* bound on the versions of the repository, 1..MaxVersion
    Broken,      \* versions whose backend never becomes healthy
    MaxRuns,     \* bound on the number of runs of deploy.sh
    KeepImages,  \* saved images that a deployment keeps (5)
    KeepDumps,   \* dumps that a deployment keeps (10)
    MaxDumps,    \* bound on the number of dumps
    ByHand       \* whether the operator tags watermenu-frontend by hand

Versions == 1..MaxVersion
Runs     == 1..MaxRuns
Dumps    == [of : 0..MaxVersion, whole : BOOLEAN]

ASSUME DeployAssumption ==
    /\ MaxVersion \in Nat \ {0} /\ MaxRuns \in Nat /\ MaxDumps \in Nat
    /\ Broken \subseteq Versions
    /\ KeepImages \in Nat \ {0} /\ KeepDumps \in Nat \ {0}
    /\ ByHand \in BOOLEAN

VARIABLES
    head,     \* the version that is checked out
    latest,   \* per repository: the version its tag latest names, 0 for none
    saved,    \* per repository and run: the version of its tag backup-<run>
    record,   \* deploy/.last-deployment: the run whose images it names, 0: no file
    running,  \* per service: the version of its container, 0 when it is down
    loaded,   \* the nginx container has found its certificates and answers
    certs,    \* both files are in deploy/certs
    db,       \* the postgres container runs
    schema,   \* the migrations the database has had, 0 for an empty one
    dumps,    \* the files in deploy/backups/postgres, oldest first
    run,      \* number of runs of deploy.sh so far (TIMESTAMP)
    pc,       \* where the running script stands
    skips,    \* its options --skip-backup and --skip-health-check
    dumped,   \* history: this run of deploy.sh has taken a dump
    proven    \* history: backends that have passed the health checks

images == <<latest, saved, record>>
host   == <<running, loaded, db, schema>>
script == <<run, skips, dumped>>
vars   == <<head, images, host, certs, dumps, script, pc, proven>>

Repositories == {"backend", "frontend", "nginx"}
Services     == {"backend", "nginx"}
Down         == [s \in Services |-> 0]

PCs == {"idle", "backup", "tag", "buildBackend", "buildNginx", "up", "health",
        "revertTags", "revertUp", "record", "cleanup",
        "backBackend", "backFrontend", "backUp", "backHealth", "restore"}

Init ==
    /\ head = 1
    /\ latest = [i \in Repositories |-> 0]
    /\ saved = [i \in {"backend", "frontend"} |-> [t \in Runs |-> 0]]
    /\ record = 0
    /\ running = Down /\ loaded = FALSE /\ certs \in BOOLEAN
    /\ db = FALSE /\ schema = 0
    /\ dumps = <<>>
    /\ run = 0 /\ skips = {} /\ dumped = FALSE
    /\ pc = "idle"
    /\ proven = {}

-----------------------------------------------------------------------------
(* Compose, pg_dump and the operator.                                      *)

Later(v, w) == IF v > w THEN v ELSE w

(* A container that already runs the image is not started anew.            *)
Migrated ==
    IF running["backend"] = latest["backend"] THEN schema
    ELSE Later(schema, latest["backend"])

(* The same for nginx; a new container needs the certificates.             *)
Loads == loaded' = IF running["nginx"] = latest["nginx"] THEN loaded ELSE certs

(* Mutant: the container starts the server without `prisma:deploy`.        *)
StartsUnmigrated ==
    /\ latest["backend"] \notin {0} \cup Broken
    /\ db' = TRUE
    /\ running' = [s \in Services |-> latest[s]]
    /\ Loads
    /\ UNCHANGED schema

(* up -d, and the backend becomes healthy: nginx is started as well.       *)
Starts ==
    /\ latest["backend"] \notin {0} \cup Broken
    /\ db' = TRUE
    /\ schema' = Migrated
    /\ running' = [s \in Services |-> latest[s]]
    /\ Loads

(* up -d, and it does not: it keeps restarting before its server runs, or  *)
(* the server runs and does not answer.  nginx is left as it is.           *)
StartFails ==
    /\ latest["backend"] # 0
    /\ db' = TRUE
    /\ \/ /\ running["backend"] # latest["backend"]
          /\ running' = [running EXCEPT !["backend"] = 0]
          /\ UNCHANGED schema
       \/ /\ running' = [running EXCEPT !["backend"] = latest["backend"]]
          /\ schema' = Migrated
    /\ UNCHANGED loaded

StopsAll ==
    /\ running' = Down /\ loaded' = FALSE /\ db' = FALSE
    /\ UNCHANGED schema

(* Docker restarts the nginx container, which now finds its certificates.  *)
NginxRestarts ==
    /\ running["nginx"] # 0 /\ ~loaded /\ certs
    /\ loaded' = TRUE
    /\ UNCHANGED <<head, images, running, db, schema, certs, dumps, script, pc, proven>>

(* The operator puts the certificates in place or takes them away; an      *)
(* nginx that has read them goes on without.                               *)
Certify ==
    /\ certs' = ~certs
    /\ UNCHANGED <<head, images, host, dumps, script, pc, proven>>

(* A successful dump removes those older than RETENTION_DAYS, never itself.*)
Dump ==
    /\ db
    /\ Len(dumps) < MaxDumps
    /\ \E k \in 1..Len(dumps) + 1 :
          dumps' = Append(SubSeq(dumps, k, Len(dumps)), [of |-> schema, whole |-> TRUE])

(* The shell has created the file before pg_dump fails.                    *)
DumpFails ==
    /\ Len(dumps) < MaxDumps
    /\ dumps' = Append(dumps, [of |-> schema, whole |-> FALSE])

(* The documented cron job.                                                *)
NightlyBackup ==
    /\ Dump \/ DumpFails
    /\ UNCHANGED <<head, images, host, certs, script, pc, proven>>

Pull ==
    /\ pc = "idle" /\ head < MaxVersion
    /\ head' = head + 1
    /\ UNCHANGED <<images, host, certs, dumps, script, pc, proven>>

(* `docker compose up -d` by hand, beside whatever script is running.      *)
UpByHand ==
    /\ latest["nginx"] # 0
    /\ Starts \/ StartFails
    /\ UNCHANGED <<head, images, certs, dumps, script, pc, proven>>

TagByHand ==
    /\ ByHand /\ pc = "idle" /\ latest["nginx"] # 0
    /\ latest' = [latest EXCEPT !["frontend"] = latest["nginx"]]
    /\ UNCHANGED <<head, saved, record, host, certs, dumps, script, pc, proven>>

(* A command fails, the operator declines or the connection is lost: the   *)
(* script ends and leaves everything as it is.                             *)
Stop ==
    /\ pc # "idle"
    /\ pc' = "idle"
    /\ UNCHANGED <<head, images, host, certs, dumps, script, proven>>

-----------------------------------------------------------------------------
(* deploy.sh.                                                              *)

Goto(from, to) == pc = from /\ pc' = to

(* Running services are stopped before anything else (step 0); the checks  *)
(* of steps 1 to 4 change nothing.                                         *)
BeginDeploy ==
    /\ Goto("idle", "backup")
    /\ run < MaxRuns
    /\ run' = run + 1
    /\ skips' \in SUBSET {"backup", "health"}
    /\ dumped' = FALSE
    /\ StopsAll
    /\ UNCHANGED <<head, images, certs, dumps, proven>>

Backup ==
    /\ Goto("backup", "tag")
    /\ IF "backup" \notin skips /\ db
       THEN Dump /\ dumped' = TRUE
       ELSE UNCHANGED <<dumps, dumped>>
    /\ UNCHANGED <<head, images, host, certs, run, skips, proven>>

BackupFails ==
    /\ Goto("backup", "idle")
    /\ "backup" \notin skips /\ db
    /\ DumpFails
    /\ UNCHANGED <<head, images, host, certs, script, proven>>

(* docker tag fails where there is no image; that is not an error.         *)
TagImages ==
    /\ Goto("tag", "buildBackend")
    /\ saved' = [i \in DOMAIN saved |-> [saved[i] EXCEPT ![run] = latest[i]]]
    /\ UNCHANGED <<head, latest, record, host, certs, dumps, script, proven>>

(* Mutant: the failure of a build is not noticed.                          *)
BuildUnchecked(service, next) ==
    /\ pc = IF service = "backend" THEN "buildBackend" ELSE "buildNginx"
    /\ pc' = next
    /\ latest' \in {latest, [latest EXCEPT ![service] = head]}
    /\ UNCHANGED <<head, saved, record, host, certs, dumps, script, proven>>

Build(service, next) ==
    /\ pc = IF service = "backend" THEN "buildBackend" ELSE "buildNginx"
    /\ pc' = next
    /\ latest' = [latest EXCEPT ![service] = head]
    /\ UNCHANGED <<head, saved, record, host, certs, dumps, script, proven>>

BuildBackend == Build("backend", "buildNginx")
BuildNginx   == Build("nginx", "up")

UpDeployed ==
    /\ \/ Goto("up", "health") /\ Starts
       \/ Goto("up", "idle") /\ StartFails
    /\ UNCHANGED <<head, images, certs, dumps, script, proven>>

(* All three containers run, and /api/health answers through nginx.        *)
Serves ==
    /\ db
    /\ running["nginx"] # 0 /\ loaded
    /\ running["backend"] \notin {0} \cup Broken

HealthPasses ==
    /\ Goto("health", "record")
    /\ "health" \in skips \/ Serves
    /\ proven' = IF "health" \in skips THEN proven
                 ELSE proven \cup {running["backend"]}
    /\ UNCHANGED <<head, images, host, certs, dumps, script>>

(* docker image inspect of both saved images.                              *)
BothSaved(t) == t # 0 /\ saved["backend"][t] # 0 /\ saved["frontend"][t] # 0

(* No certificate for nginx, a container that dies, no answer in time.     *)
HealthFails ==
    /\ Goto("health", IF BothSaved(run) THEN "revertTags" ELSE "idle")
    /\ "health" \notin skips
    /\ UNCHANGED <<head, images, host, certs, dumps, script, proven>>

RevertTags ==
    /\ Goto("revertTags", "revertUp")
    /\ latest' = [i \in Repositories |->
                     IF i \in DOMAIN saved THEN saved[i][run] ELSE latest[i]]
    /\ UNCHANGED <<head, saved, record, host, certs, dumps, script, proven>>

RevertUp ==
    /\ Goto("revertUp", "idle")
    /\ Starts \/ StartFails
    /\ UNCHANGED <<head, images, certs, dumps, script, proven>>

(* The record names the images tagged before the build.                    *)
SaveRecord ==
    /\ Goto("record", "cleanup")
    /\ record' = IF BothSaved(run) THEN run ELSE record
    /\ UNCHANGED <<head, latest, saved, host, certs, dumps, script, proven>>

Tagged(i) == {t \in Runs : saved[i][t] # 0}

(* Mutant: sort without -r.                                                *)
OldestTagged(i) ==
    {t \in Tagged(i) : Cardinality({u \in Tagged(i) : u < t}) < KeepImages}

(* sort -r | tail -n +6                                                    *)
NewestTagged(i) ==
    {t \in Tagged(i) : Cardinality({u \in Tagged(i) : u > t}) < KeepImages}

CleanUp ==
    /\ Goto("cleanup", "idle")
    /\ saved' = [i \in DOMAIN saved |-> [t \in Runs |->
                    IF t \in NewestTagged(i) THEN saved[i][t] ELSE 0]]
    /\ dumps' = IF Len(dumps) > KeepDumps
                THEN SubSeq(dumps, Len(dumps) - KeepDumps + 1, Len(dumps))
                ELSE dumps
    /\ UNCHANGED <<head, latest, record, host, certs, script, proven>>

-----------------------------------------------------------------------------
(* rollback.sh.  Its tags before-rollback-* are read by nothing.           *)

BeginRollback ==
    /\ Goto("idle", "backBackend")
    /\ record # 0
    /\ StopsAll
    /\ UNCHANGED <<head, images, certs, dumps, script, proven>>

RetagBackend ==
    /\ Goto("backBackend", "backFrontend")
    /\ saved["backend"][record] # 0
    /\ latest' = [latest EXCEPT !["backend"] = saved["backend"][record]]
    /\ UNCHANGED <<head, saved, record, host, certs, dumps, script, proven>>

RetagFrontend ==
    /\ Goto("backFrontend", "backUp")
    /\ saved["frontend"][record] # 0
    /\ latest' = [latest EXCEPT !["frontend"] = saved["frontend"][record]]
    /\ UNCHANGED <<head, saved, record, host, certs, dumps, script, proven>>

UpRolledBack ==
    /\ \/ Goto("backUp", "backHealth") /\ Starts
       \/ Goto("backUp", "idle") /\ StartFails
    /\ UNCHANGED <<head, images, certs, dumps, script, proven>>

RollbackHealthy ==
    /\ \/ Goto("backHealth", "restore")
       \/ Goto("backHealth", "idle")
    /\ Serves
    /\ proven' = proven \cup {running["backend"]}
    /\ UNCHANGED <<head, images, host, certs, dumps, script>>

(* Any dump the operator names; the backend keeps running meanwhile.  A    *)
(* restoration can fail, before or after it has dropped the tables, and    *)
(* that of a dump that is not whole does.                                  *)
RestoreDump ==
    /\ Goto("restore", "idle")
    /\ db
    /\ \E n \in 1..Len(dumps) :
          \/ dumps[n].whole /\ schema' = dumps[n].of
          \/ schema' \in {schema, 0}
    /\ UNCHANGED <<head, images, running, loaded, db, certs, dumps, script, proven>>

-----------------------------------------------------------------------------
Next ==
    \/ NightlyBackup \/ Pull \/ UpByHand \/ TagByHand
    \/ Certify \/ NginxRestarts
    \/ BeginDeploy \/ Backup \/ BackupFails \/ TagImages
    \/ BuildBackend \/ BuildNginx \/ UpDeployed
    \/ HealthPasses \/ HealthFails \/ RevertTags \/ RevertUp
    \/ SaveRecord \/ CleanUp
    \/ BeginRollback \/ RetagBackend \/ RetagFrontend
    \/ UpRolledBack \/ RollbackHealthy \/ RestoreDump
    \/ Stop

Spec == Init /\ [][Next]_vars

-----------------------------------------------------------------------------
(* Properties.                                                             *)

TypeOK ==
    /\ head \in Versions
    /\ latest \in [Repositories -> 0..MaxVersion]
    /\ saved \in [{"backend", "frontend"} -> [Runs -> 0..MaxVersion]]
    /\ record \in 0..MaxRuns /\ run \in 0..MaxRuns
    /\ running \in [Services -> 0..MaxVersion]
    /\ loaded \in BOOLEAN /\ certs \in BOOLEAN
    /\ db \in BOOLEAN /\ dumped \in BOOLEAN
    /\ schema \in 0..MaxVersion
    /\ dumps \in Seq(Dumps)
    /\ pc \in PCs
    /\ skips \subseteq {"backup", "health"}
    /\ proven \subseteq Versions

(* A rollback that has stopped the services finds both images the record   *)
(* names: no clean-up, failed deployment or rollback takes them away.      *)
RecordRestorable == record # 0 => \A i \in DOMAIN saved : saved[i][record] # 0

(* A deployment that reports success has made both containers of what is   *)
(* checked out, with a backend that works, whatever was left behind by     *)
(* runs that stopped half-way; and it serves backend and pages, unless it  *)
(* was told not to check that: nginx may have no certificates then.        *)
SuccessServesHead ==
    pc \in {"record", "cleanup"} =>
        /\ running = [s \in Services |-> head]
        /\ head \notin Broken
        /\ "health" \notin skips => Serves

(* Only the restoration of a dump puts a backend before a database that    *)
(* lacks migrations it needs.                                              *)
OnlyRestoreOutdatesSchema ==
    [][(running["backend"] \notin Broken => schema >= running["backend"])
       /\ running'["backend"] \notin Broken /\ schema' < running'["backend"]
           => pc = "restore"]_vars

(* Before a deployment migrates a database that holds data it has dumped   *)
(* it, unless it was told not to.                                          *)
DumpsBeforeMigrating ==
    [][pc = "up" /\ pc' # pc /\ schema # 0 /\ schema' # schema
           => dumped \/ "backup" \in skips]_vars

(* When a deployment that replaced a working version fails, the version    *)
(* before it is brought back.                                              *)
FailureRollsBack ==
    [][HealthFails /\ saved["backend"][run] \in proven => pc' = "revertTags"]_vars

(* The images the record names are those of a version that has once been   *)
(* deployed successfully.                                                  *)
RecordNamesProven == record # 0 => saved["backend"][record] \in proven
=============================================================================
