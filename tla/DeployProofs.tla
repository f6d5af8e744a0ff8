---------------------------- MODULE DeployProofs ----------------------------
(***************************************************************************)
(* Proofs about Deploy: what a run of a script that stops anywhere leaves  *)
(* behind never spoils a later rollback or a later success.                *)
(***************************************************************************)
EXTENDS Deploy, FiniteSetTheorems, SequenceTheorems, TLAPS

(***************************************************************************)
(* Type correctness.                                                       *)
(***************************************************************************)
LEMMA RunsOfCompose ==
    ASSUME TypeOK, Starts \/ StartFails \/ StopsAll
    PROVE  /\ running' \in [Services -> 0..MaxVersion]
           /\ loaded' \in BOOLEAN /\ db' \in BOOLEAN
           /\ schema' \in 0..MaxVersion
<1>. USE DeployAssumption DEF TypeOK, Services, Repositories, Versions
<1>1. Migrated \in 0..MaxVersion
  BY DEF Migrated, Later
<1>2. CASE Starts
  <2>1. loaded' \in BOOLEAN
    <3>1. loaded' = loaded \/ loaded' = certs
      BY <1>2, Zenon DEF Starts, Loads
    <3>. QED  BY <3>1, Zenon DEF TypeOK
  <2>2. /\ running' \in [Services -> 0..MaxVersion]
        /\ db' \in BOOLEAN /\ schema' \in 0..MaxVersion
    BY <1>1, <1>2 DEF Starts
  <2>. QED  BY <2>1, <2>2
<1>3. CASE StartFails
  BY <1>1, <1>3 DEF StartFails
<1>4. CASE StopsAll
  <2>1. Down \in [Services -> 0..MaxVersion]
    BY DEF Down
  <2>2. loaded' \in BOOLEAN /\ db' \in BOOLEAN
    BY <1>4, Zenon DEF StopsAll
  <2>3. schema' = schema /\ running' = Down
    BY <1>4 DEF StopsAll
  <2>. QED  BY <2>1, <2>2, <2>3
<1>. QED  BY <1>2, <1>3, <1>4

LEMMA DumpsTyped ==
    ASSUME TypeOK, Dump \/ DumpFails
    PROVE  dumps' \in Seq(Dumps)
<1>1. /\ dumps \in Seq(Dumps) /\ Len(dumps) \in Nat
      /\ [of |-> schema, whole |-> TRUE] \in Dumps
      /\ [of |-> schema, whole |-> FALSE] \in Dumps
  BY DEF TypeOK, Dumps
<1>2. CASE Dump
  <2>1. PICK k \in 1..Len(dumps) + 1 :
          dumps' = Append(SubSeq(dumps, k, Len(dumps)), [of |-> schema, whole |-> TRUE])
    BY <1>2 DEF Dump
  <2>2. SubSeq(dumps, k, Len(dumps)) \in Seq(Dumps)
    BY <1>1, SubSeqProperties, ElementOfSeq
  <2>. QED  BY <1>1, <2>1, <2>2, AppendProperties
<1>3. CASE DumpFails
  BY <1>1, <1>3, AppendProperties DEF DumpFails
<1>. QED  BY <1>2, <1>3

(***************************************************************************)
(* The inductive invariant.  The record is never newer than the run, and   *)
(* from TagImages on the run's own images are there whenever there is a    *)
(* record: a repository that has once had a tag latest never loses it.     *)
(***************************************************************************)
Named ==
    /\ record <= run
    /\ \A i \in DOMAIN saved, t \in Runs : saved[i][t] # 0 => t <= run /\ latest[i] # 0
    /\ record # 0 => BothSaved(record)
    /\ pc \in {"backup", "tag", "buildBackend", "buildNginx", "up", "health",
               "revertTags", "revertUp", "record", "cleanup"} => run # 0
    /\ pc \in {"buildBackend", "buildNginx", "up", "health", "record", "cleanup"}
       /\ record # 0 => BothSaved(run)
    /\ pc = "revertTags" => BothSaved(run)
    /\ pc = "cleanup" /\ record # 0 => record = run
    /\ pc \in {"backBackend", "backFrontend"} => record # 0

Built ==
    /\ pc = "buildNginx" => latest["backend"] = head
    /\ pc \in {"up", "health", "record", "cleanup"} =>
          latest["backend"] = head /\ latest["nginx"] = head
    /\ pc \in {"health", "record", "cleanup"} =>
          running = [s \in Services |-> head] /\ head \notin Broken
    /\ pc \in {"record", "cleanup"} /\ "health" \notin skips => Serves

Inv == TypeOK /\ Named /\ Built

LEMMA InitInv == Init => Inv
<1>. SUFFICES ASSUME Init PROVE Inv
  OBVIOUS
<1>. USE DeployAssumption DEF Init, Versions, Runs, Repositories, Services
<1>1. TypeOK
  <2>1. /\ loaded \in BOOLEAN /\ certs \in BOOLEAN
        /\ db \in BOOLEAN /\ dumped \in BOOLEAN
    BY Zenon
  <2>2. running \in [Services -> 0..MaxVersion]
    BY DEF Down
  <2>3. dumps \in Seq(Dumps)
    OBVIOUS
  <2>. QED  BY <2>1, <2>2, <2>3 DEF TypeOK, PCs
<1>2. Named /\ Built
  BY DEF Named, Built
<1>. QED  BY <1>1, <1>2 DEF Inv

LEMMA TypeStep ==
    ASSUME TypeOK, Named, [Next]_vars
    PROVE  TypeOK'
<1>. USE DeployAssumption DEF Versions, Runs, Repositories, PCs, Goto,
        images, host, script
<1>1. CASE NightlyBackup
  BY <1>1, DumpsTyped DEF NightlyBackup, TypeOK
<1>2. CASE Pull
  BY <1>2 DEF Pull, TypeOK
<1>3. CASE UpByHand
  BY <1>3, RunsOfCompose DEF UpByHand, TypeOK
<1>4. CASE TagByHand
  BY <1>4 DEF TagByHand, TypeOK
<1>5. CASE Stop
  BY <1>5 DEF Stop, TypeOK
<1>6. CASE BeginDeploy
  <2>1. dumped' \in BOOLEAN
    BY <1>6, Zenon DEF BeginDeploy
  <2>2. /\ run' \in 0..MaxRuns /\ pc' \in PCs
        /\ skips' \subseteq {"backup", "health"}
        /\ UNCHANGED <<head, latest, saved, record, certs, dumps, proven>>
    BY <1>6 DEF BeginDeploy, TypeOK
  <2>3. StopsAll
    BY <1>6 DEF BeginDeploy
  <2>. QED  BY <2>1, <2>2, <2>3, RunsOfCompose DEF TypeOK
<1>7. CASE Backup
  BY <1>7, DumpsTyped DEF Backup, TypeOK
<1>8. CASE BackupFails
  BY <1>8, DumpsTyped DEF BackupFails, TypeOK
<1>9. CASE TagImages
  BY <1>9 DEF TagImages, TypeOK
<1>10. CASE BuildBackend \/ BuildNginx
  <2>1. PICK service \in {"backend", "nginx"}, next \in {"buildNginx", "up"} :
          Build(service, next)
    BY <1>10 DEF BuildBackend, BuildNginx
  <2>2. latest' \in [Repositories -> 0..MaxVersion]
    BY <2>1 DEF Build, TypeOK
  <2>. QED  BY <2>1, <2>2 DEF Build, TypeOK
<1>11. CASE UpDeployed \/ RevertUp \/ UpRolledBack
  BY <1>11, RunsOfCompose DEF UpDeployed, RevertUp, UpRolledBack, TypeOK
<1>12. CASE HealthPasses
  <2>1. "health" \in skips \/ running["backend"] \in Versions
    BY <1>12 DEF HealthPasses, Serves, Services, TypeOK
  <2>2. proven' \subseteq Versions
    BY <1>12, <2>1 DEF HealthPasses, TypeOK
  <2>. QED  BY <1>12, <2>2 DEF HealthPasses, TypeOK
<1>13. CASE HealthFails
  BY <1>13 DEF HealthFails, TypeOK
<1>14. CASE RevertTags
  <2>1. run \in Runs
    BY <1>14 DEF RevertTags, TypeOK, Named
  <2>2. latest' \in [Repositories -> 0..MaxVersion]
    BY <1>14, <2>1 DEF RevertTags, TypeOK
  <2>. QED  BY <1>14, <2>2 DEF RevertTags, TypeOK
<1>15. CASE SaveRecord
  BY <1>15 DEF SaveRecord, TypeOK
<1>16. CASE CleanUp
  <2>1. saved' \in [{"backend", "frontend"} -> [Runs -> 0..MaxVersion]]
    BY <1>16 DEF CleanUp, TypeOK
  <2>2. dumps' \in Seq(Dumps)
    BY <1>16, SubSeqProperties, ElementOfSeq, LenProperties, DeployAssumption
    DEF CleanUp, TypeOK
  <2>. QED  BY <1>16, <2>1, <2>2 DEF CleanUp, TypeOK
<1>17. CASE BeginRollback
  BY <1>17, RunsOfCompose DEF BeginRollback, TypeOK
<1>18. CASE RetagBackend \/ RetagFrontend
  <2>1. record \in Runs
    BY <1>18 DEF RetagBackend, RetagFrontend, TypeOK, Named
  <2>2. latest' \in [Repositories -> 0..MaxVersion]
    BY <1>18, <2>1 DEF RetagBackend, RetagFrontend, TypeOK
  <2>. QED  BY <1>18, <2>2 DEF RetagBackend, RetagFrontend, TypeOK
<1>19. CASE RollbackHealthy
  <2>1. running["backend"] \in Versions
    BY <1>19 DEF RollbackHealthy, Serves, Services, TypeOK
  <2>2. proven' \subseteq Versions
    BY <1>19, <2>1 DEF RollbackHealthy, TypeOK
  <2>. QED  BY <1>19, <2>2 DEF RollbackHealthy, TypeOK
<1>20. CASE RestoreDump
  <2>1. \A n \in 1..Len(dumps) : dumps[n] \in Dumps
    BY ElementOfSeq DEF TypeOK
  <2>2. \A n \in 1..Len(dumps) : dumps[n].of \in 0..MaxVersion
    BY <2>1 DEF Dumps
  <2>3. schema' \in 0..MaxVersion
    BY <1>20, <2>2 DEF RestoreDump, TypeOK
  <2>. QED  BY <1>20, <2>3 DEF RestoreDump, TypeOK
<1>21. CASE Certify
  <2>1. certs' \in BOOLEAN
    BY <1>21, Zenon DEF Certify
  <2>. QED  BY <1>21, <2>1 DEF Certify, TypeOK
<1>22. CASE NginxRestarts
  <2>1. loaded' \in BOOLEAN
    BY <1>22, Zenon DEF NginxRestarts
  <2>. QED  BY <1>22, <2>1 DEF NginxRestarts, TypeOK
<1>23. CASE UNCHANGED vars
  BY <1>23 DEF vars, TypeOK
<1>. QED
  BY <1>1, <1>2, <1>3, <1>4, <1>5, <1>6, <1>7, <1>8, <1>9, <1>10, <1>11, <1>12,
     <1>13, <1>14, <1>15, <1>16, <1>17, <1>18, <1>19, <1>20, <1>21,
     <1>22, <1>23
  DEF Next

(* Named only reads what few actions write.                                *)
LEMMA NamedKept ==
    ASSUME TypeOK, Named, UNCHANGED <<images, run>>,
           \/ pc' = pc
           \/ pc' = "idle"
           \/ pc = "idle" /\ pc' = "backBackend" /\ record # 0
           \/ <<pc, pc'>> \in {<<"backup", "tag">>, <<"up", "health">>,
                 <<"health", "record">>, <<"revertTags", "revertUp">>,
                 <<"backUp", "backHealth">>, <<"backHealth", "restore">>}
           \/ pc = "health" /\ pc' = "revertTags" /\ BothSaved(run)
    PROVE  Named'
BY DEF Named, BothSaved, images

LEMMA NamedStep ==
    ASSUME TypeOK, Named, [Next]_vars
    PROVE  Named'
<1>. USE DeployAssumption DEF Goto
<1>D. DOMAIN saved = {"backend", "frontend"} /\ record \in Runs \cup {0}
  BY DEF TypeOK, Runs
<1>1. CASE NightlyBackup \/ Pull \/ UpByHand \/ Certify \/ NginxRestarts \/ Stop
           \/ UNCHANGED vars
  BY <1>1, NamedKept
  DEF NightlyBackup, Pull, UpByHand, Certify, NginxRestarts, Stop, vars, script, images
<1>2. CASE Backup \/ BackupFails \/ UpDeployed \/ RevertUp \/ HealthPasses
           \/ HealthFails
  BY <1>2, NamedKept DEF Backup, BackupFails, UpDeployed, RevertUp,
     HealthPasses, HealthFails, script
<1>3. CASE BeginRollback \/ UpRolledBack \/ RollbackHealthy \/ RestoreDump
  BY <1>3, NamedKept DEF BeginRollback, UpRolledBack, RollbackHealthy,
     RestoreDump, script, images
<1>4. CASE TagByHand
  <2>1. latest["frontend"]' # 0 /\ latest["backend"]' = latest["backend"]
    BY <1>4 DEF TagByHand, TypeOK, Repositories
  <2>. QED  BY <1>4, <2>1, <1>D DEF TagByHand, Named, BothSaved, script
<1>5. CASE BeginDeploy
  BY <1>5, <1>D DEF BeginDeploy, Named, BothSaved, TypeOK, images
<1>6. CASE TagImages
  <2>1. run \in Runs
    BY <1>6 DEF TagImages, TypeOK, Named, Runs
  <2>2. \A i \in {"backend", "frontend"}, t \in Runs :
          saved[i][t]' = IF t = run THEN latest[i] ELSE saved[i][t]
    BY <1>6, <2>1 DEF TagImages, TypeOK
  <2>3. DOMAIN saved' = {"backend", "frontend"}
    BY <1>6, <1>D DEF TagImages
  <2>4. record # 0 => BothSaved(run)' /\ BothSaved(record)'
    <3>1. record # 0 => latest["backend"] # 0 /\ latest["frontend"] # 0
      BY <1>D DEF Named, BothSaved
    <3>. QED  BY <1>6, <1>D, <2>1, <2>2, <3>1 DEF TagImages, Named, BothSaved, script
  <2>5. ASSUME NEW i \in {"backend", "frontend"}, NEW t \in Runs, saved[i][t]' # 0
        PROVE  t <= run /\ latest[i] # 0
    BY <1>D, <2>1, <2>2, <2>5 DEF Named, Runs
  <2>6. pc' = "buildBackend" /\ record <= run /\ run # 0
    BY <1>6 DEF TagImages, Named
  <2>7. UNCHANGED <<run, record, latest>>
    BY <1>6 DEF TagImages, script
  <2>. QED
    BY <2>3, <2>4, <2>5, <2>6, <2>7 DEF Named
<1>7. CASE BuildBackend \/ BuildNginx
  <2>1. PICK service \in {"backend", "nginx"}, next \in {"buildNginx", "up"} :
          Build(service, next)
    BY <1>7 DEF BuildBackend, BuildNginx
  <2>2. latest["frontend"]' = latest["frontend"]
        /\ (latest["backend"] # 0 => latest["backend"]' # 0)
    BY <2>1 DEF Build, TypeOK, Repositories, Versions
  <2>. QED  BY <1>D, <2>1, <2>2 DEF Build, Named, BothSaved, script
<1>8. CASE RevertTags
  <2>1. BothSaved(run)
    BY <1>8 DEF RevertTags, Named
  <2>2. latest["backend"]' # 0 /\ latest["frontend"]' # 0
    BY <1>8, <2>1 DEF RevertTags, BothSaved, TypeOK, Repositories
  <2>. QED  BY <1>8, <1>D, <2>2 DEF RevertTags, Named, BothSaved, script
<1>9. CASE SaveRecord
  BY <1>9, <1>D DEF SaveRecord, Named, BothSaved, script, TypeOK
<1>10. CASE CleanUp
  <2>1. DOMAIN saved' = {"backend", "frontend"}
    BY <1>10, <1>D DEF CleanUp
  <2>2. \A i \in {"backend", "frontend"}, t \in Runs :
          /\ t \in NewestTagged(i) => saved[i][t]' = saved[i][t]
          /\ saved[i][t]' \in {0, saved[i][t]}
    BY <1>10 DEF CleanUp, TypeOK
  <2>3. ASSUME record # 0 PROVE BothSaved(record)'
    <3>1. record = run /\ record \in Runs /\ BothSaved(record)
      BY <1>10, <2>3 DEF CleanUp, Named, TypeOK, Runs
    <3>2. ASSUME NEW i \in {"backend", "frontend"}
          PROVE  record \in NewestTagged(i)
      <4>1. {u \in Tagged(i) : u > record} = {}
        BY <3>1, <1>D DEF Tagged, Named, Runs
      <4>2. record \in Tagged(i)
        BY <3>1 DEF Tagged, BothSaved
      <4>. QED  BY <4>1, <4>2, FS_EmptySet DEF NewestTagged
    <3>3. UNCHANGED record
      BY <1>10 DEF CleanUp
    <3>. QED  BY <2>2, <3>1, <3>2, <3>3 DEF BothSaved
  <2>4. \A i \in DOMAIN saved', t \in Runs : saved[i][t]' # 0 => t <= run /\ latest[i] # 0
    BY <1>D, <2>1, <2>2 DEF Named
  <2>. QED  BY <1>10, <2>3, <2>4 DEF CleanUp, Named, script
<1>11. CASE RetagBackend
  <2>1. latest["backend"]' # 0 /\ latest["frontend"]' = latest["frontend"]
    BY <1>11 DEF RetagBackend, TypeOK, Repositories
  <2>. QED  BY <1>11, <1>D, <2>1 DEF RetagBackend, Named, BothSaved, script
<1>12. CASE RetagFrontend
  <2>1. latest["frontend"]' # 0 /\ latest["backend"]' = latest["backend"]
    BY <1>12 DEF RetagFrontend, TypeOK, Repositories
  <2>. QED  BY <1>12, <1>D, <2>1 DEF RetagFrontend, Named, BothSaved, script
<1>. QED
  BY <1>1, <1>2, <1>3, <1>4, <1>5, <1>6, <1>7, <1>8, <1>9, <1>10, <1>11, <1>12
  DEF Next

(* Where the script only moves on, or compose starts what is built.        *)
LEMMA BuiltStep ==
    ASSUME TypeOK, Built, [Next]_vars
    PROVE  Built'
<1>. USE DeployAssumption DEF Goto, Built
<1>1. CASE NightlyBackup \/ Pull \/ TagByHand \/ Certify \/ NginxRestarts \/ Stop
           \/ UNCHANGED vars
  BY <1>1
  DEF NightlyBackup, Pull, TagByHand, Certify, NginxRestarts, Stop, Serves,
      vars, images, host, script
<1>2. CASE UpByHand
  <2>1. ASSUME pc \in {"health", "record", "cleanup"}
        PROVE  running' = running /\ loaded' = loaded
    <3>1. /\ running["backend"] = head /\ running["nginx"] = head
          /\ latest["backend"] = head /\ latest["nginx"] = head
      BY <2>1 DEF Services
    <3>2. running' = [s \in Services |-> head]
      BY <1>2, <2>1, <3>1 DEF UpByHand, Starts, StartFails, Services
    <3>3. Starts \/ StartFails
      BY <1>2, Zenon DEF UpByHand
    <3>4. running["nginx"] = latest["nginx"]
      BY <3>1
    <3>5. loaded' = loaded
      BY <3>3, <3>4, Zenon DEF Starts, StartFails, Loads
    <3>. QED  BY <2>1, <3>2, <3>5
  <2>2. db' /\ UNCHANGED <<pc, head, latest, skips>>
    BY <1>2 DEF UpByHand, Starts, StartFails, images, script
  <2>. QED  BY <2>1, <2>2 DEF Serves
<1>3. CASE BeginDeploy \/ Backup \/ BackupFails \/ TagImages \/ BeginRollback
           \/ RetagBackend \/ RetagFrontend \/ UpRolledBack \/ RollbackHealthy
           \/ RestoreDump \/ RevertTags \/ RevertUp
  BY <1>3 DEF BeginDeploy, Backup, BackupFails, TagImages, BeginRollback,
     RetagBackend, RetagFrontend, UpRolledBack, RollbackHealthy, RestoreDump,
     RevertTags, RevertUp
<1>4. CASE BuildBackend
  BY <1>4 DEF BuildBackend, Build, TypeOK, Repositories
<1>5. CASE BuildNginx
  BY <1>5 DEF BuildNginx, Build, TypeOK, Repositories
<1>6. CASE UpDeployed
  <2>1. CASE pc' = "idle"
    BY <2>1
  <2>2. CASE pc' = "health"
    BY <1>6, <2>2 DEF UpDeployed, Starts, Services, images
  <2>. QED  BY <1>6, <2>1, <2>2 DEF UpDeployed
<1>7. CASE HealthPasses \/ HealthFails
  BY <1>7 DEF HealthPasses, HealthFails, Serves, images, host, script
<1>8. CASE SaveRecord \/ CleanUp
  BY <1>8 DEF SaveRecord, CleanUp, Serves, host, script
<1>. QED
  BY <1>1, <1>2, <1>3, <1>4, <1>5, <1>6, <1>7, <1>8 DEF Next

LEMMA Invariant == Spec => []Inv
<1>1. Inv /\ [Next]_vars => Inv'
  BY TypeStep, NamedStep, BuiltStep DEF Inv
<1>. QED  BY InitInv, <1>1, PTL DEF Spec

(* For every history of deployments, rollbacks, back-ups and interruptions *)
(* the state is one the scripts can make sense of.                         *)
THEOREM DeployTypeCorrect == Spec => []TypeOK
BY Invariant, PTL DEF Inv

(* Whatever runs have failed or stopped in between and however many images *)
(* the clean-up keeps, both images that the record names are there.        *)
THEOREM RollbackFindsImages == Spec => []RecordRestorable
<1>1. Inv => RecordRestorable
  BY DEF Inv, Named, BothSaved, TypeOK, RecordRestorable
<1>. QED  BY Invariant, <1>1, PTL

(* When deploy.sh reports success, the containers are those of the version *)
(* checked out, its backend is healthy and, unless the health check was    *)
(* skipped, nginx answers: without the certificates it does not.           *)
THEOREM SuccessIsHonest == Spec => []SuccessServesHead
<1>1. Inv => SuccessServesHead
  BY DEF Inv, Built, SuccessServesHead
<1>. QED  BY Invariant, <1>1, PTL

(* Only restoring a dump puts a working backend before an older schema.    *)
THEOREM SchemaFollowsBackend == Spec => OnlyRestoreOutdatesSchema
<1>. DEFINE Fits(v, s) == v \notin Broken => s >= v
     Ok == Fits(running["backend"], schema)
           /\ running'["backend"] \notin Broken /\ schema' < running'["backend"]
              => pc = "restore"
<1>1. Inv /\ [Next]_vars => [Ok]_vars
  <2>. SUFFICES ASSUME TypeOK, Next, Fits(running["backend"], schema), pc # "restore"
                PROVE  Fits(running'["backend"], schema')
    <3>1. Inv => TypeOK
      BY DEF Inv
    <3>2. ASSUME TypeOK, TypeOK' PROVE
             schema' < running'["backend"] <=> ~(schema' >= running'["backend"])
      BY <3>2, DeployAssumption DEF TypeOK, Services
    <3>. QED  BY <3>1, <3>2, TypeStep, NamedStep DEF Inv
  <2>1. ASSUME Starts \/ StartFails PROVE Fits(running'["backend"], schema')
    BY <2>1, DeployAssumption
    DEF TypeOK, Starts, StartFails, Migrated, Later, Services, Repositories
  <2>2. ASSUME StopsAll PROVE Fits(running'["backend"], schema')
    BY <2>2, DeployAssumption DEF TypeOK, StopsAll, Down, Services
  <2>3. CASE UNCHANGED <<running, schema>>
    BY <2>3
  <2>. QED
    BY <2>1, <2>2, <2>3
    DEF Next, Goto, host, NightlyBackup, Pull, UpByHand, TagByHand, Certify,
        NginxRestarts, Stop, BeginDeploy,
        Backup, BackupFails, TagImages, BuildBackend, BuildNginx, Build,
        UpDeployed, HealthPasses, HealthFails, RevertTags, RevertUp, SaveRecord,
        CleanUp, BeginRollback, RetagBackend, RetagFrontend, UpRolledBack,
        RollbackHealthy, RestoreDump
<1>. QED
  BY Invariant, <1>1, PTL DEF Spec, OnlyRestoreOutdatesSchema

(***************************************************************************)
(* No build makes an image watermenu-frontend.  Unless the operator does,  *)
(* no deployment ever has a pair of images to go back to.                  *)
(***************************************************************************)
NoFrontend ==
    ~ByHand => /\ latest["frontend"] = 0
               /\ \A t \in Runs : saved["frontend"][t] = 0
               /\ record = 0

LEMMA NoFrontendStep == TypeOK /\ Named /\ NoFrontend /\ [Next]_vars => NoFrontend'
<1>. SUFFICES ASSUME TypeOK, Named, NoFrontend, ~ByHand, [Next]_vars PROVE NoFrontend'
  BY DEF NoFrontend
<1>. USE DEF NoFrontend, Goto
<1>1. CASE UNCHANGED <<images, run>>
  BY <1>1 DEF images
<1>2. CASE TagImages
  BY <1>2 DEF TagImages, TypeOK
<1>3. CASE BuildBackend \/ BuildNginx
  BY <1>3 DEF BuildBackend, BuildNginx, Build, TypeOK, Repositories
<1>4. CASE RevertTags
  BY <1>4, DeployAssumption DEF RevertTags, Named, BothSaved, Runs, TypeOK
<1>5. CASE SaveRecord
  BY <1>5, DeployAssumption DEF SaveRecord, Named, BothSaved, Runs, TypeOK
<1>6. CASE CleanUp
  BY <1>6 DEF CleanUp, TypeOK
<1>7. CASE BeginDeploy \/ RetagBackend \/ RetagFrontend \/ TagByHand
  BY <1>7 DEF BeginDeploy, RetagBackend, RetagFrontend, TagByHand, Named, images
<1>. QED
  BY <1>1, <1>2, <1>3, <1>4, <1>5, <1>6, <1>7
  DEF Next, vars, script, NightlyBackup, Pull, UpByHand, Certify, NginxRestarts,
      Stop, Backup, BackupFails, UpDeployed, HealthPasses, HealthFails, RevertUp,
      BeginRollback, UpRolledBack, RollbackHealthy, RestoreDump

(* With the images that compose builds, deploy.sh never writes the record  *)
(* that rollback.sh needs.                                                 *)
THEOREM NothingIsEverRecorded ==
    ASSUME ~ByHand
    PROVE  Spec => [](record = 0)
<1>1. Init => NoFrontend
  BY DEF Init, NoFrontend, Repositories
<1>2. Inv /\ NoFrontend /\ [Next]_vars => NoFrontend'
  BY NoFrontendStep DEF Inv
<1>3. NoFrontend => record = 0
  BY DEF NoFrontend
<1>4. Spec => []NoFrontend
  BY Invariant, <1>1, <1>2, PTL DEF Spec
<1>. QED  BY <1>3, <1>4, PTL
=============================================================================
