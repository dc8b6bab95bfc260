------------------------ MODULE RegisteredModelsProofs ------------------------
(***************************************************************************)
(* What RegisteredModels promises of loads, repairs and reports, for any   *)
(* number of processes and model roots and any number of calls, faults and *)
(* crashes; and, in the second half, what the other installer, the one of  *)
(* ModelInstaller, promises about the disk.                                *)
(***************************************************************************)
EXTENDS ModelPackages, TLAPS

Bundles == [files : FileState, manifest : Manifest \cup {NoBuild}]

Directory == Bundles \cup {Nothing}

Compiled == [build : Build, loads : BOOLEAN]

\* The steps of each operation.
InstallStep == {"check", "stage", "verify", "swap", "aside", "publish", "replace", "restore",
                "drop", "cleanup", "prepare", "retract", "compile", "manifest"}
RemoveStep == {"unprepare", "unlink", "rmdir"}
LoadStep == {"validate", "compatible", "open"}
PcStep == {"idle"} \cup InstallStep \cup RemoveStep \cup LoadStep

TypeOK ==
    /\ backend \in Backend
    /\ package \in [Root -> Directory]
    /\ backup \in [Root -> [Process -> Directory]]
    /\ staging \in [Root -> [Process -> Directory]]
    /\ cache \in Compiled \cup {Nothing}
    /\ pc \in [Process -> PcStep]
    /\ op \in [Process -> {"keep", "replace", "remove", "load"}]
    /\ root \in [Process -> Root]
    /\ already \in [Process -> BOOLEAN]
    /\ built \in [Process -> Build \cup {NoBuild}]
    /\ result \in [Process -> {"none", "ok", "error", "crashed"}]
    /\ calm \in [Process -> BOOLEAN]
    /\ unhindered \in [Process -> BOOLEAN]
    /\ putBack \in SUBSET Process

\* A call is calm only as long as no other process has one.
Alone == \A p, q \in Process : calm[p] /\ p # q => pc[q] = "idle"

\* A process is at a step of its operation, compiles for Core ML only, and puts
\* in place what it verified: nobody else writes below its staging name.
Placed(p) ==
    /\ pc[p] # "idle" => pc[p] \in IF op[p] = "load" THEN LoadStep
                                   ELSE IF op[p] = "remove" THEN RemoveStep ELSE InstallStep
    /\ pc[p] \in {"retract", "compile"} => backend = "coreml"
    /\ pc[p] \in {"swap", "aside", "publish", "replace"} => Intact(staging[root[p]][p])

\* What a call that nothing disturbs finds at each of its steps.
Undisturbed(p) ==
    LET r == root[p]
        bundle == package[r]
    IN  /\ pc[p] = "check" => op[p] = "keep"
        /\ pc[p] \in {"stage", "verify", "swap"} /\ op[p] = "keep" => bundle = Nothing
        /\ pc[p] = "verify" => Intact(staging[r][p])
        /\ pc[p] \in {"check", "stage", "verify", "swap", "aside"} /\ unhindered[p]
              => backup[r][p] = Nothing
        /\ pc[p] = "aside" => bundle # Nothing
        /\ pc[p] \in {"publish", "replace"} => bundle = Nothing
        /\ pc[p] # "restore"
        /\ pc[p] = "cleanup" /\ unhindered[p] => result[p] = "ok"
        /\ pc[p] = "cleanup" /\ result[p] = "ok" => Intact(bundle)
        /\ pc[p] \in {"drop", "prepare", "retract", "compile", "manifest"} => Intact(bundle)
        /\ pc[p] = "compile" => ~HasManifest(bundle)
        /\ pc[p] = "manifest" =>
              /\ built[p] \in Build
              /\ backend = "coreml" => CacheLoads /\ cache.build = built[p]
        /\ pc[p] = "open" => HasManifest(bundle)

Fits(p) == Placed(p) /\ (calm[p] => Undisturbed(p))

\* Between its two looks at a package a load finds no altered files there,
\* unless a replacement put such a package back.
Harmless(bundle) == bundle = Nothing \/ bundle.files # "altered"

LoadedFiles ==
    \A p \in Process : pc[p] \in {"compatible", "open"} =>
                          p \in putBack \/ Harmless(package[root[p]])

Inv == TypeOK /\ Alone /\ LoadedFiles /\ \A p \in Process : Fits(p)

-------------------------------------------------------------------------------
LEMMA DirectoryFacts ==
    /\ Nothing \notin Bundles /\ Nothing \notin Compiled
    /\ NoBuild \notin Build /\ Build # {} /\ (CHOOSE b \in Build : TRUE) \in Build
    /\ NoBuild \notin Manifest
    /\ Backend \subseteq {"onnx", "coreml"}
    /\ \A f \in FileState, m \in Manifest \cup {NoBuild} : Bundle(f, m) \in Bundles
BY RegisteredAssumption DEF Bundles, Compiled, Bundle

LEMMA PackageTypes ==
    ASSUME NEW d \in Directory, d # Nothing
    PROVE  /\ d \in Bundles
           /\ \A m \in Manifest \cup {NoBuild} : Bundle(d.files, m) \in Bundles
           /\ \A f \in FileState : Bundle(f, d.manifest) \in Bundles
BY DEF Directory, Bundles, Bundle

\* A write below the name of one process leaves what the others have there.
LEMMA OwnDirectory ==
    ASSUME NEW f \in [Root -> [Process -> Directory]], NEW r \in Root, NEW p \in Process,
           NEW d \in Directory
    PROVE  LET g == [f EXCEPT ![r][p] = d]
           IN  /\ g \in [Root -> [Process -> Directory]]
               /\ g[r][p] = d
               /\ \A q \in Process \ {p} : \A s \in Root : g[s][q] = f[s][q]
<1> DEFINE row == [f[r] EXCEPT ![p] = d]
<1>1. row \in [Process -> Directory] /\ row[p] = d /\ \A q \in Process \ {p} : row[q] = f[r][q]
  OBVIOUS
<1> HIDE DEF row
<1>2. [f EXCEPT ![r] = row] \in [Root -> [Process -> Directory]]
  BY <1>1
<1>3. [f EXCEPT ![r][p] = d] = [f EXCEPT ![r] = row]
  BY DEF row
<1>4. QED BY <1>1, <1>2, <1>3

LEMMA InitType == ASSUME Init PROVE TypeOK
<1>1. (CHOOSE r \in Root : TRUE) \in Root
  BY RegisteredAssumption
<1>2. root \in [Process -> Root]
  BY <1>1 DEF Init
<1>3. QED
  BY <1>2 DEF Init, TypeOK, Directory, PcStep

\* A process goes to some step, with or without an outcome, and takes the calm
\* of others away if anything.
Outcome == {"none", "ok", "error", "crashed"}

Moves(p) ==
    /\ \E s \in PcStep : Goto(p, s)
    /\ \/ UNCHANGED result
       \/ \E outcome \in Outcome : result' = [result EXCEPT ![p] = outcome]
    /\ NoFault \/ Fault

LEMMA MovesType ==
    ASSUME TypeOK, NEW p \in Process, Moves(p)
    PROVE  /\ pc' \in [Process -> PcStep]
           /\ result' \in [Process -> Outcome]
           /\ calm' \in [Process -> BOOLEAN]
<1>1. pc' \in [Process -> PcStep]
  BY DEF TypeOK, Moves, Goto
<1>2. result' \in [Process -> Outcome]
  BY DEF TypeOK, Moves, Outcome
<1>3. calm' \in [Process -> BOOLEAN]
  BY DEF TypeOK, Moves, NoFault, Fault
<1>4. QED BY <1>1, <1>2, <1>3

LEMMA StepMoves ==
    ASSUME NEW p \in Process, Install(p) \/ Remove(p) \/ Load(p)
    PROVE  Moves(p)
<1> USE DEF Moves, Proceed, Return, Leave, Goto, PcStep, InstallStep, Outcome
<1>1. CASE CheckFinal(p) \/ Stage(p) \/ VerifyStaging(p) \/ CheckSwap(p)
  BY <1>1 DEF CheckFinal, Stage, VerifyStaging, CheckSwap
<1>2. CASE SetAside(p) \/ Publish(p) \/ Restore(p) \/ DropBackup(p) \/ CleanUp(p)
  BY <1>2 DEF SetAside, Publish, Restore, DropBackup, CleanUp
<1>3. CASE Prepare(p) \/ Retract(p) \/ Compile(p) \/ WriteManifest(p)
  BY <1>3 DEF Prepare, Retract, Compile, WriteManifest
<1>4. CASE Remove(p)
  BY <1>4 DEF Remove, RemovePrepared, Unlink, RemoveDirectory, RemoveStep
<1>5. CASE Load(p)
  BY <1>5 DEF Load, LoadValidate, LoadCompatible, LoadOpen, LoadStep
<1>6. QED BY <1>1, <1>2, <1>3, <1>4, <1>5 DEF Install

\* Every step keeps the types.
LEMMA StepType ==
    ASSUME TypeOK, NEW p \in Process, Install(p) \/ Remove(p) \/ Load(p),
           pc[p] \in {"retract", "compile"} => backend = "coreml"
    PROVE  TypeOK'
<1> USE DirectoryFacts DEF FileState, Directory
<1> DEFINE r == root[p]
<1>a. r \in Root
  BY DEF TypeOK
<1> DEFINE Own == [Root -> [Process -> Directory]]
<1>d. /\ backup \in Own /\ staging \in Own /\ package[r] \in Directory
      /\ Nothing \in Directory /\ staging[r][p] \in Directory /\ backup[r][p] \in Directory
      /\ \A f \in FileState : Bundle(f, NoBuild) \in Directory
      /\ \A d \in Directory : /\ [backup EXCEPT ![r][p] = d] \in Own
                             /\ [staging EXCEPT ![r][p] = d] \in Own
  <2>1. backup \in Own /\ staging \in Own
    BY DEF TypeOK
  <2>2. QED BY <1>a, <2>1, OwnDirectory DEF TypeOK
<1>e. ASSUME backup' \in Own, staging' \in Own
      PROVE  /\ backup' \in [Root -> [Process -> Directory]]
             /\ staging' \in [Root -> [Process -> Directory]]
  BY <1>e
<1> HIDE DEF Own
<1>b. /\ pc' \in [Process -> PcStep]
      /\ result' \in [Process -> {"none", "ok", "error", "crashed"}]
      /\ calm' \in [Process -> BOOLEAN]
  BY StepMoves, MovesType DEF Outcome
<1>1. CASE CheckFinal(p)
  BY <1>b, <1>1 DEF CheckFinal, TypeOK, disk, history
<1>2. CASE Stage(p)
  <2>1. staging' \in Own
    BY <1>2, <1>d DEF Stage
  <2>2. QED BY <1>b, <1>d, <1>e, <1>2, <2>1 DEF Stage, TypeOK, local, history
<1>3. CASE VerifyStaging(p) \/ CheckSwap(p)
  BY <1>b, <1>3 DEF VerifyStaging, CheckSwap, TypeOK, disk, local, history
<1>5. CASE SetAside(p)
  <2>a. package' \in [Root -> Directory]
    BY <1>5, <1>d DEF SetAside, TypeOK
  <2>1. backup' \in Own
    BY <1>5, <1>d DEF SetAside
  <2>2. QED BY <1>b, <1>d, <1>e, <1>5, <2>a, <2>1 DEF SetAside, TypeOK, local, history
<1>6. CASE Publish(p)
  <2>a. package' \in [Root -> Directory]
    BY <1>6, <1>d DEF Publish, TypeOK
  <2>1. staging' \in Own
    BY <1>6, <1>d DEF Publish
  <2>2. QED BY <1>b, <1>d, <1>e, <1>6, <2>a, <2>1 DEF Publish, TypeOK, local, history
<1>7. CASE Restore(p)
  <2>a. package' \in [Root -> Directory] /\ putBack' \in SUBSET Process
    BY <1>7, <1>d DEF Restore, TypeOK
  <2>1. backup' \in Own
    BY <1>7, <1>d DEF Restore
  <2>2. QED BY <1>b, <1>d, <1>e, <1>7, <2>a, <2>1 DEF Restore, TypeOK
<1>8. CASE DropBackup(p)
  <2>1. backup' \in Own
    BY <1>8, <1>d DEF DropBackup
  <2>2. QED BY <1>b, <1>d, <1>e, <1>8, <2>1 DEF DropBackup, TypeOK, local, history
<1>9. CASE CleanUp(p)
  <2>1. staging' \in Own
    BY <1>9, <1>d DEF CleanUp
  <2>2. QED BY <1>b, <1>d, <1>e, <1>9, <2>1 DEF CleanUp, TypeOK, local, history
<1>10. CASE Prepare(p)
  <2>1. built' \in [Process -> Build \cup {NoBuild}]
    BY <1>10 DEF Prepare, TypeOK, Prepared, CacheLoads, Compiled
  <2>2. QED BY <1>b, <1>10, <2>1 DEF Prepare, TypeOK, disk, history
<1>11. CASE Retract(p)
  <2>1. package' \in [Root -> Directory]
    <3>1. package[r] # Nothing => Bundle(package[r].files, NoBuild) \in Bundles
      BY <1>a, PackageTypes DEF TypeOK
    <3>2. QED BY <1>11, <1>a, <3>1 DEF Retract, TypeOK
  <2>2. QED BY <1>b, <1>11, <2>1 DEF Retract, TypeOK, local, history
<1>12. CASE WriteManifest(p)
  <2>1. package' \in [Root -> Directory]
    <3> DEFINE record == [build |-> built[p], current |-> TRUE]
    <3>1. record \in Manifest
      BY DEF TypeOK, Manifest
    <3>2. package[r] # Nothing => Bundle(package[r].files, record) \in Bundles
      BY <1>a, <3>1, PackageTypes DEF TypeOK
    <3>3. QED BY <1>12, <1>a, <3>2 DEF WriteManifest, TypeOK
  <2>2. QED BY <1>b, <1>12, <2>1 DEF WriteManifest, TypeOK, local, history
<1>13. ASSUME Opens(package[r]), backend = "coreml" PROVE cache' \in Compiled
  <2>1. \A b \in Build : [build |-> b, loads |-> TRUE] \in Compiled
    BY DEF Compiled
  <2>2. QED BY <1>13, <2>1 DEF Opens, TypeOK, CacheLoads
<1>14. CASE Compile(p)
  <2>1. cache' \in Compiled \cup {Nothing} /\ built' \in [Process -> Build \cup {NoBuild}]
    BY <1>13, <1>14 DEF Compile, TypeOK, Compiled
  <2>2. QED BY <1>b, <1>14, <2>1 DEF Compile, TypeOK, history
<1>15. CASE Remove(p)
  <2>1. package' \in [Root -> Directory]
    <3>1. package[r] # Nothing => \A m \in {NoBuild, package[r].manifest} :
                                     Bundle("missing", m) \in Bundles
      BY <1>a, PackageTypes DEF TypeOK
    <3>2. package \in [Root -> Directory] /\ Bundles \subseteq Directory /\ Nothing \in Directory
      BY DEF TypeOK, Directory
    <3>3. CASE UNCHANGED package
      BY <3>2, <3>3
    <3>4. CASE Unlink(p) /\ package' # package
      BY <1>a, <3>1, <3>2, <3>4 DEF Unlink
    <3>5. CASE RemoveDirectory(p)
      BY <1>a, <3>2, <3>5 DEF RemoveDirectory
    <3>6. QED BY <1>15, <3>3, <3>4, <3>5 DEF Remove, RemovePrepared
  <2>2. cache' \in Compiled \cup {Nothing}
    BY <1>15 DEF Remove, RemovePrepared, Unlink, RemoveDirectory, TypeOK
  <2>3. QED
    BY <1>b, <1>15, <2>1, <2>2
       DEF Remove, RemovePrepared, Unlink, RemoveDirectory, TypeOK, local, history
<1>16. CASE Load(p)
  <2>1. cache' \in Compiled \cup {Nothing}
    <3>1. ASSUME LoadOpen(p), Opens(package[r]) PROVE cache' \in Compiled \cup {Nothing}
      BY <1>13, <3>1 DEF Opens, TypeOK
    <3>2. QED BY <1>16, <3>1 DEF Load, LoadValidate, LoadCompatible, LoadOpen, TypeOK, disk
  <2>2. QED
    BY <1>b, <1>16, <2>1
       DEF Load, LoadValidate, LoadCompatible, LoadOpen, TypeOK, disk, local, history
<1>17. QED
  BY <1>1, <1>2, <1>3, <1>5, <1>6, <1>7, <1>8, <1>9, <1>10, <1>11, <1>12, <1>14, <1>15, <1>16
     DEF Install

LEMMA BeginType == ASSUME TypeOK, NEW p \in Process, Begin(p) PROVE TypeOK'
<1>1. PICK o \in DOMAIN Entry, r \in Root :
         /\ op' = [op EXCEPT ![p] = o]
         /\ root' = [root EXCEPT ![p] = r]
         /\ Goto(p, Entry[o])
         /\ unhindered' = [unhindered EXCEPT ![p] = backup[r][p] = Nothing]
  BY DEF Begin
<1>2. o \in {"keep", "replace", "remove", "load"} /\ Entry[o] \in PcStep
  BY DEF Entry, PcStep, InstallStep, RemoveStep, LoadStep
<1>3. pc' \in [Process -> PcStep] /\ calm' \in [Process -> BOOLEAN]
  BY <1>1, <1>2 DEF Begin, Goto, TypeOK
<1>4. unhindered' \in [Process -> BOOLEAN]
  BY <1>1 DEF TypeOK
<1>5. QED BY <1>1, <1>2, <1>3, <1>4 DEF Begin, TypeOK, disk

LEMMA CrashType == ASSUME TypeOK, NEW p \in Process, Crash(p) PROVE TypeOK'
<1>1. pc' \in [Process -> PcStep] /\ result' \in [Process -> {"none", "ok", "error", "crashed"}]
  BY DEF Crash, Return, Goto, TypeOK, PcStep
<1>2. QED BY <1>1 DEF Crash, TypeOK, disk, local, history

LEMMA DamageType == ASSUME TypeOK, Damage PROVE TypeOK'
<1>1. calm' \in [Process -> BOOLEAN]
  BY DEF Damage, Fault
<1>2. package' \in [Root -> Directory]
  <2>1. \A r \in Root, f \in {"altered", "missing"} :
           package[r] # Nothing => Bundle(f, package[r].manifest) \in Directory
    BY PackageTypes DEF TypeOK, Directory, FileState
  <2>2. package \in [Root -> Directory]
    BY DEF TypeOK
  <2>3. CASE \E r \in Root, f \in {"altered", "missing"} :
                /\ package[r] # Nothing
                /\ package' = [package EXCEPT ![r] = Bundle(f, @.manifest)]
    <3>1. PICK r \in Root, f \in {"altered", "missing"} :
             /\ package[r] # Nothing
             /\ package' = [package EXCEPT ![r] = Bundle(f, package[r].manifest)]
      BY <2>3
    <3>2. Bundle(f, package[r].manifest) \in Directory
      BY <2>1, <3>1
    <3>3. QED BY <2>2, <3>1, <3>2
  <2>4. QED BY <2>2, <2>3 DEF Damage
<1>3. cache' \in Compiled \cup {Nothing}
  <2>1. cache # Nothing => [build |-> cache.build, loads |-> FALSE] \in Compiled
    BY DEF TypeOK, Compiled
  <2>2. QED BY <2>1 DEF Damage, TypeOK
<1>4. QED BY <1>1, <1>2, <1>3 DEF Damage, TypeOK, local, history

LEMMA UpgradeType == ASSUME TypeOK, Upgrade PROVE TypeOK'
<1>1. calm' \in [Process -> BOOLEAN]
  BY DEF Upgrade, Fault
<1>2. ASSUME NEW d \in Directory PROVE Outdated(d) \in Directory
  <2>1. CASE HasManifest(d)
    <3>1. d \in Bundles /\ d.manifest \in Manifest
      BY <2>1 DEF HasManifest, Directory, Bundles
    <3>2. [d.manifest EXCEPT !.current = FALSE] \in Manifest
      BY <3>1 DEF Manifest
    <3>3. QED BY <2>1, <3>1, <3>2, PackageTypes DEF Outdated, Directory, HasManifest
  <2>2. QED BY <2>1 DEF Outdated
<1>3. package' \in [Root -> Directory]
  BY <1>2 DEF Upgrade, TypeOK
<1>4. backup' \in [Root -> [Process -> Directory]]
  <2>1. \A r \in Root : [p \in Process |-> Outdated(backup[r][p])] \in [Process -> Directory]
    BY <1>2 DEF TypeOK
  <2>2. QED BY <2>1 DEF Upgrade
<1>5. QED BY <1>1, <1>3, <1>4 DEF Upgrade, TypeOK, local, history

-------------------------------------------------------------------------------
\* What a step of an operation leaves alone: the other processes, and the
\* operation itself.
Frame(p) ==
    /\ backend' = backend
    /\ op'[p] = op[p] /\ root'[p] = root[p] /\ unhindered'[p] = unhindered[p]
    /\ \A q \in Process \ {p} :
          /\ pc'[q] = pc[q] /\ op'[q] = op[q] /\ root'[q] = root[q]
          /\ result'[q] = result[q]
          /\ \A r \in Root : staging'[r][q] = staging[r][q]
    /\ \A q \in Process : calm'[q] => calm[q]

LEMMA StepFrame ==
    ASSUME TypeOK, NEW p \in Process, Install(p) \/ Remove(p) \/ Load(p) \/ Crash(p)
    PROVE  Frame(p) /\ pc[p] # "idle"
<1> DEFINE Fixed == /\ op' = op /\ root' = root /\ unhindered' = unhindered
                    /\ backend' = backend
<1> DEFINE Others == \A q \in Process \ {p} : \A r \in Root : staging'[r][q] = staging[r][q]
<1>1. Fixed /\ pc[p] # "idle"
  <2> USE DEF local, history, disk
  <2>1. CASE CheckFinal(p) \/ Stage(p) \/ VerifyStaging(p) \/ CheckSwap(p) \/ SetAside(p)
    BY <2>1 DEF CheckFinal, Stage, VerifyStaging, CheckSwap, SetAside
  <2>2. CASE Publish(p) \/ Restore(p) \/ DropBackup(p) \/ CleanUp(p)
    BY <2>2 DEF Publish, Restore, DropBackup, CleanUp
  <2>3. CASE Prepare(p) \/ Retract(p) \/ Compile(p) \/ WriteManifest(p)
    BY <2>3 DEF Prepare, Retract, Compile, WriteManifest
  <2>4. CASE Remove(p) \/ Load(p) \/ Crash(p)
    BY <2>4 DEF Remove, RemovePrepared, Unlink, RemoveDirectory,
                Load, LoadValidate, LoadCompatible, LoadOpen, Crash
  <2>5. QED BY <2>1, <2>2, <2>3, <2>4 DEF Install
<1>2. Others
  <2>1. \/ UNCHANGED staging
        \/ \E d \in Directory : staging' = [staging EXCEPT ![root[p]][p] = d]
    <3> USE DEF disk
    <3>1. CASE Stage(p) \/ Publish(p) \/ CleanUp(p)
      <4>1. Nothing \in Directory
        BY DEF Directory
      <4>2. \A f \in {"intact", "altered", "missing"} : Bundle(f, NoBuild) \in Directory
        BY DirectoryFacts DEF Directory, FileState
      <4>3. \E f \in {"intact", "altered", "missing"} : Stage(p) =>
               staging' = [staging EXCEPT ![root[p]][p] = Bundle(f, NoBuild)]
        BY DEF Stage
      <4>4. CASE Stage(p)
        BY <4>2, <4>3, <4>4
      <4>5. CASE Publish(p) \/ CleanUp(p)
        <5>1. \/ UNCHANGED staging
              \/ staging' = [staging EXCEPT ![root[p]][p] = Nothing]
          BY <4>5 DEF Publish, CleanUp
        <5>2. QED BY <4>1, <5>1
      <4>6. QED BY <3>1, <4>4, <4>5
    <3>2. CASE CheckFinal(p) \/ VerifyStaging(p) \/ CheckSwap(p) \/ SetAside(p) \/ Restore(p)
      BY <3>2 DEF CheckFinal, VerifyStaging, CheckSwap, SetAside, Restore
    <3>3. CASE DropBackup(p) \/ Prepare(p) \/ Retract(p) \/ Compile(p) \/ WriteManifest(p)
      BY <3>3 DEF DropBackup, Prepare, Retract, Compile, WriteManifest
    <3>4. CASE Remove(p) \/ Load(p) \/ Crash(p)
      BY <3>4 DEF Remove, RemovePrepared, Unlink, RemoveDirectory,
                  Load, LoadValidate, LoadCompatible, LoadOpen, Crash
    <3>5. QED BY <3>1, <3>2, <3>3, <3>4 DEF Install
  <2>2. root[p] \in Root /\ staging \in [Root -> [Process -> Directory]]
    BY DEF TypeOK
  <2>3. ASSUME NEW d \in Directory, staging' = [staging EXCEPT ![root[p]][p] = d]
        PROVE  Others
    <3>1. \A q \in Process \ {p} : \A r \in Root :
             [staging EXCEPT ![root[p]][p] = d][r][q] = staging[r][q]
      BY <2>2, OwnDirectory
    <3>2. QED BY <2>3, <3>1
  <2>4. QED BY <2>1, <2>3
<1>3. Moves(p)
  <2>1. CASE Crash(p)
    <3>1. UNCHANGED calm
      BY <2>1 DEF Crash
    <3>2. QED BY <2>1, <3>1 DEF Crash, Moves, Return, Goto, PcStep, Outcome, NoFault
  <2>2. QED BY <2>1, StepMoves
<1>4. QED
  BY <1>1, <1>2, <1>3 DEF Frame, Moves, Goto, NoFault, Fault, TypeOK

\* So only the process that moves has to be looked at, and what it makes of the
\* packages in place.
LEMMA OthersFit ==
    ASSUME Inv, NEW p \in Process, pc[p] # "idle", Frame(p), Fits(p)',
           pc'[p] \in {"compatible", "open"} => p \in putBack' \/ Harmless(package'[root'[p]]),
           putBack \subseteq putBack',
           \A r \in Root : Harmless(package[r]) => Harmless(package'[r]) \/ putBack' = Process
    PROVE  Alone' /\ LoadedFiles' /\ \A q \in Process : Fits(q)'
<1>1. \A q \in Process \ {p} : ~calm'[q]
  BY DEF Inv, Alone, Frame
<1>2. Alone'
  BY <1>1 DEF Inv, Alone, Frame
<1>3. ASSUME NEW q \in Process PROVE Fits(q)'
  <2>1. CASE q # p
    <3>1. Placed(q)
      BY DEF Inv, Fits
    <3>2. root[q] \in Root
      BY DEF Inv, TypeOK
    <3>3. /\ pc'[q] = pc[q] /\ op'[q] = op[q] /\ root'[q] = root[q] /\ backend' = backend
          /\ staging'[root[q]][q] = staging[root[q]][q]
      BY <2>1, <3>2 DEF Frame
    <3>4. Placed(q)'
      BY <3>1, <3>3 DEF Placed, Intact
    <3>5. QED BY <1>1, <2>1, <3>4 DEF Fits
  <2>2. QED BY <2>1
<1>4. LoadedFiles'
  <2> SUFFICES ASSUME NEW q \in Process, pc'[q] \in {"compatible", "open"}
               PROVE  q \in putBack' \/ Harmless(package'[root'[q]])
    BY DEF LoadedFiles, Harmless
  <2>1. CASE q # p
    <3>1. root[q] \in Root /\ root'[q] = root[q] /\ pc'[q] = pc[q]
      BY <2>1 DEF Inv, TypeOK, Frame
    <3>2. q \in putBack \/ Harmless(package[root[q]])
      BY <3>1 DEF Inv, LoadedFiles
    <3>3. QED BY <3>1, <3>2
  <2>2. QED BY <2>1
<1>5. QED BY <1>2, <1>3, <1>4

\* What the operations make of a package: altered files come back only with a
\* package that is put back.
LEMMA PackagesHarmless ==
    ASSUME Inv, NEW p \in Process, Install(p) \/ Remove(p) \/ Load(p) \/ Crash(p)
    PROVE  /\ putBack \subseteq putBack'
           /\ \A r \in Root : Harmless(package[r]) => Harmless(package'[r]) \/ putBack' = Process
<1> USE DEF Harmless
<1> DEFINE r == root[p]
<1>a. r \in Root /\ package \in [Root -> Directory] /\ putBack \in SUBSET Process
  BY DEF Inv, TypeOK
<1>1. CASE UNCHANGED <<package, putBack>>
  BY <1>1
<1>2. CASE SetAside(p)
  BY <1>2, <1>a DEF SetAside, local, history
<1>3. CASE Publish(p)
  <2>1. Intact(staging[r][p])
    BY <1>3 DEF Inv, Fits, Placed, Publish
  <2>2. QED BY <1>3, <1>a, <2>1 DEF Publish, Intact, local, history
<1>4. CASE Restore(p)
  BY <1>4, <1>a DEF Restore, Intact
<1>5. CASE Retract(p) \/ WriteManifest(p)
  BY <1>5, <1>a DEF Retract, WriteManifest, Bundle, local, history
<1>6. CASE Remove(p)
  BY <1>6, <1>a DEF Remove, RemovePrepared, Unlink, RemoveDirectory, Bundle, local, history
<1>7. CASE \/ CheckFinal(p) \/ Stage(p) \/ VerifyStaging(p) \/ CheckSwap(p)
           \/ DropBackup(p) \/ CleanUp(p)
  BY <1>1, <1>7 DEF CheckFinal, Stage, VerifyStaging, CheckSwap, DropBackup, CleanUp,
                    disk, local, history
<1>8. CASE Prepare(p) \/ Compile(p) \/ Load(p) \/ Crash(p)
  BY <1>1, <1>8 DEF Prepare, Compile, Load, LoadValidate, LoadCompatible, LoadOpen, Crash,
                    disk, local, history
<1>9. QED BY <1>2, <1>3, <1>4, <1>5, <1>6, <1>7, <1>8 DEF Install

\* An installation that nothing disturbs finds at each step what it needs there.
LEMMA MoverFits ==
    ASSUME Inv, NEW p \in Process, Install(p) \/ Remove(p) \/ Load(p)
    PROVE  Fits(p)'
<1> DEFINE r == root[p]
<1>a. /\ TypeOK /\ Placed(p) /\ (calm[p] => Undisturbed(p))
      /\ r \in Root /\ package[r] \in Directory
  BY DEF Inv, Fits, TypeOK
<1>b. /\ op'[p] = op[p] /\ root'[p] = r /\ unhindered'[p] = unhindered[p] /\ backend' = backend
      /\ calm'[p] => calm[p]
  BY StepFrame DEF Inv, Frame
<1>c. calm'[p] => ~Fault
  BY DEF Fault
<1> USE DEF Fits, Placed, Undisturbed, InstallStep, RemoveStep, LoadStep,
            Goto, Proceed, Return, Leave
<1>1. CASE CheckFinal(p)
  BY <1>1, <1>a, <1>b DEF CheckFinal, TypeOK, disk, Validate, Intact, HasManifest
<1>d. \A f \in FileState, m \in Manifest \cup {NoBuild} :
         /\ Bundle(f, m) # Nothing
         /\ Bundle(f, m).files = f /\ Bundle(f, m).manifest = m
  BY DirectoryFacts DEF Bundle
<1>2. CASE Stage(p)
  <2>1. /\ pc[p] = "stage" /\ pc'[p] \in {"verify", "cleanup"} /\ package' = package
        /\ backup' = backup
    BY <1>2, <1>a DEF Stage, TypeOK
  <2>2. calm'[p] => pc'[p] = "verify" /\ Intact(staging'[r][p])
    <3>1. calm'[p] => /\ staging' = [staging EXCEPT ![r][p] = Bundle("intact", NoBuild)]
                      /\ Proceed(p, "verify")
      BY <1>2, <1>c DEF Stage
    <3>2. Intact(Bundle("intact", NoBuild))
      BY <1>d DEF Intact, FileState
    <3>3. [staging EXCEPT ![r][p] = Bundle("intact", NoBuild)][r][p] = Bundle("intact", NoBuild)
      BY <1>a DEF TypeOK
    <3>4. QED BY <1>a, <3>1, <3>2, <3>3 DEF TypeOK
  <2>3. QED BY <1>a, <1>b, <2>1, <2>2 DEF Intact
<1>3. CASE VerifyStaging(p)
  BY <1>3, <1>a, <1>b DEF VerifyStaging, TypeOK, disk, Validate, Intact
<1>4. CASE CheckSwap(p)
  BY <1>4, <1>a, <1>b DEF CheckSwap, TypeOK, disk, Intact
<1>5. CASE SetAside(p)
  BY <1>5, <1>a, <1>b, <1>c DEF SetAside, TypeOK, Intact
<1>6. CASE Publish(p)
  BY <1>6, <1>a, <1>b, <1>c DEF Publish, TypeOK, Intact
<1>7. CASE Restore(p)
  BY <1>7, <1>a, <1>b, <1>c DEF Restore, TypeOK
<1>8. CASE DropBackup(p)
  BY <1>8, <1>a, <1>b, <1>c DEF DropBackup, TypeOK, Intact
<1>9. CASE CleanUp(p)
  BY <1>9, <1>a, <1>b DEF CleanUp, TypeOK, Intact
<1>10. CASE Prepare(p)
  BY <1>10, <1>a, <1>b, DirectoryFacts DEF Prepare, TypeOK, Intact, disk, Prepared, MayOpen,
     CacheLoads, HasManifest, Compiled
<1>11. CASE Retract(p)
  <2>1. pc[p] = "retract" /\ pc'[p] = "compile"
    BY <1>11, <1>a DEF Retract, TypeOK
  <2>2. calm'[p] => /\ Intact(package[r])
                    /\ package'[r] = Bundle("intact", NoBuild)
    BY <1>11, <1>a, <1>b, <2>1 DEF Retract, TypeOK, Intact
  <2>3. calm'[p] => Intact(package'[r]) /\ ~HasManifest(package'[r])
    BY <1>d, <2>2 DEF Intact, HasManifest, FileState
  <2>4. QED BY <1>a, <1>b, <2>1, <2>3 DEF Intact, HasManifest
<1>12. CASE Compile(p)
  <2>1. pc[p] = "compile" /\ pc'[p] \in {"idle", "manifest"} /\ package' = package
    BY <1>12, <1>a DEF Compile, TypeOK
  <2>2. ASSUME calm'[p], pc'[p] = "manifest"
        PROVE  /\ built'[p] \in Build
               /\ cache' # Nothing /\ cache'.loads /\ cache'.build = built'[p]
    <3>1. Opens(package[r]) /\ built' = [built EXCEPT ![p] = cache'.build]
      BY <1>12, <1>a, <2>2 DEF Compile, TypeOK
    <3>2. cache' \in Compiled /\ cache'.loads
      <4>1. ASSUME NEW b \in Build
            PROVE  [build |-> b, loads |-> TRUE] \in Compiled /\ [build |-> b, loads |-> TRUE].loads
        BY DEF Compiled
      <4>2. backend = "coreml"
        BY <1>a, <2>1
      <4>3. QED BY <1>a, <3>1, <4>1, <4>2 DEF Opens, CacheLoads, TypeOK
    <3>3. QED BY <1>a, <3>1, <3>2, DirectoryFacts DEF TypeOK, Compiled
  <2>3. QED BY <1>a, <1>b, <2>1, <2>2 DEF Intact, CacheLoads
<1>13. CASE WriteManifest(p)
  BY <1>13, <1>a, <1>b, <1>c DEF WriteManifest, TypeOK
<1>14. CASE Remove(p)
  BY <1>14, <1>a, <1>b DEF Remove, RemovePrepared, Unlink, RemoveDirectory, TypeOK
<1>15. CASE Load(p)
  <2>1. CASE LoadValidate(p)
    BY <2>1, <1>a, <1>b DEF LoadValidate, TypeOK
  <2>2. CASE LoadCompatible(p)
    BY <2>2, <1>a, <1>b DEF LoadCompatible, TypeOK, disk, HasManifest
  <2>3. CASE LoadOpen(p)
    BY <2>3, <1>a, <1>b DEF LoadOpen, TypeOK
  <2>4. QED BY <1>15, <2>1, <2>2, <2>3 DEF Load
<1>16. QED
  BY <1>1, <1>2, <1>3, <1>4, <1>5, <1>6, <1>7, <1>8, <1>9, <1>10, <1>11, <1>12, <1>13, <1>14,
     <1>15 DEF Install

LEMMA BeginKeeps == ASSUME Inv, NEW p \in Process, Begin(p) PROVE Inv'
<1>0. TypeOK /\ TypeOK'
  BY BeginType DEF Inv
<1>1. PICK o \in DOMAIN Entry, r \in Root :
         /\ op' = [op EXCEPT ![p] = o]
         /\ root' = [root EXCEPT ![p] = r]
         /\ Goto(p, Entry[o])
         /\ unhindered' = [unhindered EXCEPT ![p] = backup[r][p] = Nothing]
  BY DEF Begin
<1>2. /\ o = "keep" => Entry[o] = "check"
      /\ o = "replace" => Entry[o] = "stage"
      /\ o = "remove" => Entry[o] = "unprepare"
      /\ o = "load" => Entry[o] = "validate"
      /\ o \in {"keep", "replace", "remove", "load"}
  BY DEF Entry
<1>3. /\ pc'[p] = Entry[o] /\ op'[p] = o /\ root'[p] = r
      /\ unhindered'[p] => backup'[r][p] = Nothing
      /\ backend' = backend /\ package' = package /\ staging' = staging
  <2>1. UNCHANGED <<backend, package, backup, staging>>
    BY DEF Begin, disk
  <2>2. pc'[p] = Entry[o] /\ op'[p] = o /\ root'[p] = r
    BY <1>0, <1>1 DEF TypeOK, Goto
  <2>3. unhindered'[p] = (backup[r][p] = Nothing)
    BY <1>0, <1>1 DEF TypeOK
  <2>4. QED BY <2>1, <2>2, <2>3
<1>4. \A q \in Process \ {p} : pc'[q] = pc[q] /\ op'[q] = op[q] /\ root'[q] = root[q]
  BY <1>0, <1>1 DEF TypeOK, Goto
<1>5. \A q \in Process : calm'[q] => q = p /\ \A other \in Process \ {p} : pc[other] = "idle"
  BY DEF Begin
<1>6. Alone'
  BY <1>4, <1>5 DEF Alone
<1>7. ASSUME NEW q \in Process PROVE Fits(q)'
  <2>1. CASE q = p
    <3>1. Placed(p)'
      BY <1>2, <1>3 DEF Placed, InstallStep, RemoveStep, LoadStep
    <3>2. Undisturbed(p)'
      BY <1>2, <1>3 DEF Undisturbed
    <3>3. QED BY <2>1, <3>1, <3>2 DEF Fits
  <2>2. CASE q # p
    <3>1. Placed(q)
      BY DEF Inv, Fits
    <3>2. Placed(q)'
      BY <1>3, <1>4, <2>2, <3>1 DEF Placed, Intact
    <3>3. QED BY <1>5, <2>2, <3>2 DEF Fits
  <2>3. QED BY <2>1, <2>2
<1>8. LoadedFiles'
  <2> SUFFICES ASSUME NEW q \in Process, pc'[q] \in {"compatible", "open"}
               PROVE  q \in putBack' \/ Harmless(package'[root'[q]])
    BY DEF LoadedFiles, Harmless
  <2>1. q # p
    BY <1>2, <1>3
  <2>2. q \in putBack \/ Harmless(package[root[q]])
    BY <1>4, <2>1 DEF Inv, LoadedFiles
  <2>3. QED BY <1>3, <1>4, <2>1, <2>2 DEF Begin
<1>9. QED BY <1>0, <1>6, <1>7, <1>8 DEF Inv

\* Damage comes when nothing runs, and leaves no call calm.
LEMMA DamageKeeps == ASSUME Inv, Damage PROVE Inv'
<1>1. TypeOK'
  BY DamageType DEF Inv
<1>2. /\ \A p \in Process : pc'[p] = "idle" /\ ~calm'[p]
      /\ backend' = backend
  BY DEF Damage, Fault
<1>3. Alone' /\ LoadedFiles' /\ \A p \in Process : Fits(p)'
  BY <1>2 DEF Alone, LoadedFiles, Fits, Placed
<1>4. QED BY <1>1, <1>3 DEF Inv

\* So does an upgrade.
LEMMA UpgradeKeeps == ASSUME Inv, Upgrade PROVE Inv'
<1>1. TypeOK'
  BY UpgradeType DEF Inv
<1>2. /\ \A p \in Process : pc'[p] = "idle" /\ ~calm'[p]
      /\ backend' = backend
  BY DEF Upgrade, Fault
<1>3. Alone' /\ LoadedFiles' /\ \A p \in Process : Fits(p)'
  BY <1>2 DEF Alone, LoadedFiles, Fits, Placed
<1>4. QED BY <1>1, <1>3 DEF Inv

LEMMA CrashKeeps == ASSUME Inv, NEW p \in Process, Crash(p) PROVE Inv'
<1>1. TypeOK /\ TypeOK' /\ Frame(p) /\ pc[p] # "idle"
  BY CrashType, StepFrame DEF Inv
<1>2. pc'[p] = "idle"
  BY <1>1 DEF Crash, Return, Goto, TypeOK
<1>3. Fits(p)'
  BY <1>2 DEF Fits, Placed, Undisturbed
<1>4. QED BY <1>1, <1>2, <1>3, PackagesHarmless, OthersFit DEF Inv

LEMMA StepKeeps ==
    ASSUME Inv, NEW p \in Process, Install(p) \/ Remove(p) \/ Load(p)
    PROVE  Inv'
<1>1. pc[p] \in {"retract", "compile"} => backend = "coreml"
  BY DEF Inv, Fits, Placed
<1>2. TypeOK' /\ Frame(p) /\ pc[p] # "idle"
  BY <1>1, StepType, StepFrame DEF Inv
<1>3. Fits(p)'
  BY MoverFits
<1>4. ASSUME pc'[p] \in {"compatible", "open"}
      PROVE  p \in putBack' \/ Harmless(package'[root'[p]])
  <2>1. pc'[p] # "idle" /\ op'[p] = "load" /\ op[p] = "load"
    BY <1>2, <1>3, <1>4 DEF Fits, Placed, InstallStep, RemoveStep, Frame
  <2>2. pc[p] \in LoadStep
    BY <1>2, <2>1 DEF Inv, Fits, Placed
  <2>3. CASE LoadValidate(p)
    <3>1. Intact(package[root[p]])
      BY <1>4, <2>3 DEF LoadValidate, Return, Goto, Inv, TypeOK, Validate
    <3>2. QED BY <2>3, <3>1 DEF LoadValidate, Intact, Harmless, disk, local
  <2>4. CASE LoadCompatible(p)
    BY <2>4 DEF LoadCompatible, Inv, LoadedFiles, disk, local, history
  <2>5. CASE LoadOpen(p)
    BY <1>4, <2>5 DEF LoadOpen, Return, Goto, Inv, TypeOK
  <2>6. CASE Remove(p)
    BY <2>2, <2>6 DEF Remove, RemovePrepared, Unlink, RemoveDirectory, LoadStep
  <2>7. CASE Install(p)
    BY <2>2, <2>7
       DEF LoadStep, Install, CheckFinal, Stage, VerifyStaging, CheckSwap, SetAside, Publish,
           Restore, DropBackup, CleanUp, Prepare, Retract, Compile, WriteManifest
  <2>8. QED BY <2>3, <2>4, <2>5, <2>6, <2>7 DEF Load
<1>5. QED BY <1>2, <1>3, <1>4, PackagesHarmless, OthersFit DEF Inv

LEMMA NextInv == Inv /\ [Next]_vars => Inv'
<1> SUFFICES ASSUME Inv, [Next]_vars PROVE Inv'
  OBVIOUS
<1>1. CASE UNCHANGED vars
  <2>1. TypeOK' /\ Alone'
    BY <1>1 DEF Inv, TypeOK, Alone, vars, disk, local, history
  <2>2. LoadedFiles'
    BY <1>1 DEF Inv, LoadedFiles, Harmless, vars, disk, local, history
  <2>3. ASSUME NEW p \in Process PROVE Fits(p)'
    <3>1. Fits(p)
      BY DEF Inv
    <3>2. QED
      BY <1>1, <3>1 DEF Fits, Placed, Undisturbed, Intact, HasManifest, CacheLoads,
                        vars, disk, local, history
  <2>4. QED BY <2>1, <2>2, <2>3 DEF Inv
<1>2. QED BY <1>1, BeginKeeps, StepKeeps, CrashKeeps, DamageKeeps, UpgradeKeeps DEF Next

LEMMA InitInv == Init => Inv
<1> SUFFICES ASSUME Init PROVE Inv
  OBVIOUS
<1>1. \A p \in Process : pc[p] = "idle" /\ calm[p] = FALSE
  BY DEF Init
<1>2. QED BY <1>1, InitType DEF Inv, Alone, LoadedFiles, Fits, Placed

-------------------------------------------------------------------------------
\* The inductive invariant of the registered models.
THEOREM RegisteredInvariant == Spec => []Inv
BY InitInv, NextInv, PTL DEF Spec

\* Runtime::load_model: a load opens the files it validated, or others that are
\* intact or missing, unless a damaged package was put back in between.
LEMMA VerifiedStep ==
    ASSUME Inv, [Next]_vars, NEW p \in Process, op[p] = "load", Returns(p, "ok")
    PROVE  Intact(package[root[p]]) \/ p \in putBack
<1>1. pc[p] \in LoadStep /\ pc'[p] = "idle" /\ result'[p] = "ok"
  BY DEF Inv, Fits, Placed, Returns
<1>2. LoadOpen(p)
  <2>1. CASE UNCHANGED vars
    BY <1>1, <2>1 DEF vars, LoadStep
  <2>2. CASE Damage \/ Upgrade
    BY <1>1, <2>2 DEF Damage, Upgrade, LoadStep
  <2>3. ASSUME NEW q \in Process, Begin(q) PROVE FALSE
    BY <1>1, <2>3 DEF Begin, Goto, Entry, LoadStep, Inv, TypeOK
  <2>4. ASSUME NEW q \in Process, q # p, Install(q) \/ Remove(q) \/ Load(q) \/ Crash(q)
        PROVE  FALSE
    BY <1>1, <2>4, StepFrame DEF Frame, Inv, LoadStep
  <2>5. CASE Crash(p)
    BY <1>1, <2>5 DEF Crash, Return, Inv, TypeOK
  <2>6. CASE Install(p)
    BY <1>1, <2>6
       DEF LoadStep, Install, CheckFinal, Stage, VerifyStaging, CheckSwap, SetAside, Publish,
           Restore, DropBackup, CleanUp, Prepare, Retract, Compile, WriteManifest
  <2>7. CASE Remove(p)
    BY <1>1, <2>7 DEF Remove, RemovePrepared, Unlink, RemoveDirectory, LoadStep
  <2>8. CASE LoadValidate(p) \/ LoadCompatible(p)
    BY <1>1, <2>8 DEF LoadValidate, LoadCompatible, Proceed, Return, Goto, Inv, TypeOK
  <2>9. QED BY <2>1, <2>2, <2>3, <2>4, <2>5, <2>6, <2>7, <2>8 DEF Next, Load
<1>3. TRUE \in MayOpen(package[root[p]]) /\ pc[p] = "open"
  BY <1>1, <1>2 DEF LoadOpen, Return, Inv, TypeOK
<1>4. package[root[p]] # Nothing => package[root[p]].files \in FileState
  BY DEF Inv, TypeOK, Directory, Bundles
<1>5. p \in putBack \/ Harmless(package[root[p]])
  BY <1>3 DEF Inv, LoadedFiles
<1>6. QED BY <1>3, <1>4, <1>5 DEF MayOpen, Intact, Harmless, FileState

\* Only the process itself leaves a step of its own.
LEMMA OwnStep ==
    ASSUME Inv, [Next]_vars, NEW p \in Process, pc[p] # "idle", pc'[p] # pc[p]
    PROVE  Install(p) \/ Remove(p) \/ Load(p) \/ Crash(p)
<1>1. CASE UNCHANGED vars
  BY <1>1 DEF vars
<1>2. CASE Damage \/ Upgrade
  BY <1>2 DEF Damage, Upgrade
<1>3. ASSUME NEW q \in Process, Begin(q) PROVE FALSE
  BY <1>3 DEF Begin, Goto, Inv, TypeOK
<1>4. ASSUME NEW q \in Process, q # p, Install(q) \/ Remove(q) \/ Load(q) \/ Crash(q)
      PROVE  FALSE
  BY <1>4, StepFrame DEF Frame, Inv
<1>5. QED BY <1>1, <1>2, <1>3, <1>4 DEF Next

LEMMA UnrepairedStep ==
    ASSUME Inv, [Next]_vars, NEW p \in Process, pc[p] = "open", calm[p], pc'[p] # "open"
    PROVE  UNCHANGED disk
<1>1. HasManifest(package[root[p]])
  BY DEF Inv, Fits, Undisturbed
<1>2. CASE Crash(p)
  BY <1>2 DEF Crash
<1>3. CASE LoadOpen(p)
  BY <1>1, <1>3 DEF LoadOpen, Opens, disk
<1>4. op[p] = "load"
  BY DEF Inv, Fits, Placed, InstallStep, RemoveStep
<1>5. CASE Install(p) \/ Remove(p) \/ LoadValidate(p) \/ LoadCompatible(p)
  BY <1>5 DEF Install, CheckFinal, Stage, VerifyStaging, CheckSwap, SetAside, Publish,
              Restore, DropBackup, CleanUp, Prepare, Retract, Compile, WriteManifest,
              Remove, RemovePrepared, Unlink, RemoveDirectory, LoadValidate, LoadCompatible
<1>6. QED BY <1>2, <1>3, <1>5, OwnStep DEF Load

\* Each check of a load that fails is one that the doctor makes as well.
LEMMA RefusedStep ==
    ASSUME Inv, [Next]_vars, NEW p \in Process, op[p] = "load", Returns(p, "error")
    PROVE  DoctorStatus(root[p]) # "Ready"
<1>1. pc[p] \in LoadStep /\ pc'[p] = "idle" /\ result'[p] = "error" /\ pc[p] # "idle"
  BY DEF Inv, Fits, Placed, Returns
<1>2. Install(p) \/ Remove(p) \/ Load(p) \/ Crash(p)
  BY <1>1, OwnStep
<1>3. Load(p)
  <2>1. ~Crash(p)
    BY <1>1 DEF Crash, Return, Inv, TypeOK
  <2>2. ~Install(p) /\ ~Remove(p)
    BY <1>1 DEF LoadStep, Install, CheckFinal, Stage, VerifyStaging, CheckSwap, SetAside,
                Publish, Restore, DropBackup, CleanUp, Prepare, Retract, Compile, WriteManifest,
                Remove, RemovePrepared, Unlink, RemoveDirectory
  <2>3. QED BY <1>2, <2>1, <2>2
<1> SUFFICES ASSUME DoctorStatus(root[p]) = "Ready" PROVE FALSE
  OBVIOUS
<1>4. /\ Intact(package[root[p]]) /\ HasManifest(package[root[p]])
      /\ backend = "coreml" => CacheLoads
  BY DEF DoctorStatus, Validate, Prepared
<1>5. CASE LoadValidate(p)
  BY <1>1, <1>4, <1>5 DEF LoadValidate, Validate, Proceed, Goto, Inv, TypeOK
<1>6. CASE LoadCompatible(p)
  <2>1. ArtifactExists(root[p])
    BY <1>4 DEF ArtifactExists, CacheLoads, Intact
  <2>2. QED BY <1>1, <1>4, <1>6, <2>1 DEF LoadCompatible, Proceed, Goto, Inv, TypeOK
<1>7. CASE LoadOpen(p)
  <2>1. MayOpen(package[root[p]]) = {TRUE}
    BY <1>4 DEF MayOpen
  <2>2. Return(p, "ok")
    BY <1>4, <1>7, <2>1 DEF LoadOpen
  <2>3. QED BY <1>1, <2>2 DEF Return, Inv, TypeOK
<1>8. QED BY <1>3, <1>5, <1>6, <1>7 DEF Load

\* Runtime::load_model: what it hands out was verified, a load that nothing
\* disturbs compiles nothing, and it does not fail where the doctor says Ready.
THEOREM LoadsOpenInstalledFiles == Spec => LoadsAsInstalled
<1>1. Inv /\ [Next]_vars =>
         [\A p \in Process : op[p] = "load" /\ Returns(p, "ok") =>
                                Intact(package[root[p]]) \/ p \in putBack]_vars
  BY VerifiedStep
<1>2. Inv /\ [Next]_vars =>
         [\A p \in Process : pc[p] = "open" /\ calm[p] /\ pc'[p] # "open" => UNCHANGED disk]_vars
  BY UnrepairedStep
<1>3. Inv /\ [Next]_vars =>
         [\A p \in Process : op[p] = "load" /\ calm[p] /\ Returns(p, "error") =>
                                DoctorStatus(root[p]) # "Ready"]_vars
  BY RefusedStep
<1>4. QED
  BY <1>1, <1>2, <1>3, RegisteredInvariant, PTL
     DEF Spec, LoadsAsInstalled, LoadsVerified, LoadNeverRepairs, ReadyIsLoaded

-------------------------------------------------------------------------------
\* How an undisturbed installation ends.
LEMMA RecoveredStep ==
    ASSUME Inv, [Next]_vars, NEW p \in Process,
           op[p] \in {"keep", "replace"}, calm[p], unhindered[p],
           pc[p] # "idle", pc'[p] = "idle", result'[p] # "crashed", calm'[p]
    PROVE  \/ Succeeds(p)
           \/ op[p] = "keep" /\ package[root[p]] # Nothing /\ ~Validate(package[root[p]])
<1> DEFINE r == root[p]
<1>a. /\ TypeOK /\ Placed(p) /\ Undisturbed(p)
      /\ r \in Root /\ package[r] \in Directory
  BY DEF Inv, Fits, TypeOK
<1>b. ~Fault
  BY DEF Fault
<1>c. pc[p] \in InstallStep
  BY <1>a DEF Placed
<1>1. Install(p)
  <2>1. ~Crash(p)
    BY <1>a DEF Crash, Return, TypeOK
  <2>2. ~Remove(p) /\ ~Load(p)
    BY <1>c DEF InstallStep, Remove, RemovePrepared, Unlink, RemoveDirectory,
                Load, LoadValidate, LoadCompatible, LoadOpen
  <2>3. QED BY <2>1, <2>2, OwnStep
<1> USE DEF Goto, Proceed, Return, Leave
<1>2. CASE CheckFinal(p)
  BY <1>2, <1>a DEF CheckFinal, Undisturbed, TypeOK
<1>3. CASE Stage(p) \/ VerifyStaging(p) \/ CheckSwap(p) \/ SetAside(p) \/ Retract(p)
  BY <1>3, <1>a DEF Stage, VerifyStaging, CheckSwap, SetAside, Retract, TypeOK
<1>4. CASE Publish(p) \/ Restore(p) \/ DropBackup(p)
  BY <1>4, <1>a DEF Publish, Restore, DropBackup, TypeOK
<1>5. CASE CleanUp(p)
  BY <1>5, <1>a DEF CleanUp, Undisturbed, TypeOK
<1>6. CASE Prepare(p)
  BY <1>6, <1>a DEF Prepare, Undisturbed, TypeOK, MayOpen
<1>7. CASE Compile(p)
  BY <1>7, <1>a, <1>b DEF Compile, Undisturbed, TypeOK, MayOpen
<1>8. CASE WriteManifest(p)
  <2>1. /\ pc[p] = "manifest" /\ Intact(package[r]) /\ built[p] \in Build
        /\ backend = "coreml" => CacheLoads /\ cache.build = built[p]
    BY <1>8, <1>a DEF WriteManifest, Undisturbed
  <2> DEFINE record == [build |-> built[p], current |-> TRUE]
  <2>r. record \in Manifest /\ record.build = built[p] /\ record.current
    BY <2>1 DEF Manifest
  <2> HIDE DEF record
  <2>2. /\ package' = [package EXCEPT ![r] = Bundle(@.files, record)]
        /\ result'[p] = "ok"
        /\ backend' = backend /\ cache' = cache /\ root' = root
    BY <1>8, <1>a, <1>b, <2>1 DEF WriteManifest, Intact, local, TypeOK, record
  <2>3. package'[r] = Bundle("intact", record)
    BY <1>a, <2>1, <2>2 DEF Intact, TypeOK
  <2>4. /\ package'[r] # Nothing /\ package'[r].files = "intact"
        /\ package'[r].manifest = record /\ record # NoBuild
    BY <2>1, <2>r, <2>3, DirectoryFacts DEF Bundle, FileState
  <2>5. root'[p] = r
    BY <2>2
  <2>6. (DoctorStatus(root[p]) = "Ready")'
    BY <2>1, <2>r, <2>2, <2>4, <2>5
       DEF DoctorStatus, Validate, Intact, HasManifest, Prepared, CacheLoads
  <2>7. (ListStatus(root[p]) = "Ready")'
    BY <2>1, <2>r, <2>2, <2>4, <2>5
       DEF ListStatus, HasManifest, Current, ArtifactExists, CacheLoads
  <2>8. QED BY <2>2, <2>6, <2>7 DEF Succeeds, Returns
<1>9. QED BY <1>1, <1>2, <1>3, <1>4, <1>5, <1>6, <1>7, <1>8 DEF Install

\* Runtime::install_registered_model: an installation that nothing disturbs,
\* with no .replace-pid in its way, ends with a model that the doctor and the
\* list call Ready, whatever releases, crashes, failures and damage came before.
THEOREM InstallsRecover == Spec => InstallRecovers
<1>1. Inv /\ [Next]_vars =>
         [\A p \in Process :
             /\ op[p] \in {"keep", "replace"} /\ calm[p] /\ unhindered[p]
             /\ pc[p] # "idle" /\ pc'[p] = "idle" /\ result'[p] # "crashed" /\ calm'[p]
             => \/ Succeeds(p)
                \/ op[p] = "keep" /\ package[root[p]] # Nothing
                   /\ ~Validate(package[root[p]])]_vars
  BY RecoveredStep
<1>2. QED BY <1>1, RegisteredInvariant, PTL DEF Spec, InstallRecovers

-------------------------------------------------------------------------------
(***************************************************************************)
(* ModelInstaller, for every number of installers, processes, calls and    *)
(* crashes, as long as no two installers share a process: with two in one  *)
(* process they share a staging directory and neither invariant would      *)
(* hold.  Its state is not that of RegisteredModels: "at" stands for its   *)
(* pc, "answer" for its result and "deaths" for its crashes.               *)
(***************************************************************************)
InstallerStep == {"idle", "resolve", "validate", "clear", "create", "fetch", "verify", "exists",
                  "backup", "swap", "publish", "restore", "discard", "refresh", "report",
                  "cleanup"}

InstallerType ==
    /\ files \in [Setup!Path -> Setup!Content]
    /\ at \in [Installer -> InstallerStep]
    /\ mode \in [Installer -> {"keep", "replace"}]
    /\ pid \in [Installer -> Pid]
    /\ published \in BOOLEAN

\* No two installers run under one process id, before and after a crash.
Separate == \A t, u \in Installer : pid[t] = pid[u] => t = u

\* Between its verification and its publication a staged package is whole: only
\* its own installer writes below that name.
Staged ==
    \A t \in Installer :
       at[t] \in {"exists", "backup", "swap", "publish"} => files[Setup!Staging(pid[t])] = "good"

\* The package set aside is whole for as long as it may have to be put back.
SetAsideWhole ==
    \A t \in Installer : at[t] \in {"swap", "restore"} => files[Setup!Backup(pid[t])] = "good"

\* A whole copy that nobody is about to remove: the package in place, or one set
\* aside by a replacement that is not done, failed or died.
Kept ==
    published => \/ files[Setup!Final] = "good"
                 \/ \E p \in Pid : /\ files[Setup!Backup(p)] = "good"
                                   /\ \A t \in Installer : pid[t] = p => at[t] # "discard"

InstallerInv ==
    InstallerType /\ Separate /\ Staged /\ SetAsideWhole /\ Setup!PublishedIsVerified /\ Kept

-------------------------------------------------------------------------------
\* The directories of the processes and the place of the model are all apart.
LEMMA PathsApart ==
    /\ Setup!Final \in Setup!Path
    /\ \A p \in Pid : /\ Setup!Staging(p) \in Setup!Path /\ Setup!Backup(p) \in Setup!Path
                      /\ Setup!Staging(p) # Setup!Final /\ Setup!Backup(p) # Setup!Final
    /\ \A p, q \in Pid : Setup!Staging(p) # Setup!Backup(q)
    /\ \A p, q \in Pid : p # q => /\ Setup!Staging(p) # Setup!Staging(q)
                                 /\ Setup!Backup(p) # Setup!Backup(q)
BY DEF Setup!Path, Setup!Final, Setup!Staging, Setup!Backup

\* An installer that moves to a step which promises nothing about its own
\* directories keeps the invariant if it writes to no directory but its staging
\* one.
LEMMA QuietStep ==
    ASSUME InstallerInv, NEW t \in Installer,
           NEW s \in InstallerStep \ {"discard"}, Setup!Goto(t, s),
           \E content \in Setup!Content : \/ Setup!At(Setup!Staging(pid[t]), content)
                                          \/ UNCHANGED files,
           UNCHANGED <<pid, published>>, mode' \in [Installer -> {"keep", "replace"}],
           s \in {"exists", "backup", "swap", "publish"} => files'[Setup!Staging(pid[t])] = "good",
           s \in {"swap", "restore"} => files[Setup!Backup(pid[t])] = "good"
    PROVE  InstallerInv'
<1> USE PathsApart DEF InstallerInv
<1> PICK content \in Setup!Content : Setup!At(Setup!Staging(pid[t]), content) \/ UNCHANGED files
  OBVIOUS
<1>1. /\ InstallerType' /\ pid[t] \in Pid
      /\ \A u \in Installer : pid[u] \in Pid /\ (u # t => at'[u] = at[u])
      /\ at'[t] = s
  BY DEF InstallerType, Setup!Goto, Setup!At
<1>2. \A path \in Setup!Path : path # Setup!Staging(pid[t]) => files'[path] = files[path]
  BY DEF InstallerType, Setup!At
<1>3. Separate'
  BY DEF Separate
<1>4. Staged'
  <2> SUFFICES ASSUME NEW u \in Installer,
                      at'[u] \in {"exists", "backup", "swap", "publish"}
               PROVE  files'[Setup!Staging(pid[u])] = "good"
    BY DEF Staged
  <2>1. CASE u = t
    BY <1>1, <2>1
  <2>2. CASE u # t
    BY <1>1, <1>2, <2>2 DEF Staged, Separate
  <2>3. QED BY <2>1, <2>2
<1>5. SetAsideWhole'
  <2> SUFFICES ASSUME NEW u \in Installer, at'[u] \in {"swap", "restore"}
               PROVE  files'[Setup!Backup(pid[u])] = "good"
    BY DEF SetAsideWhole
  <2>1. CASE u = t
    BY <1>1, <1>2, <2>1
  <2>2. CASE u # t
    BY <1>1, <1>2, <2>2 DEF SetAsideWhole
  <2>3. QED BY <2>1, <2>2
<1>6. Setup!PublishedIsVerified'
  BY <1>1, <1>2 DEF Setup!PublishedIsVerified
<1>7. Kept'
  BY <1>1, <1>2 DEF Kept
<1>8. QED BY <1>1, <1>3, <1>4, <1>5, <1>6, <1>7

LEMMA InstallerInit == ASSUME ~OneProcess, Setup!Init PROVE InstallerInv
<1> PICK ids \in [Installer -> Pid] :
          /\ \A t, u \in Installer : ids[t] = ids[u] <=> (OneProcess \/ t = u)
          /\ pid = ids
  BY DEF Setup!Init
<1>1. InstallerType
  BY DEF Setup!Init, InstallerType, Setup!Content, InstallerStep
<1>2. Separate
  BY DEF Separate
<1>3. QED
  BY <1>1, <1>2, PathsApart
     DEF Setup!Init, InstallerInv, Staged, SetAsideWhole, Setup!PublishedIsVerified, Kept

\* The step that sets the package in place aside: what was at the place of the
\* model is then below the name of this process.
LEMMA SetAsideKeeps ==
    ASSUME InstallerInv, NEW t \in Installer, Setup!SetAside(t)
    PROVE  InstallerInv'
<1> USE PathsApart DEF InstallerInv
<1>1. CASE Setup!Leave(t, "failed") /\ UNCHANGED files
  BY <1>1, QuietStep
     DEF Setup!SetAside, Setup!Leave, InstallerStep, Setup!callVars, InstallerType, Setup!Content
<1>2. CASE /\ Setup!CanMove(Setup!Final, Setup!Backup(pid[t]))
           /\ Setup!Move(Setup!Final, Setup!Backup(pid[t]))
           /\ Setup!Goto(t, "swap")
  <2>1. /\ pid[t] \in Pid /\ at'[t] = "swap" /\ UNCHANGED <<pid, mode, published>>
        /\ \A u \in Installer : pid[u] \in Pid /\ (u # t => at'[u] = at[u])
    BY <1>2 DEF InstallerType, Setup!Goto, Setup!SetAside, Setup!callVars
  <2>2. /\ files'[Setup!Final] = "absent" /\ files'[Setup!Backup(pid[t])] = "good"
        /\ \A path \in Setup!Path \ {Setup!Final, Setup!Backup(pid[t])} : files'[path] = files[path]
        /\ files' \in [Setup!Path -> Setup!Content]
    BY <1>2, <2>1
       DEF InstallerType, Setup!CanMove, Setup!Move, Setup!PublishedIsVerified, Setup!Content
  <2>3. InstallerType'
    BY <1>2, <2>1, <2>2 DEF InstallerType, Setup!Goto, InstallerStep
  <2>4. Separate'
    BY <2>1 DEF Separate
  <2>5. Staged'
    BY <1>2, <2>1, <2>2 DEF Staged, Setup!SetAside
  <2>6. SetAsideWhole'
    BY <2>1, <2>2 DEF SetAsideWhole, Separate
  <2>7. Kept'
    BY <2>1, <2>2 DEF Kept, Separate
  <2>8. QED BY <2>2, <2>3, <2>4, <2>5, <2>6, <2>7 DEF Setup!PublishedIsVerified
<1>3. QED BY <1>1, <1>2 DEF Setup!SetAside

\* The step that renames a verified package into place.
LEMMA PublishKeeps ==
    ASSUME InstallerInv, NEW t \in Installer, Setup!Publish(t)
    PROVE  InstallerInv'
<1> USE PathsApart DEF InstallerInv
<1>1. at[t] \in {"swap", "publish"} /\ UNCHANGED <<pid, mode>> /\ pid[t] \in Pid
  BY DEF Setup!Publish, Setup!callVars, InstallerType
<1>2. CASE /\ Setup!CanMove(Setup!Staging(pid[t]), Setup!Final)
           /\ Setup!Move(Setup!Staging(pid[t]), Setup!Final)
           /\ Setup!Goto(t, IF at[t] = "swap" THEN "discard" ELSE "refresh")
           /\ published' = TRUE
  <2>1. /\ at'[t] \in {"discard", "refresh"}
        /\ \A u \in Installer : pid[u] \in Pid /\ (u # t => at'[u] = at[u])
    BY <1>1, <1>2 DEF InstallerType, Setup!Goto
  <2>2. /\ files'[Setup!Final] = "good"
        /\ \A path \in Setup!Path \ {Setup!Final, Setup!Staging(pid[t])} : files'[path] = files[path]
        /\ files' \in [Setup!Path -> Setup!Content]
    BY <1>1, <1>2 DEF InstallerType, Setup!Move, Staged, Setup!Content
  <2>3. InstallerType'
    BY <1>1, <1>2, <2>2 DEF InstallerType, Setup!Goto, InstallerStep
  <2>4. Separate'
    BY <1>1 DEF Separate
  <2>5. Staged'
    BY <1>1, <2>1, <2>2 DEF Staged, Separate
  <2>6. SetAsideWhole'
    BY <1>1, <2>1, <2>2 DEF SetAsideWhole
  <2>7. QED BY <2>2, <2>3, <2>4, <2>5, <2>6 DEF Setup!PublishedIsVerified, Kept
<1>3. CASE /\ at[t] = "swap" /\ Setup!Goto(t, "restore") /\ UNCHANGED <<files, published>>
  BY <1>1, <1>3, QuietStep DEF SetAsideWhole, InstallerStep, InstallerType, Setup!Content
<1>4. CASE Setup!Leave(t, "failed") /\ UNCHANGED <<files, published>>
  BY <1>1, <1>4, QuietStep DEF Setup!Leave, InstallerStep, InstallerType, Setup!Content
<1>5. QED BY <1>1, <1>2, <1>3, <1>4 DEF Setup!Publish

\* The step that puts the package set aside back, if it can.
LEMMA RestoreKeeps ==
    ASSUME InstallerInv, NEW t \in Installer, Setup!Restore(t)
    PROVE  InstallerInv'
<1> USE PathsApart DEF InstallerInv
<1>1. /\ at[t] = "restore" /\ at'[t] = "cleanup" /\ UNCHANGED <<pid, mode, published>>
      /\ \A u \in Installer : pid[u] \in Pid /\ (u # t => at'[u] = at[u])
  BY DEF Setup!Restore, Setup!Leave, Setup!Goto, Setup!callVars, InstallerType
<1>2. CASE UNCHANGED files
  BY <1>1, <1>2, QuietStep
     DEF Setup!Restore, Setup!Leave, InstallerStep, InstallerType, Setup!Content
<1>3. CASE /\ Setup!CanMove(Setup!Backup(pid[t]), Setup!Final)
           /\ Setup!Move(Setup!Backup(pid[t]), Setup!Final)
  <2>1. /\ files'[Setup!Final] = "good"
        /\ \A path \in Setup!Path \ {Setup!Final, Setup!Backup(pid[t])} : files'[path] = files[path]
        /\ files' \in [Setup!Path -> Setup!Content]
    BY <1>1, <1>3 DEF InstallerType, Setup!Move, SetAsideWhole, Setup!Content
  <2>2. InstallerType'
    BY <1>1, <2>1 DEF InstallerType, Setup!Goto, Setup!Restore, Setup!Leave, InstallerStep
  <2>3. Separate'
    BY <1>1 DEF Separate
  <2>4. Staged'
    BY <1>1, <2>1 DEF Staged
  <2>5. SetAsideWhole'
    BY <1>1, <2>1 DEF SetAsideWhole, Separate
  <2>6. QED BY <2>1, <2>2, <2>3, <2>4, <2>5 DEF Setup!PublishedIsVerified, Kept
<1>4. QED BY <1>2, <1>3 DEF Setup!Restore

\* The step that removes the package set aside: another whole copy is kept.
LEMMA DiscardKeeps ==
    ASSUME InstallerInv, NEW t \in Installer, Setup!DiscardBackup(t)
    PROVE  InstallerInv'
<1> USE PathsApart DEF InstallerInv
<1>1. /\ at[t] = "discard" /\ at'[t] = "refresh" /\ UNCHANGED <<pid, mode, published>>
      /\ \A u \in Installer : pid[u] \in Pid /\ (u # t => at'[u] = at[u])
  BY DEF Setup!DiscardBackup, Setup!Goto, Setup!callVars, InstallerType
<1>2. /\ \A path \in Setup!Path \ {Setup!Backup(pid[t])} : files'[path] = files[path]
      /\ files' \in [Setup!Path -> Setup!Content]
  BY <1>1 DEF Setup!DiscardBackup, Setup!At, InstallerType, Setup!Content
<1>3. InstallerType'
  BY <1>1, <1>2 DEF InstallerType, Setup!DiscardBackup, Setup!Goto, InstallerStep
<1>4. Separate'
  BY <1>1 DEF Separate
<1>5. Staged'
  BY <1>1, <1>2 DEF Staged
<1>6. SetAsideWhole'
  BY <1>1, <1>2 DEF SetAsideWhole, Separate
<1>7. Setup!PublishedIsVerified' /\ Kept'
  BY <1>1, <1>2 DEF Setup!PublishedIsVerified, Kept
<1>8. QED BY <1>3, <1>4, <1>5, <1>6, <1>7

\* A process that dies leaves its directories as they are, and the one that is
\* started again has a process id that no installer has.
LEMMA InstallerCrashKeeps ==
    ASSUME InstallerInv, NEW t \in Installer, Setup!Crash(t)
    PROVE  InstallerInv'
<1> USE PathsApart DEF InstallerInv
<1>1. UNCHANGED <<files, mode, published>>
  BY DEF Setup!Crash
<1>2. {u \in Installer : pid[u] = pid[t]} = {t}
  BY DEF Separate
<1>3. PICK p \in Pid \ {pid[u] : u \in Installer \ {t}} :
          /\ pid' = [u \in Installer |-> IF u \in {t} THEN p ELSE pid[u]]
          /\ at' = [u \in Installer |-> IF u \in {t} THEN "idle" ELSE at[u]]
  BY <1>2 DEF Setup!Crash
<1>4. InstallerType'
  BY <1>1, <1>3 DEF InstallerType, InstallerStep
<1>5. Separate'
  BY <1>3 DEF Separate
<1>6. \A u \in Installer : /\ u = t => at'[u] = "idle"
                           /\ u # t => at'[u] = at[u] /\ pid'[u] = pid[u]
  BY <1>3
<1>7. Staged' /\ SetAsideWhole' /\ Setup!PublishedIsVerified'
  BY <1>1, <1>6 DEF Staged, SetAsideWhole, Setup!PublishedIsVerified
<1>8. Kept'
  BY <1>1, <1>6 DEF Kept
<1>9. QED BY <1>4, <1>5, <1>7, <1>8

LEMMA InstallerNext == InstallerInv /\ [Setup!Next]_(Setup!vars) => InstallerInv'
<1> SUFFICES ASSUME InstallerInv, [Setup!Next]_(Setup!vars) PROVE InstallerInv'
  OBVIOUS
<1> USE DEF InstallerStep, Setup!callVars
<1>a. InstallerType /\ Staged
  BY DEF InstallerInv
<1>b. /\ "absent" \in Setup!Content /\ "bare" \in Setup!Content
      /\ mode \in [Installer -> {"keep", "replace"}]
  BY <1>a DEF Setup!Content, InstallerType
<1>1. ASSUME NEW t \in Installer, Setup!Install(t) PROVE InstallerInv'
  BY <1>a, <1>b, <1>1, QuietStep DEF Setup!Install, InstallerType
<1>2. ASSUME NEW t \in Installer, Setup!ResolveExisting(t) PROVE InstallerInv'
  <2>1. \E s \in {"validate", "clear"} : Setup!Goto(t, s)
    BY <1>2 DEF Setup!ResolveExisting
  <2>2. QED BY <1>a, <1>b, <1>2, <2>1, QuietStep DEF Setup!ResolveExisting
<1>3. ASSUME NEW t \in Installer, Setup!ValidateExisting(t) PROVE InstallerInv'
  <2>1. \E s \in {"idle", "clear"} : Setup!Goto(t, s)
    BY <1>3 DEF Setup!ValidateExisting, Setup!Return
  <2>2. QED BY <1>a, <1>b, <1>3, <2>1, QuietStep DEF Setup!ValidateExisting
<1>4. ASSUME NEW t \in Installer, Setup!ClearStaging(t) PROVE InstallerInv'
  BY <1>a, <1>b, <1>4, QuietStep DEF Setup!ClearStaging, Setup!Return
<1>5. ASSUME NEW t \in Installer, Setup!CreateStaging(t) PROVE InstallerInv'
  BY <1>a, <1>b, <1>5, QuietStep DEF Setup!CreateStaging, Setup!Return
<1>6. ASSUME NEW t \in Installer, Setup!Fetch(t) PROVE InstallerInv'
  <2>1. CASE \E content \in {"broken", "corrupt", "good"} :
             /\ Setup!At(Setup!Staging(pid[t]), content)
             /\ Setup!Goto(t, "fetch") \/ Setup!Goto(t, "verify")
    <3>1. {"broken", "corrupt", "good"} \subseteq Setup!Content
      BY DEF Setup!Content
    <3>2. QED BY <1>a, <1>b, <1>6, <2>1, <3>1, QuietStep DEF Setup!Fetch
  <2>2. CASE Setup!Leave(t, "failed") /\ UNCHANGED files
    BY <1>a, <1>b, <1>6, <2>2, QuietStep DEF Setup!Fetch, Setup!Leave
  <2>3. QED BY <1>6, <2>1, <2>2 DEF Setup!Fetch
<1>7. ASSUME NEW t \in Installer, Setup!Verify(t) PROVE InstallerInv'
  BY <1>a, <1>b, <1>7, QuietStep DEF Setup!Verify, Setup!Leave
<1>8. ASSUME NEW t \in Installer, Setup!CheckFinal(t) PROVE InstallerInv'
  BY <1>a, <1>b, <1>8, QuietStep DEF Setup!CheckFinal, Setup!Leave, Staged
<1>9. ASSUME NEW t \in Installer,
             \/ Setup!SetAside(t) \/ Setup!Publish(t)
             \/ Setup!Restore(t) \/ Setup!DiscardBackup(t)
      PROVE  InstallerInv'
  BY <1>9, SetAsideKeeps, PublishKeeps, RestoreKeeps, DiscardKeeps
<1>10. ASSUME NEW t \in Installer, Setup!Refresh(t) PROVE InstallerInv'
  <2>1. \E s \in {"report", "cleanup"} : Setup!Goto(t, s)
    BY <1>10 DEF Setup!Refresh, Setup!Leave
  <2>2. QED BY <1>a, <1>b, <1>10, <2>1, QuietStep DEF Setup!Refresh
<1>11. ASSUME NEW t \in Installer, Setup!Report(t) PROVE InstallerInv'
  <2>1. Setup!Goto(t, "cleanup")
    BY <1>11 DEF Setup!Report, Setup!Leave
  <2>2. QED BY <1>a, <1>b, <1>11, <2>1, QuietStep DEF Setup!Report
<1>12. ASSUME NEW t \in Installer, Setup!CleanUp(t) PROVE InstallerInv'
  BY <1>a, <1>b, <1>12, QuietStep DEF Setup!CleanUp, Setup!Return
<1>13. ASSUME NEW t \in Installer, Setup!Crash(t) PROVE InstallerInv'
  BY <1>13, InstallerCrashKeeps
<1>14. CASE UNCHANGED Setup!vars
  BY <1>14 DEF Setup!vars, InstallerInv, InstallerType, Separate, Staged, SetAsideWhole,
               Setup!PublishedIsVerified, Kept
<1>15. QED
  BY <1>1, <1>2, <1>3, <1>4, <1>5, <1>6, <1>7, <1>8, <1>9, <1>10, <1>11, <1>12, <1>13, <1>14
     DEF Setup!Next, Setup!Step, Setup!Finished

-------------------------------------------------------------------------------
\* The inductive invariant of the installation, for installers in processes of
\* their own.
THEOREM InstallerInvariant == ASSUME ~OneProcess PROVE Setup!Spec => []InstallerInv
<1>1. Setup!Init => InstallerInv
  BY InstallerInit
<1>2. QED BY <1>1, InstallerNext, PTL DEF Setup!Spec

\* ModelInstaller::install: what is at the path of the model is whole and was
\* verified, whatever the other processes do and wherever any of them dies.
THEOREM InstalledIsVerified ==
    ASSUME ~OneProcess PROVE Setup!Spec => []PublishedIsVerified
<1>1. InstallerInv => PublishedIsVerified
  BY DEF InstallerInv, PublishedIsVerified
<1>2. QED BY <1>1, InstallerInvariant, PTL

\* The exchange of packages in ModelInstaller::install: once published, some
\* whole copy of the model is on the disk at every point, crashes included.
THEOREM InstalledIsNeverLost ==
    ASSUME ~OneProcess PROVE Setup!Spec => []NothingLost
<1>1. InstallerInv => NothingLost
  BY PathsApart DEF InstallerInv, Kept, NothingLost, Setup!NothingLost
<1>2. QED BY <1>1, InstallerInvariant, PTL

==============================================================================
