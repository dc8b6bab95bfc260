--------------------------- MODULE RegisteredModels ---------------------------
(***************************************************************************)
(* The life of a registered model (laya): RegisteredModelInstaller         *)
(* (crates/model/src/lib.rs) and the operations of the runtime around it   *)
(* (crates/runtime/src/lib.rs): install, doctor, list, remove, load_model; *)
(* with the preparation by the ONNX and the Core ML adapter                *)
(* (backends/onnx, backends/coreml laya.rs).  Several processes work on    *)
(* the model roots and share the cache of compiled models; a process may   *)
(* crash between any two steps and comes back with the pid it had, as the  *)
(* first process of a container does.  An action is one operation on the   *)
(* file system or one check of a package.                                  *)
(***************************************************************************)
EXTENDS Naturals, FiniteSets

CONSTANTS Process,   \* process ids
          Root,      \* model roots (ML_RUNTIME_MODEL_DIR)
          Backend,   \* subset of {"onnx", "coreml"}: the variants to consider
          Build,     \* identities a compiled artifact may get
          NoBuild,   \* no installation.json
          Nothing,   \* no directory
          MaxCalls,  \* bound: operations started
          MaxFaults, \* bound: failing file operations, bad downloads, damage, upgrades
          MaxCrashes \* bound: crashes

FileState == {"intact", "altered", "missing"}

\* installation.json: the identity of the prepared artifact, and whether the
\* runtime requirement on record is the one that the registration has now.
Manifest == [build : Build \cup {NoBuild}, current : BOOLEAN]

ASSUME RegisteredAssumption ==
    /\ Root # {} /\ Backend \subseteq {"onnx", "coreml"} /\ Backend # {}
    /\ Build # {} /\ NoBuild \notin Build /\ NoBuild \notin Manifest
    /\ Nothing \notin [files : FileState, manifest : Manifest \cup {NoBuild}]
    /\ Nothing \notin [build : Build, loads : BOOLEAN]
    /\ MaxCalls \in Nat /\ MaxFaults \in Nat /\ MaxCrashes \in Nat

VARIABLES backend,   \* the variant the registry resolves to on this platform
          package,   \* root/name/revision
          backup,    \* root/name/.replace-pid
          staging,   \* root/.staging/name-pid
          cache,     \* coreml/laya-hash.mlmodelc: one for all roots
          pc, op, root,
          already,   \* install found a valid package
          built,     \* identity the preparation returned
          result,    \* how the last call of the process ended
          calm,      \* nothing else happened since the call began
          unhindered, \* no .replace-pid of its own lay there when it began
          putBack,   \* since it began, a failed replacement of another process
                     \* put back the package that was there, damaged
          calls, faults, crashes

disk == <<package, backup, staging, cache>>
budget == <<calls, faults, crashes>>
history == <<unhindered, putBack>>
local == <<op, root, already, built, history>>
vars == <<backend, disk, pc, local, result, calm, budget>>

\* The files are those registered, some have other bytes, or some are missing.
\* manifest is a Manifest, or NoBuild without installation.json.
Bundle(files, manifest) == [files |-> files, manifest |-> manifest]

Intact(bundle) == bundle # Nothing /\ bundle.files = "intact"

\* What the doctor and load_model ask of installation.json: it is for this
\* model, revision, backend and platform, and this runtime satisfies the
\* requirement it records.
HasManifest(bundle) == bundle # Nothing /\ bundle.manifest # NoBuild

\* What the list asks besides: that requirement is the registration's.
Current(bundle) == HasManifest(bundle) /\ bundle.manifest.current

\* RegisteredModelInstaller::validate: every registered file has its SHA-256,
\* and manifest.json is the one the registration asks for.
Validate(bundle) == Intact(bundle)

\* What LayaModel::load may say of files: it has no checksums of its own for
\* all of them, so altered files open or not.
MayOpen(bundle) ==
    IF Intact(bundle) THEN {TRUE}
    ELSE IF bundle # Nothing /\ bundle.files = "altered" THEN BOOLEAN ELSE {FALSE}

CacheLoads == cache # Nothing /\ cache.loads

\* validate_prepared: the prepared artifact loads and has the identity that
\* installation.json says.
Prepared(bundle) ==
    /\ HasManifest(bundle)
    /\ CacheLoads
    /\ cache.build = bundle.manifest.build

-------------------------------------------------------------------------------
\* The three reports, for one root.
DoctorStatus(r) ==
    IF package[r] = Nothing THEN "NotInstalled"
    ELSE IF ~Validate(package[r]) THEN "Corrupt"
    ELSE IF ~HasManifest(package[r]) THEN "Incompatible"
    ELSE IF backend = "coreml" /\ ~Prepared(package[r]) THEN "InstalledNotCompiled"
    ELSE "Ready"

ArtifactExists(r) ==
    IF backend = "coreml" THEN cache # Nothing ELSE package[r].files # "missing"

ListStatus(r) ==
    IF package[r] = Nothing THEN "NotInstalled"
    ELSE IF ~HasManifest(package[r]) THEN "Corrupt"
    ELSE IF ~Current(package[r]) \/ ~ArtifactExists(r) THEN "Incompatible"
    ELSE "Ready"

\* What load_model asks for, as it stands now.
Loadable(r) ==
    /\ Validate(package[r])
    /\ HasManifest(package[r])
    /\ backend = "coreml" => CacheLoads

-------------------------------------------------------------------------------
Goto(p, step) == pc' = [pc EXCEPT ![p] = step]

Return(p, outcome) ==
    /\ Goto(p, "idle")
    /\ result' = [result EXCEPT ![p] = outcome]

\* Every error after staging was made goes through its removal.
Leave(p, outcome) ==
    /\ Goto(p, "cleanup")
    /\ result' = [result EXCEPT ![p] = outcome]

Proceed(p, step) == Goto(p, step) /\ UNCHANGED result

NoFault == UNCHANGED <<faults, calm>>

\* A file operation fails, or the source serves other bytes.
Fault ==
    /\ faults < MaxFaults
    /\ faults' = faults + 1
    /\ calm' = [q \in Process |-> FALSE]

Entry == [keep |-> "check", replace |-> "stage", remove |-> "unprepare", load |-> "validate"]

Begin(p) ==
    /\ pc[p] = "idle"
    /\ calls < MaxCalls
    /\ calls' = calls + 1
    /\ \E o \in DOMAIN Entry, r \in Root :
          /\ op' = [op EXCEPT ![p] = o]
          /\ root' = [root EXCEPT ![p] = r]
          /\ Goto(p, Entry[o])
          /\ unhindered' = [unhindered EXCEPT ![p] = backup[r][p] = Nothing]
    /\ already' = [already EXCEPT ![p] = FALSE]
    /\ putBack' = putBack \ {p}
    /\ calm' = [q \in Process |-> q = p /\ \A other \in Process \ {p} : pc[other] = "idle"]
    /\ UNCHANGED <<backend, disk, built, result, faults, crashes>>

-------------------------------------------------------------------------------
\* install(KeepExisting) over a package that exists.
CheckFinal(p) ==
    LET r == root[p]
    IN  /\ pc[p] = "check"
        /\ \/ package[r] = Nothing /\ Proceed(p, "stage") /\ UNCHANGED already
           \/ /\ Validate(package[r])
              /\ Proceed(p, "prepare")
              /\ already' = [already EXCEPT ![p] = TRUE]
           \/ /\ package[r] # Nothing /\ ~Validate(package[r])
              /\ Return(p, "error")
              /\ UNCHANGED already
        /\ NoFault
        /\ UNCHANGED <<backend, disk, op, root, built, history, calls, crashes>>

\* The staging directory of this pid is cleared and the registered files are
\* downloaded or copied into it.
Stage(p) ==
    /\ pc[p] = "stage"
    /\ \/ /\ staging' = [staging EXCEPT ![root[p]][p] = Bundle("intact", NoBuild)]
          /\ Proceed(p, "verify")
          /\ NoFault
       \/ /\ \E files \in {"altered", "missing"} :
                staging' = [staging EXCEPT ![root[p]][p] = Bundle(files, NoBuild)]
          /\ \/ Proceed(p, "verify")
             \/ Leave(p, "error")
          /\ Fault
    /\ UNCHANGED <<backend, package, backup, cache, local, calls, crashes>>

\* Fault: a package is published if every file is there.
VerifyStagingNames(p) ==
    /\ pc[p] = "verify"
    /\ IF staging[root[p]][p].files # "missing" THEN Proceed(p, "swap") ELSE Leave(p, "error")
    /\ NoFault
    /\ UNCHANGED <<backend, disk, local, calls, crashes>>

\* write_registered_manifest, validate.
VerifyStaging(p) ==
    /\ pc[p] = "verify"
    /\ IF Validate(staging[root[p]][p]) THEN Proceed(p, "swap") ELSE Leave(p, "error")
    /\ NoFault
    /\ UNCHANGED <<backend, disk, local, calls, crashes>>

CheckSwap(p) ==
    /\ pc[p] = "swap"
    /\ \/ package[root[p]] = Nothing /\ Proceed(p, "publish")
       \/ package[root[p]] # Nothing /\ op[p] = "replace" /\ Proceed(p, "aside")
       \/ package[root[p]] # Nothing /\ op[p] # "replace" /\ Leave(p, "error")
    /\ NoFault
    /\ UNCHANGED <<backend, disk, local, calls, crashes>>

\* rename(final, .replace-pid): not onto a directory that is there.
SetAside(p) ==
    LET r == root[p]
    IN  /\ pc[p] = "aside"
        /\ \/ /\ package[r] # Nothing /\ backup[r][p] = Nothing
              /\ backup' = [backup EXCEPT ![r][p] = package[r]]
              /\ package' = [package EXCEPT ![r] = Nothing]
              /\ Proceed(p, "replace")
              /\ NoFault
           \/ /\ package[r] = Nothing \/ backup[r][p] # Nothing
              /\ Leave(p, "error")
              /\ NoFault
              /\ UNCHANGED <<package, backup>>
           \/ Leave(p, "error") /\ Fault /\ UNCHANGED <<package, backup>>
        /\ UNCHANGED <<backend, staging, cache, local, calls, crashes>>

\* rename(staging, final), with or without an old package set aside.
Publish(p) ==
    LET r == root[p]
        setAside == pc[p] = "replace"
        Failed == IF setAside THEN Proceed(p, "restore") ELSE Leave(p, "error")
    IN  /\ pc[p] \in {"publish", "replace"}
        /\ \/ /\ package[r] = Nothing
              /\ package' = [package EXCEPT ![r] = staging[r][p]]
              /\ staging' = [staging EXCEPT ![r][p] = Nothing]
              /\ IF setAside THEN Proceed(p, "drop") ELSE Leave(p, "ok")
              /\ NoFault
           \/ package[r] # Nothing /\ Failed /\ NoFault /\ UNCHANGED <<package, staging>>
           \/ Failed /\ Fault /\ UNCHANGED <<package, staging>>
        /\ UNCHANGED <<backend, backup, cache, local, calls, crashes>>

\* let _ = rename(backup, final).
Restore(p) ==
    LET r == root[p]
    IN  /\ pc[p] = "restore"
        /\ \/ /\ package[r] = Nothing
              /\ package' = [package EXCEPT ![r] = backup[r][p]]
              /\ backup' = [backup EXCEPT ![r][p] = Nothing]
              /\ putBack' = IF Intact(backup[r][p]) THEN putBack ELSE Process
              /\ NoFault
           \/ package[r] # Nothing /\ NoFault /\ UNCHANGED <<package, backup, putBack>>
           \/ Fault /\ UNCHANGED <<package, backup, putBack>>
        /\ Leave(p, "error")
        /\ UNCHANGED <<backend, staging, cache, op, root, already, built, unhindered,
                       calls, crashes>>

\* let _ = remove_dir_all(backup).
DropBackup(p) ==
    /\ pc[p] = "drop"
    /\ \/ backup' = [backup EXCEPT ![root[p]][p] = Nothing] /\ NoFault
       \/ Fault /\ UNCHANGED backup
    /\ Leave(p, "ok")
    /\ UNCHANGED <<backend, package, staging, cache, local, calls, crashes>>

CleanUp(p) ==
    /\ pc[p] = "cleanup"
    /\ staging' = [staging EXCEPT ![root[p]][p] = Nothing]
    /\ IF result[p] = "ok" THEN Proceed(p, "prepare") ELSE Return(p, "error")
    /\ NoFault
    /\ UNCHANGED <<backend, package, backup, cache, local, calls, crashes>>

-------------------------------------------------------------------------------
\* The artifact is opened, and with the unprepared path of Core ML compiled:
\* an existing cache that loads is taken, one that does not is compiled anew.
Opens(bundle) ==
    \/ /\ backend = "onnx" \/ CacheLoads
       /\ UNCHANGED cache
    \/ /\ backend = "coreml" /\ ~CacheLoads /\ ~HasManifest(bundle)
       /\ \E b \in Build : cache' = [build |-> b, loads |-> TRUE]

\* Fault: a package that was there is not prepared again.
PrepareOnce(p) ==
    /\ pc[p] = "prepare"
    /\ built' = [built EXCEPT ![p] = IF cache # Nothing THEN cache.build ELSE CHOOSE b \in Build : TRUE]
    /\ Proceed(p, IF backend = "coreml" /\ ~already[p] THEN "retract" ELSE "manifest")
    /\ NoFault
    /\ UNCHANGED <<backend, disk, op, root, already, history, calls, crashes>>

\* validate_laya of ONNX; validate_prepared_laya of Core ML for a package that
\* was there, prepare_laya for one that was not or whose artifact is not valid.
Prepare(p) ==
    LET bundle == package[root[p]]
    IN  /\ pc[p] = "prepare"
        /\ \E opens \in MayOpen(bundle) :
              LET valid == already[p] /\ opens /\ Prepared(bundle)
              IN  \/ /\ backend = "onnx" /\ opens
                     /\ built' = [built EXCEPT ![p] = CHOOSE b \in Build : TRUE]
                     /\ Proceed(p, "manifest")
                  \/ backend = "onnx" /\ ~opens /\ Return(p, "error") /\ UNCHANGED built
                  \/ /\ backend = "coreml" /\ valid
                     /\ built' = [built EXCEPT ![p] = cache.build]
                     /\ Proceed(p, "manifest")
                  \/ backend = "coreml" /\ ~valid /\ Proceed(p, "retract") /\ UNCHANGED built
        /\ NoFault
        /\ UNCHANGED <<backend, disk, op, root, already, history, calls, crashes>>

\* coreml prepare: the installation.json of an earlier preparation goes first.
Retract(p) ==
    LET r == root[p]
    IN  /\ pc[p] = "retract"
        /\ package' = IF package[r] = Nothing THEN package
                      ELSE [package EXCEPT ![r] = Bundle(@.files, NoBuild)]
        /\ Proceed(p, "compile")
        /\ NoFault
        /\ UNCHANGED <<backend, backup, staging, cache, local, calls, crashes>>

\* LayaModel::load, compiled_cache_path, tree_digest.
Compile(p) ==
    LET bundle == package[root[p]]
    IN  /\ pc[p] = "compile"
        /\ \/ /\ TRUE \in MayOpen(bundle)
              /\ Opens(bundle)
              /\ built' = [built EXCEPT ![p] = cache'.build]
              /\ Proceed(p, "manifest")
              /\ NoFault
           \/ /\ FALSE \in MayOpen(bundle) \/ (HasManifest(bundle) /\ ~CacheLoads)
              /\ Return(p, "error")
              /\ NoFault
              /\ UNCHANGED <<built, cache>>
           \/ Return(p, "error") /\ Fault /\ UNCHANGED <<built, cache>>
        /\ UNCHANGED <<backend, package, backup, staging, op, root, already, history,
                       calls, crashes>>

\* Fault: the installation.json of a package that was there is kept.
WriteManifestOnce(p) ==
    LET r == root[p]
        record == IF HasManifest(package[r]) THEN package[r].manifest
                  ELSE [build |-> built[p], current |-> TRUE]
    IN  /\ pc[p] = "manifest"
        /\ \/ /\ package[r] # Nothing
              /\ package' = [package EXCEPT ![r] = Bundle(@.files, record)]
              /\ Return(p, "ok")
              /\ NoFault
           \/ package[r] = Nothing /\ Return(p, "error") /\ NoFault /\ UNCHANGED package
           \/ Return(p, "error") /\ Fault /\ UNCHANGED package
        /\ UNCHANGED <<backend, backup, staging, cache, local, calls, crashes>>

\* InstallationManifest::write_atomic into the path of the package.
WriteManifest(p) ==
    LET r == root[p]
    IN  /\ pc[p] = "manifest"
        /\ \/ /\ package[r] # Nothing
              /\ package' = [package EXCEPT ![r] =
                                Bundle(@.files, [build |-> built[p], current |-> TRUE])]
              /\ Return(p, "ok")
              /\ NoFault
           \/ package[r] = Nothing /\ Return(p, "error") /\ NoFault /\ UNCHANGED package
           \/ Return(p, "error") /\ Fault /\ UNCHANGED package
        /\ UNCHANGED <<backend, backup, staging, cache, local, calls, crashes>>

-------------------------------------------------------------------------------
\* remove_registered_model: remove_prepared_laya, which has to read the config
\* in the package.
RemovePrepared(p) ==
    LET bundle == package[root[p]]
    IN  /\ pc[p] = "unprepare"
        /\ \/ bundle = Nothing /\ Return(p, "ok") /\ UNCHANGED cache
           \/ /\ bundle # Nothing
              /\ Proceed(p, "unlink")
              /\ cache' = IF backend = "coreml" THEN Nothing ELSE cache
           \/ /\ bundle # Nothing /\ backend = "coreml" /\ ~Intact(bundle)
              /\ Return(p, "error")
              /\ UNCHANGED cache
        /\ NoFault
        /\ UNCHANGED <<backend, package, backup, staging, local, calls, crashes>>

\* remove_dir_all: the entries one by one, then the directory.
Unlink(p) ==
    LET r == root[p]
    IN  /\ pc[p] = "unlink"
        /\ \/ package[r] = Nothing /\ Return(p, "error") /\ UNCHANGED package
           \/ /\ package[r] # Nothing
              /\ \E m \in {NoBuild, package[r].manifest} :
                    package' = [package EXCEPT ![r] = Bundle("missing", m)]
              /\ Proceed(p, "rmdir")
        /\ NoFault
        /\ UNCHANGED <<backend, backup, staging, cache, local, calls, crashes>>

\* The directory goes if no one has put anything into it since.
RemoveDirectory(p) ==
    LET r == root[p]
        emptied == package[r] # Nothing /\ package[r].files = "missing"
    IN  /\ pc[p] = "rmdir"
        /\ \/ /\ emptied
              /\ package' = [package EXCEPT ![r] = Nothing]
              /\ Return(p, "ok")
              /\ NoFault
           \/ /\ ~emptied \/ HasManifest(package[r])
              /\ Return(p, "error")
              /\ NoFault
              /\ UNCHANGED package
           \/ Return(p, "error") /\ Fault /\ UNCHANGED package
        /\ UNCHANGED <<backend, backup, staging, cache, local, calls, crashes>>

-------------------------------------------------------------------------------
\* load_model: exists and validates; installation.json and its artifact; then
\* the adapter opens the files at the path again.
LoadValidate(p) ==
    /\ pc[p] = "validate"
    /\ IF Validate(package[root[p]]) THEN Proceed(p, "compatible") ELSE Return(p, "error")
    /\ NoFault
    /\ UNCHANGED <<backend, disk, local, calls, crashes>>

\* Fault: load_model asks of installation.json all that the list asks.
LoadCompatibleAsListed(p) ==
    /\ pc[p] = "compatible"
    /\ IF Current(package[root[p]]) /\ ArtifactExists(root[p])
       THEN Proceed(p, "open") ELSE Return(p, "error")
    /\ NoFault
    /\ UNCHANGED <<backend, disk, local, calls, crashes>>

LoadCompatible(p) ==
    LET r == root[p]
    IN  /\ pc[p] = "compatible"
        /\ IF HasManifest(package[r]) /\ ArtifactExists(r)
           THEN Proceed(p, "open") ELSE Return(p, "error")
        /\ NoFault
        /\ UNCHANGED <<backend, disk, local, calls, crashes>>

LoadOpen(p) ==
    LET bundle == package[root[p]]
    IN  /\ pc[p] = "open"
        /\ \/ /\ TRUE \in MayOpen(bundle)
              /\ Opens(bundle)
              /\ Return(p, "ok")
           \/ /\ FALSE \in MayOpen(bundle) \/ (backend = "coreml" /\ ~CacheLoads /\ HasManifest(bundle))
              /\ Return(p, "error")
              /\ UNCHANGED cache
        /\ NoFault
        /\ UNCHANGED <<backend, package, backup, staging, local, calls, crashes>>

-------------------------------------------------------------------------------
\* The process ends between two steps.
Crash(p) ==
    /\ pc[p] # "idle"
    /\ crashes < MaxCrashes
    /\ crashes' = crashes + 1
    /\ Return(p, "crashed")
    /\ UNCHANGED <<backend, disk, local, calm, calls, faults>>

\* While no operation runs, files of a package are lost or altered, or the
\* cache is purged or damaged.
Damage ==
    /\ \A p \in Process : pc[p] = "idle"
    /\ Fault
    /\ \/ /\ \E r \in Root, files \in {"altered", "missing"} :
                /\ package[r] # Nothing
                /\ package' = [package EXCEPT ![r] = Bundle(files, @.manifest)]
          /\ UNCHANGED cache
       \/ /\ cache # Nothing
          /\ cache' \in {Nothing, [build |-> cache.build, loads |-> FALSE]}
          /\ UNCHANGED package
    /\ UNCHANGED <<backend, backup, staging, pc, local, result, calls, crashes>>

Outdated(bundle) ==
    IF HasManifest(bundle)
    THEN Bundle(bundle.files, [bundle.manifest EXCEPT !.current = FALSE]) ELSE bundle

\* While no operation runs, a release takes the place of the one that installed.
\* Its registration asks for another runtime version; the requirement on record
\* asks for no less than an older runtime, and is satisfied as before.
Upgrade ==
    /\ \A p \in Process : pc[p] = "idle"
    /\ Fault
    /\ package' = [r \in Root |-> Outdated(package[r])]
    /\ backup' = [r \in Root |-> [p \in Process |-> Outdated(backup[r][p])]]
    /\ UNCHANGED <<backend, staging, cache, pc, local, result, calls, crashes>>

Init ==
    /\ backend \in Backend
    /\ package = [r \in Root |-> Nothing]
    /\ backup = [r \in Root |-> [p \in Process |-> Nothing]]
    /\ staging = [r \in Root |-> [p \in Process |-> Nothing]]
    /\ cache = Nothing
    /\ pc = [p \in Process |-> "idle"]
    /\ op = [p \in Process |-> "load"]
    /\ root \in [Process -> {CHOOSE r \in Root : TRUE}]
    /\ already = [p \in Process |-> FALSE]
    /\ built = [p \in Process |-> NoBuild]
    /\ result = [p \in Process |-> "none"]
    /\ calm = [p \in Process |-> FALSE]
    /\ unhindered = [p \in Process |-> TRUE]
    /\ putBack = {}
    /\ calls = 0 /\ faults = 0 /\ crashes = 0

Install(p) ==
    \/ CheckFinal(p) \/ Stage(p) \/ VerifyStaging(p) \/ CheckSwap(p) \/ SetAside(p)
    \/ Publish(p) \/ Restore(p) \/ DropBackup(p) \/ CleanUp(p)
    \/ Prepare(p) \/ Retract(p) \/ Compile(p) \/ WriteManifest(p)

Remove(p) == RemovePrepared(p) \/ Unlink(p) \/ RemoveDirectory(p)

Load(p) == LoadValidate(p) \/ LoadCompatible(p) \/ LoadOpen(p)

Next ==
    \/ \E p \in Process : Begin(p) \/ Install(p) \/ Remove(p) \/ Load(p) \/ Crash(p)
    \/ Damage \/ Upgrade

Spec == Init /\ [][Next]_vars

-------------------------------------------------------------------------------
Returns(p, outcome) ==
    /\ pc[p] # "idle" /\ pc'[p] = "idle"
    /\ result'[p] = outcome

\* Whatever other processes install, replace or remove in between, and
\* wherever they crash, the files the adapter opens for load_model are files
\* that were verified: load_model validates, then opens the path a second time.
\* The one exception is a replacement that fails in between and puts back the
\* damaged package that it was to repair.
LoadsVerified ==
    [][\A p \in Process :
          op[p] = "load" /\ Returns(p, "ok") => Intact(package[root[p]]) \/ p \in putBack]_vars

\* The same without the exception: lib.rs 1284 checks what lib.rs 1321 opens.
LoadsWhatItValidated ==
    [][\A p \in Process : op[p] = "load" /\ Returns(p, "ok") => Intact(package[root[p]])]_vars

\* What load_model would load the list shows as Ready.  Not so after an upgrade:
\* lib.rs 911 asks for the registration's requirement, lib.rs 1301 does not.
ListedAsLoadable == \A r \in Root : Loadable(r) => ListStatus(r) = "Ready"

Succeeds(p) ==
    /\ Returns(p, "ok")
    /\ (DoctorStatus(root[p]) = "Ready" /\ ListStatus(root[p]) = "Ready")'

\* Whatever earlier releases, crashes, failures and damage left, an install that
\* nothing disturbs ends with a model that the doctor and the list both call
\* Ready; only without replace, and only over a package that is not valid, it
\* gives up.
InstallRecovers ==
    [][\A p \in Process :
          /\ op[p] \in {"keep", "replace"} /\ calm[p] /\ unhindered[p]
          /\ pc[p] # "idle" /\ pc'[p] = "idle" /\ result'[p] # "crashed" /\ calm'[p]
          => \/ Succeeds(p)
             \/ op[p] = "keep" /\ package[root[p]] # Nothing /\ ~Validate(package[root[p]])]_vars

\* A load that nothing else overlaps repairs nothing: it never compiles.
LoadNeverRepairs ==
    [][\A p \in Process : pc[p] = "open" /\ calm[p] /\ pc'[p] # "open" => UNCHANGED disk]_vars

\* A load that nothing else overlaps fails only over a model that the doctor
\* would not call Ready: each of its looks at the disk asks for no more.
ReadyIsLoaded ==
    [][\A p \in Process :
          op[p] = "load" /\ calm[p] /\ Returns(p, "error") => DoctorStatus(root[p]) # "Ready"]_vars

\* What load_model hands out is what an installation verified and prepared, and
\* it hands out what the doctor calls Ready.
LoadsAsInstalled == LoadsVerified /\ LoadNeverRepairs /\ ReadyIsLoaded

\* docs/install.md:57: installing with --replace repairs a diagnosed
\* installation.  The same without the proviso that no .replace-pid lies there.
ReplaceRepairs ==
    [][\A p \in Process :
          /\ op[p] = "replace" /\ calm[p] /\ calm'[p]
          /\ pc[p] # "idle" /\ pc'[p] = "idle" /\ result'[p] # "crashed"
          => Succeeds(p)]_vars
===============================================================================
