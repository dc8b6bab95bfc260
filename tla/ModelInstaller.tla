---------------------------- MODULE ModelInstaller ----------------------------
(***************************************************************************)
(* ModelInstaller::install and the FilesystemModelCatalog it consults      *)
(* (crates/model/src/lib.rs): several installers of one model id over one  *)
(* model root, whose processes may crash at any step.  An action is one    *)
(* operation on the file system, or one scan of it by the catalog.         *)
(***************************************************************************)
EXTENDS Naturals, FiniteSets

CONSTANTS Installer,   \* tasks that install the model
          Pid,         \* process ids
          OneProcess,  \* the installers are tasks of one process
          MaxInstalls, \* bound: calls of install
          MaxCrashes   \* bound: crashes of a process

VARIABLES files,      \* what is at each path under the model root
          pc,         \* where each installer is
          mode,       \* InstallMode of its call
          pid,        \* std::process::id() of its process
          result,     \* how its last call returned
          published,  \* some call renamed a package into place
          installs,   \* calls made so far
          crashes     \* crashes so far

callVars == <<mode, pid, installs, crashes>>
vars == <<files, pc, mode, pid, result, published, installs, crashes>>

\* root/name/version, .staging/name-version-pid and name/.replace-pid.
Final == [place |-> "final", pid |-> "none"]
Staging(p) == [place |-> "staging", pid |-> p]
Backup(p) == [place |-> "backup", pid |-> p]

Path == {Final} \cup {Staging(p) : p \in Pid} \cup {Backup(p) : p \in Pid}

\* A directory without manifest.json ("bare"), with one that does not open
\* ("broken"), with an artifact that fails its checks ("corrupt"), or "good".
Content == {"absent", "bare", "broken", "corrupt", "good"}

At(path, content) == files' = [files EXCEPT ![path] = content]

Move(from, to) == files' = [files EXCEPT ![from] = "absent", ![to] = files[from]]

Goto(t, step) == pc' = [pc EXCEPT ![t] = step]

Return(t, outcome) ==
    /\ Goto(t, "idle")
    /\ result' = [result EXCEPT ![t] = outcome]

\* Every error after the staging directory was made goes through its removal.
Leave(t, outcome) ==
    /\ Goto(t, "cleanup")
    /\ result' = [result EXCEPT ![t] = outcome]

-------------------------------------------------------------------------------
\* discover_dirs descends into every directory, those that start with a dot
\* included, and takes a manifest for a package wherever it finds it.
Listed == {path \in Path : files[path] \in {"corrupt", "good"}}

\* discover: one package that does not open, or two of the same id, and there
\* is no catalog at all.
Discovers == Cardinality(Listed) <= 1 /\ \A path \in Path : files[path] # "broken"

Resolves == Discovers /\ Listed # {}

-------------------------------------------------------------------------------
Install(t) ==
    /\ pc[t] = "idle"
    /\ installs < MaxInstalls
    /\ installs' = installs + 1
    /\ \E m \in {"keep", "replace"} : mode' = [mode EXCEPT ![t] = m]
    /\ Goto(t, "resolve")
    /\ UNCHANGED <<files, pid, result, published, crashes>>

\* catalog.resolve: an error is taken for "not installed".
ResolveExisting(t) ==
    /\ pc[t] = "resolve"
    /\ Goto(t, IF Resolves THEN "validate" ELSE "clear")
    /\ UNCHANGED <<files, result, published, callVars>>

\* catalog.validate scans again; a package that fails it fails the call in
\* either mode.
ValidateExisting(t) ==
    /\ pc[t] = "validate"
    /\ \/ /\ Resolves /\ \A path \in Listed : files[path] = "good"
          /\ IF mode[t] = "keep" THEN Return(t, "already_installed")
             ELSE Goto(t, "clear") /\ UNCHANGED result
       \/ /\ ~(Resolves /\ \A path \in Listed : files[path] = "good")
          /\ Return(t, "failed")
    /\ UNCHANGED <<files, published, callVars>>

\* What a stale staging directory of this pid leaves, or a cancelled token,
\* ends the call before it stages anything.
ClearStaging(t) ==
    /\ pc[t] = "clear"
    /\ \/ Goto(t, "create") /\ At(Staging(pid[t]), "absent") /\ UNCHANGED result
       \/ Return(t, "failed") /\ UNCHANGED files
    /\ UNCHANGED <<published, callVars>>

CreateStaging(t) ==
    /\ pc[t] = "create"
    /\ \/ /\ IF files[Staging(pid[t])] = "absent" THEN At(Staging(pid[t]), "bare")
             ELSE UNCHANGED files
          /\ Goto(t, "fetch")
          /\ UNCHANGED result
       \/ Return(t, "failed") /\ UNCHANGED files
    /\ UNCHANGED <<published, callVars>>

\* source.fetch writes the package file by file, in an order that may put the
\* manifest before the artifact, and may fail or be cancelled at any file.
Fetch(t) ==
    /\ pc[t] = "fetch"
    /\ \/ /\ files[Staging(pid[t])] # "absent"
          /\ \E content \in {"broken", "corrupt", "good"} : At(Staging(pid[t]), content)
          /\ Goto(t, "fetch") \/ Goto(t, "verify")
          /\ UNCHANGED result
       \/ Leave(t, "failed") /\ UNCHANGED files
    /\ UNCHANGED <<published, callVars>>

\* Fault: the digest and the size of the artifact are not checked.
VerifyOpensOnly(t) ==
    /\ pc[t] = "verify"
    /\ IF files[Staging(pid[t])] \in {"corrupt", "good"} THEN Goto(t, "exists") /\ UNCHANGED result
       ELSE Leave(t, "failed")
    /\ UNCHANGED <<files, published, callVars>>

\* ModelPackage::open, validate_artifact and the comparison of the identity.
Verify(t) ==
    /\ pc[t] = "verify"
    /\ IF files[Staging(pid[t])] = "good" THEN Goto(t, "exists") /\ UNCHANGED result
       ELSE Leave(t, "failed")
    /\ UNCHANGED <<files, published, callVars>>

\* final_path.exists() and the mode decide how the package is put in place.
CheckFinal(t) ==
    /\ pc[t] = "exists"
    /\ \/ files[Final] = "absent" /\ Goto(t, "publish") /\ UNCHANGED result
       \/ files[Final] # "absent" /\ mode[t] = "replace" /\ Goto(t, "backup") /\ UNCHANGED result
       \/ files[Final] # "absent" /\ mode[t] = "keep" /\ Leave(t, "failed")
    /\ UNCHANGED <<files, published, callVars>>

\* rename refuses a source that is gone and a directory that is in the way; it
\* may fail for a reason of its own as well.
CanMove(from, to) == files[from] # "absent" /\ files[to] = "absent"

\* Fault: the old package is removed and not set aside.
SetAsideByRemoval(t) ==
    /\ pc[t] = "backup"
    /\ At(Final, "absent")
    /\ Goto(t, "swap")
    /\ UNCHANGED <<result, published, callVars>>

\* rename(final_path, backup).
SetAside(t) ==
    /\ pc[t] = "backup"
    /\ \/ /\ CanMove(Final, Backup(pid[t]))
          /\ Move(Final, Backup(pid[t]))
          /\ Goto(t, "swap")
          /\ UNCHANGED result
       \/ Leave(t, "failed") /\ UNCHANGED files
    /\ UNCHANGED <<published, callVars>>

\* rename(staging, final_path), of a replacement or of a first installation.
Publish(t) ==
    /\ pc[t] \in {"swap", "publish"}
    /\ \/ /\ CanMove(Staging(pid[t]), Final)
          /\ Move(Staging(pid[t]), Final)
          /\ published' = TRUE
          /\ Goto(t, IF pc[t] = "swap" THEN "discard" ELSE "refresh")
          /\ UNCHANGED result
       \/ /\ IF pc[t] = "swap" THEN Goto(t, "restore") /\ UNCHANGED result ELSE Leave(t, "failed")
          /\ UNCHANGED <<files, published>>
    /\ UNCHANGED callVars

\* let _ = rename(backup, final_path): its failure is ignored.
Restore(t) ==
    /\ pc[t] = "restore"
    /\ \/ CanMove(Backup(pid[t]), Final) /\ Move(Backup(pid[t]), Final)
       \/ UNCHANGED files
    /\ Leave(t, "failed")
    /\ UNCHANGED <<published, callVars>>

\* let _ = remove_dir_all(backup): all of it, some of it or nothing.
DiscardBackup(t) ==
    /\ pc[t] = "discard"
    /\ \E rest \in {"absent", "bare", "broken", files[Backup(pid[t])]} : At(Backup(pid[t]), rest)
    /\ Goto(t, "refresh")
    /\ UNCHANGED <<result, published, callVars>>

\* catalog.refresh and catalog.resolve: the package is in place, and the call
\* still fails if the catalog cannot be read.
Refresh(t) ==
    /\ pc[t] = "refresh"
    /\ IF Discovers THEN Goto(t, "report") /\ UNCHANGED result ELSE Leave(t, "failed")
    /\ UNCHANGED <<files, published, callVars>>

Report(t) ==
    /\ pc[t] = "report"
    /\ Leave(t, IF Resolves THEN "installed" ELSE "failed")
    /\ UNCHANGED <<files, published, callVars>>

\* The staging directory goes whether the call succeeded or not; that
\* remove_dir_all succeeds here is an assumption, the code ignores its failure.
CleanUp(t) ==
    /\ pc[t] = "cleanup"
    /\ At(Staging(pid[t]), "absent")
    /\ Return(t, result[t])
    /\ UNCHANGED <<published, callVars>>

\* The process of an installer dies with all its tasks and is started again,
\* under a pid that no other process has.
Crash(t) ==
    /\ crashes < MaxCrashes
    /\ pc[t] # "idle"
    /\ crashes' = crashes + 1
    /\ LET dead == {u \in Installer : pid[u] = pid[t]} IN
       \E p \in Pid \ {pid[u] : u \in Installer \ dead} :
          /\ pid' = [u \in Installer |-> IF u \in dead THEN p ELSE pid[u]]
          /\ pc' = [u \in Installer |-> IF u \in dead THEN "idle" ELSE pc[u]]
          /\ result' = [u \in Installer |-> IF u \in dead THEN "none" ELSE result[u]]
    /\ UNCHANGED <<files, mode, published, installs>>

\* No further call is made and every call has returned.
Finished ==
    /\ installs = MaxInstalls
    /\ \A t \in Installer : pc[t] = "idle"
    /\ UNCHANGED vars

-------------------------------------------------------------------------------
Init ==
    /\ files = [path \in Path |-> "absent"]
    /\ pc = [t \in Installer |-> "idle"]
    /\ mode = [t \in Installer |-> "keep"]
    /\ \E ids \in [Installer -> Pid] :
          /\ \A t, u \in Installer : ids[t] = ids[u] <=> (OneProcess \/ t = u)
          /\ pid = ids
    /\ result = [t \in Installer |-> "none"]
    /\ published = FALSE
    /\ installs = 0
    /\ crashes = 0

Step(t) ==
    \/ ResolveExisting(t) \/ ValidateExisting(t)
    \/ ClearStaging(t) \/ CreateStaging(t) \/ Fetch(t) \/ Verify(t)
    \/ CheckFinal(t) \/ SetAside(t) \/ Publish(t) \/ Restore(t) \/ DiscardBackup(t)
    \/ Refresh(t) \/ Report(t) \/ CleanUp(t)

Next ==
    \/ \E t \in Installer : Install(t) \/ Step(t) \/ Crash(t)
    \/ Finished

Spec == Init /\ [][Next]_vars

-------------------------------------------------------------------------------
\* docs/models.md: the installer verifies the manifest, the integrity and the
\* identity of a package before it renames it into the catalog root.  At the
\* path of the model there is nothing else, whoever installs it at the same
\* time and whichever process dies.
PublishedIsVerified == files[Final] \in {"absent", "good"}

\* A model that was installed is never lost: some complete copy of it is on
\* the disk at every point of a replacement, and after a crash at that point.
NothingLost == published => \E path \in Path : files[path] = "good"

\* docs/models.md: failed operations are removed and never become catalog
\* entries.
FailedNeverListed ==
    [][\A t \in Installer : pc[t] = "verify" /\ pc'[t] = "cleanup"
                                => Staging(pid[t]) \notin Listed]_vars

\* docs/models.md: existing valid packages are reported as already installed
\* unless replacement is requested.  A call that does not ask for it and finds
\* the package of its model in place never goes on to fetch it.
ExistingReported ==
    [][\A t \in Installer :
          pc[t] = "resolve" /\ mode[t] = "keep" /\ files[Final] = "good" => pc'[t] # "clear"]_vars

===============================================================================
