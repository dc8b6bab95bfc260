---------------------------- MODULE ModelPackages ----------------------------
(***************************************************************************)
(* The two ways a package comes under a model root, both in                *)
(* crates/model/src/lib.rs: RegisteredModels, with the life of what it     *)
(* installed, and ModelInstaller.  They use directories of their own and   *)
(* share no state, and a behaviour is one of either of them, while the     *)
(* variables of the other stay what they are.                              *)
(***************************************************************************)
EXTENDS RegisteredModels

CONSTANTS Installer, Pid, OneProcess, MaxInstalls \* those of ModelInstaller

ASSUME InstallerAssumption ==
    /\ IsFiniteSet(Installer) /\ IsFiniteSet(Pid)
    /\ Pid # {} /\ OneProcess \in BOOLEAN
    /\ MaxInstalls \in Nat

VARIABLES files, at, mode, pid, answer, published, installs, deaths

installerVars == <<files, at, mode, pid, answer, published, installs, deaths>>

\* "at" stands for its pc, "answer" for its result and "deaths" for its crashes.
Setup == INSTANCE ModelInstaller WITH pc <- at, result <- answer, crashes <- deaths

RegisteredAlone ==
    /\ files = [path \in Setup!Path |-> "absent"]
    /\ at = <<>> /\ mode = <<>> /\ pid = <<>> /\ answer = <<>>
    /\ published = FALSE /\ installs = 0 /\ deaths = 0

InstallerAlone ==
    /\ backend = "unused"
    /\ package = [r \in Root |-> Nothing]
    /\ backup = <<>> /\ staging = <<>> /\ cache = Nothing
    /\ pc = [p \in Process |-> "idle"] /\ op = [p \in Process |-> "none"]
    /\ root = <<>> /\ already = <<>> /\ built = <<>>
    /\ result = <<>> /\ calm = [p \in Process |-> FALSE] /\ unhindered = <<>> /\ putBack = {}
    /\ calls = 0 /\ faults = 0 /\ crashes = 0

EitherInit == (Init /\ RegisteredAlone) \/ (Setup!Init /\ InstallerAlone)

EitherNext ==
    \/ backend # "unused" /\ Next /\ UNCHANGED installerVars
    \/ backend = "unused" /\ Setup!Next /\ UNCHANGED vars

EitherSpec == EitherInit /\ [][EitherNext]_<<vars, installerVars>>

\* At the path of a model there is nothing but what ModelInstaller::install
\* verified.
PublishedIsVerified == Setup!PublishedIsVerified

\* Of a model that ModelInstaller::install has put in place, some whole copy is
\* on the disk ever after.
NothingLost == Setup!NothingLost

\* What the docs say of failed and of repeated installations; the code does not
\* keep either.
FailedNeverListed == Setup!FailedNeverListed
ExistingReported == Setup!ExistingReported
===============================================================================
