-------------------------- MODULE CapabilityExecution --------------------------
(***************************************************************************)
(* CapabilityRegistry and Runtime::execute_capability                      *)
(* (crates/runtime/src/capability.rs and lib.rs): providers are registered *)
(* under an id, a later one replacing an earlier one; a request goes to    *)
(* the first usable provider by id, asks the application's authorizer if   *)
(* it has to, and is raced against its token or its time limit.  Files,    *)
(* child processes, servers and the providers of the application are       *)
(* external.                                                               *)
(***************************************************************************)
EXTENDS Naturals, Sequences

CONSTANTS Builtin,   \* the id of the built-in provider, "builtin"
          Ids,       \* all ids in the order of the registry's map
          Providers, \* what can be registered: [id, kind, usable, offers]
          Packages,  \* contents of directories: sets of [id, capabilities, complete, runtime]
          Requests   \* what applications ask for

\* A provider's kind is "manifest" or "custom"; offers gives the metadata of
\* each capability, [local, restricted]; restricted: its requirements are not
\* empty.  A request says which capability it wants and whether it requires
\* authorization, has a token, a time limit, network access, a filesystem root
\* (scoped), where its path leads ("inside", "outside", "missing": no file),
\* whether its data is larger than the limit set for it (over), and whether an
\* authorizer comes with it.

VARIABLES registry,  \* id -> provider
          step,      \* "idle", "authorize", "run", "file" or "waiting"
          request,
          provider,  \* the id resolve selected
          approved,  \* the authorizer has approved this request
          cancelled, \* its token is cancelled
          expired,   \* its time limit has passed
          work,      \* the child, the server or the provider: "none", "busy" or "finished"
          place,     \* where the path of the request leads now
          seen,      \* where it led when path looked at it, "none" before
          performed, \* the effect the request has had, "none" before
          outcome

pathVars == <<place, seen>>
callVars == <<step, request, provider, approved, cancelled, expired, work, pathVars, performed,
              outcome>>
vars == <<registry, callVars>>

Restricted == {"filesystem.write", "process.spawn", "network.http"}
Files == {"filesystem.read", "filesystem.list", "filesystem.write"}
Catalog == Restricted \cup Files \cup {"git.status", "data.parse", "intelligence.generate"}

BuiltinProvider ==
    [id |-> Builtin, kind |-> "builtin", usable |-> TRUE,
     offers |-> [c \in Catalog |-> [local |-> TRUE, restricted |-> c \in Restricted]]]

-------------------------------------------------------------------------------
Registered(p) == [id \in DOMAIN registry \cup {p.id} |-> IF id = p.id THEN p ELSE registry[id]]

\* CapabilityRegistry::register, before the runtime is built or between calls.
Register(p) ==
    /\ step = "idle"
    /\ registry' = Registered(p)
    /\ UNCHANGED callVars

\* The runtime a package requires is this one, and nothing it has to say is
\* missing.
Validates(package) == package.complete /\ package.runtime # "newer"

\* ManifestCapabilityProvider: what a package offers is local, available and
\* requires nothing.
ManifestProvider(package) ==
    [id |-> package.id, kind |-> "manifest", usable |-> TRUE,
     offers |-> [c \in package.capabilities |-> [local |-> TRUE, restricted |-> FALSE]]]

\* Every manifest of a directory is read before any of its packages is
\* registered, in the order of their ids: one that does not validate leaves
\* the registry as it is.
LoadPackages(packages) ==
    /\ step = "idle"
    /\ \A package \in packages : Validates(package)
    /\ registry' = [id \in DOMAIN registry \cup {package.id : package \in packages} |->
                       IF \E package \in packages : package.id = id
                       THEN ManifestProvider(CHOOSE package \in packages : package.id = id)
                       ELSE registry[id]]
    /\ UNCHANGED callVars

Implementations(c) ==
    SelectSeq(Ids, LAMBDA id : id \in DOMAIN registry /\ c \in DOMAIN registry[id].offers)

\* resolve under ResolutionConstraints::default(), the only ones execution
\* asks for: what is remote or not available is rejected.
Candidates(c) ==
    SelectSeq(Implementations(c),
              LAMBDA id : registry[id].usable /\ registry[id].offers[c].local)

\* CapabilityRegistry::get: the metadata of the first provider, usable or not.
Described(c) == registry[Implementations(c)[1]].offers[c]

\* Fault: the requirements are read from the registry.
NeedsApprovalAsDescribed(r) == r.require \/ Described(r.capability).restricted

\* capability::execute reads its own catalog.
NeedsApproval(r) == r.require \/ r.capability \in Restricted

-------------------------------------------------------------------------------
Goto(s) == step' = s /\ UNCHANGED outcome
End(o) == step' = "idle" /\ outcome' = o

Execute(r) ==
    /\ step = "idle"
    /\ LET candidates == Candidates(r.capability)
           chosen == candidates[1]
       IN  \/ candidates = <<>> /\ End("mismatch") /\ UNCHANGED provider
           \/ /\ candidates # <<>> /\ chosen = Builtin
              /\ provider' = chosen
              /\ IF r.capability \notin Catalog THEN End("mismatch")
                 ELSE IF ~NeedsApproval(r) THEN Goto("run")
                 ELSE IF r.authorizer THEN Goto("authorize")
                 ELSE End("unauthorized")
           \/ /\ candidates # <<>> /\ chosen # Builtin
              /\ provider' = chosen
              /\ IF r.authorizer /\ r.require THEN Goto("authorize")
                 ELSE IF ~r.authorizer /\ Described(r.capability).restricted
                 THEN End("unauthorized")
                 ELSE Goto("run")
    /\ request' = r
    /\ approved' = FALSE /\ cancelled' = FALSE /\ expired' = FALSE
    /\ work' = "none" /\ performed' = "none"
    /\ place' = r.path /\ seen' = "none"
    /\ UNCHANGED registry

\* The authorizer is awaited without token or time limit.
Authorize ==
    /\ step = "authorize"
    /\ \/ approved' = TRUE /\ Goto("run")
       \/ End("unauthorized") /\ UNCHANGED approved
    /\ UNCHANGED <<registry, request, provider, cancelled, expired, work, pathVars, performed>>

\* What runs to its end when it is first polled, whatever the time limit; the
\* token may be noticed before.
AtOnce(capabilities) ==
    /\ step = "run"
    /\ provider = Builtin
    /\ request.capability \in capabilities
    /\ UNCHANGED <<registry, request, provider, approved, cancelled, expired, work>>

\* path resolves the path and, if there is a scope, wants an existing file
\* inside it; it returns the path as it was given.
CheckPath ==
    /\ AtOnce(Files)
    /\ seen' = place
    /\ \/ End("failed")
       \/ (request.scoped => place = "inside") /\ Goto("file")
    /\ UNCHANGED <<place, performed>>

\* The operation resolves the path again.  filesystem_write looks at the limit
\* before it, filesystem_read when it has the data.
UseFile ==
    /\ step = "file"
    /\ \/ End("failed") /\ UNCHANGED performed
       \/ /\ IF request.capability = "filesystem.write" THEN ~request.over ELSE place # "missing"
          /\ performed' = request.capability
          /\ End(IF request.over /\ request.capability = "filesystem.read" THEN "failed" ELSE "ok")
    /\ UNCHANGED <<registry, request, provider, approved, cancelled, expired, work, pathVars>>

ParseData ==
    /\ AtOnce({"data.parse"})
    /\ UNCHANGED pathVars
    /\ performed' = "data.parse"
    /\ End("ok") \/ End("failed")

\* The catalog lists what only a provider of models can do.
NeedsModel ==
    /\ AtOnce({"intelligence.generate"})
    /\ End("mismatch")
    /\ UNCHANGED <<pathVars, performed>>

\* What is started and awaited, or fails to start.
Starts(capability) ==
    /\ step = "run"
    /\ provider = Builtin
    /\ request.capability = capability
    /\ \/ End("failed") /\ UNCHANGED <<work, performed>>
       \/ work' = "busy" /\ performed' = capability /\ Goto("waiting")
    /\ UNCHANGED <<registry, request, provider, approved, cancelled, expired, pathVars>>

SpawnProcess == Starts("process.spawn")
RunGit == Starts("git.status")

SendRequest == Starts("network.http") /\ request.network

NetworkRefused ==
    /\ AtOnce({"network.http"})
    /\ ~request.network
    /\ End("mismatch")
    /\ UNCHANGED <<pathVars, performed>>

\* A provider of a manifest has no code to run; one of the application may do
\* anything and take its time.
BeginProvider ==
    /\ step = "run"
    /\ provider # Builtin
    /\ \/ /\ registry[provider].kind = "manifest"
          /\ End("unavailable")
          /\ UNCHANGED <<work, performed>>
       \/ /\ registry[provider].kind = "custom"
          /\ work' = "busy"
          /\ performed' = request.capability
          /\ Goto("waiting")
    /\ UNCHANGED <<registry, request, provider, approved, cancelled, expired, pathVars>>

\* max_output_bytes is compared for a spawned process, not for git or HTTP.
Complete ==
    /\ step = "waiting"
    /\ work = "finished"
    /\ \/ End("failed")
       \/ (provider = Builtin /\ request.capability = "process.spawn" => ~request.over) /\ End("ok")
    /\ UNCHANGED <<registry, request, provider, approved, cancelled, expired, work, pathVars,
                   performed>>

\* Fault: the token is looked at before the operation and not while it runs.
NoticeCancelAtFirst ==
    /\ step = "run"
    /\ provider = Builtin
    /\ request.token /\ cancelled
    /\ End("cancelled")
    /\ UNCHANGED <<registry, request, provider, approved, cancelled, expired, work, pathVars,
                   performed>>

\* The unbiased select of run.  The child, if any, is not killed.
NoticeCancel ==
    /\ step \in {"run", "waiting"}
    /\ provider = Builtin
    /\ request.token /\ cancelled
    /\ End("cancelled")
    /\ UNCHANGED <<registry, request, provider, approved, cancelled, expired, work, pathVars,
                   performed>>

\* run takes the token or the time limit, and process_spawn has its own, 30 s
\* unless the request sets another.
TimeLimited(r) == r.capability = "process.spawn" \/ (r.timeout /\ ~r.token)

\* The timeout polls the operation first.
TimeOut ==
    /\ step = "waiting"
    /\ provider = Builtin
    /\ TimeLimited(request)
    /\ expired
    /\ work = "busy"
    /\ End("timeout")
    /\ UNCHANGED <<registry, request, provider, approved, cancelled, expired, work, pathVars,
                   performed>>

-------------------------------------------------------------------------------
Cancel ==
    /\ step # "idle"
    /\ request.token
    /\ cancelled' = TRUE
    /\ UNCHANGED <<registry, step, request, provider, approved, expired, work, pathVars, performed,
                   outcome>>

Expire ==
    /\ step \in {"run", "waiting"}
    /\ expired' = TRUE
    /\ UNCHANGED <<registry, step, request, provider, approved, cancelled, work, pathVars,
                   performed, outcome>>

\* Whoever else uses the file system moves files and links.
MovePath ==
    /\ step \in {"authorize", "run", "file"}
    /\ provider = Builtin /\ request.capability \in Files
    /\ place' \in {"inside", "outside", "missing"} \ {place}
    /\ UNCHANGED <<registry, step, request, provider, approved, cancelled, expired, work, seen,
                   performed, outcome>>

Finish ==
    /\ work = "busy"
    /\ work' = "finished"
    /\ UNCHANGED <<registry, step, request, provider, approved, cancelled, expired, pathVars,
                   performed, outcome>>

-------------------------------------------------------------------------------
\* with_builtins
Init ==
    /\ registry = [id \in {Builtin} |-> BuiltinProvider]
    /\ step = "idle"
    /\ request = CHOOSE r \in Requests : TRUE
    /\ provider = Builtin
    /\ approved = FALSE /\ cancelled = FALSE /\ expired = FALSE
    /\ work = "none"
    /\ place = request.path /\ seen = "none"
    /\ performed = "none"
    /\ outcome = "none"

Progress ==
    \/ CheckPath \/ UseFile \/ ParseData \/ NeedsModel
    \/ SpawnProcess \/ RunGit \/ SendRequest \/ NetworkRefused
    \/ BeginProvider \/ Complete \/ NoticeCancel \/ TimeOut

Next ==
    \/ \E p \in Providers : Register(p)
    \/ \E packages \in Packages : LoadPackages(packages)
    \/ \E r \in Requests : Execute(r)
    \/ Authorize
    \/ Progress
    \/ Cancel \/ Expire \/ MovePath \/ Finish

Spec == Init /\ [][Next]_vars

\* The runtime polls what is ready, and time passes.  No fairness of the
\* authorizer, the child, the server or the application's provider.
Fairness == WF_vars(Progress) /\ WF_vars(Expire)

FairSpec == Spec /\ Fairness

-------------------------------------------------------------------------------
\* docs/providers.md: the runtime does not grant authority itself.  Whatever
\* providers and packages are registered, under whatever ids, a built-in
\* operation that writes, spawns or talks to the network has been approved, a
\* file is touched only after its path was found inside the scope, and within
\* the limit, and the network only if the policy enables it; and any provider
\* that runs a request which requires authorization has been approved by the
\* authorizer given.  Where the path leads when it is used: see StaysInScope.
EffectsAllowed ==
    performed # "none" =>
        /\ provider = Builtin =>
              /\ performed \in Restricted => approved
              /\ performed \in Files /\ request.scoped => seen = "inside"
              /\ performed = "filesystem.write" => ~request.over
              /\ performed = "network.http" => request.network
        /\ request.require /\ (provider = Builtin \/ request.authorizer) => approved

\* crates/runtime/src/capability.rs: a path outside the configured scope is an
\* error, so what is touched lies inside.  It need not: the path that was found
\* inside is resolved again, and may lead elsewhere by then.
StaysInScope ==
    provider = Builtin /\ performed \in Files /\ request.scoped => place = "inside"

\* A built-in operation ends once its token is cancelled, and by its time limit
\* where one is in force, however long its child or its server takes.
BoundedEnds ==
    (/\ step \in {"run", "file", "waiting"} /\ provider = Builtin
     /\ \/ request.token /\ cancelled
        \/ request.capability = "process.spawn"
        \/ request.timeout /\ ~request.token) ~> step = "idle"

================================================================================
