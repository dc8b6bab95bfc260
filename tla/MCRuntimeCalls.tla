---------------------------- MODULE MCRuntimeCalls ----------------------------
(***************************************************************************)
(* Instances of RuntimeCalls for TLC: two tasks with requests of their     *)
(* own; batches of two inferences; and capabilities, with providers and    *)
(* packages under ids of their own, under a shared one and under that of   *)
(* the built-in provider.  A model has a name and a version.               *)
(***************************************************************************)
EXTENDS RuntimeCalls

CONSTANTS a, b

MCTasks == {a, b}

M1 == [id |-> "m", version |-> 1]
M2 == [id |-> "m", version |-> 2]
N1 == [id |-> "n", version |-> 1]
MCModels == {M1, M2, N1}

\* No registered backend can run the second version.
MCExecutable == {M1, N1}

Ask(model, reference, execution, require, stream) ==
    [model |-> model, reference |-> reference, execution |-> execution, require |-> require,
     stream |-> stream]

\* Every way to route with the policies as they are: local first, remote first,
\* local only, of a model that has to be loaded and of one that has to be
\* there; and what allow_remote_fallback must not change.  The other task
\* competes for the permits and the place in the cache.
MCRequests ==
    [t \in MCTasks |->
        {Ask(M1, "spec", "PreferLocal", "none", TRUE), Ask(N1, "spec", "LocalOnly", "none", TRUE)}
        \cup IF t = b THEN {} ELSE
            {Ask(M1, "id", "LocalThenRemote", "none", TRUE),
             Ask(M1, "spec", "RemoteThenLocal", "none", FALSE),
             Ask(M2, "id", "PreferRemote", "local", TRUE)}]

MCBatched ==
    {Ask(m, r, e, "none", FALSE) : m \in MCModels, r \in {"id", "spec"},
                            e \in {"LocalOnly", "PreferLocal", "RemoteThenLocal"}}

\* Every pair of requests, two versions of a model included.
MCBatches == {<<x, y>> : x \in MCBatched, y \in MCBatched}

MCIds == <<"acme", "builtin", "zoo">>

Offer(capabilities, local, restricted) ==
    [c \in capabilities |-> [local |-> local, restricted |-> restricted]]

Provider(id, kind, usable, offers) == [id |-> id, kind |-> kind, usable |-> usable, offers |-> offers]

MCProviders ==
    {Provider("acme", "custom", TRUE, Offer({"filesystem.write", "tool"}, TRUE, TRUE)),
     Provider("acme", "custom", FALSE, Offer({"process.spawn", "tool"}, TRUE, FALSE)),
     Provider("zoo", "custom", TRUE, Offer({"tool"}, FALSE, FALSE))}

Package(id, complete, runtime) ==
    [id |-> id, capabilities |-> {"filesystem.write", "network.http", "tool"},
     complete |-> complete, runtime |-> runtime]

\* Packages under an id of their own and under that of the built-in provider.
MCPackages ==
    {{Package("zoo", TRUE, "older")}, {Package("builtin", TRUE, "any")},
     {Package("zoo", TRUE, "any"), Package("acme", FALSE, "any")}, {Package("acme", TRUE, "newer")}}

\* The names of CapabilityExecution!Catalog and Files that the requests use.
MCFiles == {"filesystem.read", "filesystem.list", "filesystem.write"}
MCCatalog == MCFiles \cup {"process.spawn", "git.status", "network.http", "data.parse",
                           "intelligence.generate"}

Base == [capability |-> "tool", require |-> FALSE, token |-> FALSE, timeout |-> FALSE,
         network |-> TRUE, scoped |-> TRUE, path |-> "inside", over |-> FALSE, authorizer |-> TRUE]

MCCapabilityRequests ==
    {[Base EXCEPT !.capability = c, !.require = q, !.authorizer = z] :
        c \in MCCatalog \cup {"tool"}, q \in BOOLEAN, z \in BOOLEAN}
    \cup {[Base EXCEPT !.capability = c, !.path = p, !.scoped = s, !.over = o] :
        c \in MCFiles, p \in {"inside", "outside", "missing"}, s \in BOOLEAN, o \in BOOLEAN}
    \cup {[Base EXCEPT !.capability = c, !.token = t, !.timeout = l, !.over = o, !.network = n] :
        c \in {"process.spawn", "git.status", "network.http"}, t \in BOOLEAN, l \in BOOLEAN,
        o \in BOOLEAN, n \in BOOLEAN}
===============================================================================
