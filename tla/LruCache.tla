------------------------------- MODULE LruCache -------------------------------
(***************************************************************************)
(* What Runtime promises of its loaded-model cache, free of timestamps,    *)
(* locks and permits: a set of resident models of bounded size, totally    *)
(* ordered by recency of use, whose only victim is the least recently used *)
(* one.  ModelCache implements it (see ModelCacheProofs and the MC runs).  *)
(***************************************************************************)
CONSTANTS Key,      \* the cache keys
          Full(_)   \* whether a cache holding this set of keys is at its bound

VARIABLES resident,  \* the keys of the loaded models
          older      \* <<j, k>>: resident j was used before resident k

lruVars == <<resident, older>>

Init ==
    /\ resident = {}
    /\ older = {}

\* The recency order once the keys in S stay and k becomes the newest.
Refreshed(S, k) ==
    {p \in older : p[1] \in S \ {k} /\ p[2] \in S \ {k}} \cup ((S \ {k}) \X {k})

LeastRecent(k) ==
    /\ k \in resident
    /\ \A j \in resident \ {k} : <<k, j>> \in older

\* A resident model is used.
Use(k) ==
    /\ k \in resident
    /\ older' = Refreshed(resident, k)
    /\ UNCHANGED resident

\* A model is published; a full cache gives up its least recently used one,
\* even when the published key was already resident.
Publish(k) ==
    \E S \in SUBSET resident :
        /\ \/ ~Full(resident) /\ S = resident
           \/ /\ Full(resident)
              /\ \E d \in resident : LeastRecent(d) /\ S = resident \ {d}
        /\ resident' = S \cup {k}
        /\ older' = Refreshed(S, k)

Next == \E k \in Key : Use(k) \/ Publish(k)

Spec == Init /\ [][Next]_lruVars

===============================================================================
