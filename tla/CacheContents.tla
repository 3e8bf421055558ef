--------------------------- MODULE CacheContents ---------------------------
(***************************************************************************)
(* What a session cache promises (service_core/cache.h): for every key at  *)
(* most one entry, the last one put; it may forget an entry when another   *)
(* one is put, and a lookup answers with the entry of its key or with a    *)
(* miss.                                                                   *)
(***************************************************************************)
CONSTANTS Keys, Entries, Users, NULL

VARIABLES
    cached,     \* the entry a key has, or NULL
    asked,      \* the key a user is looking up, or NULL
    putting,    \* the entry a user has put and not yet been given, or NULL
    answer      \* the entry a user's last call gave it, until it is released, or NULL

vars == <<cached, asked, putting, answer>>

Init ==
    /\ cached = [k \in Keys |-> NULL]
    /\ asked = [u \in Users |-> NULL]
    /\ putting = [u \in Users |-> NULL]
    /\ answer = [u \in Users |-> NULL]

\* sc_cache_put: the key has the new entry, and at most one other key loses its own.
Put(u, k, e) ==
    /\ putting[u] = NULL /\ \A j \in Keys : cached[j] # e
    /\ \E f \in Keys : cached' = [cached EXCEPT ![f] = NULL, ![k] = e]
    /\ putting' = [putting EXCEPT ![u] = e]
    /\ UNCHANGED <<asked, answer>>

\* sc_cache_put returns: the entry may be forgotten already, and is held all the same.
Given(u) ==
    /\ putting[u] # NULL
    /\ answer' = [answer EXCEPT ![u] = putting[u]]
    /\ putting' = [putting EXCEPT ![u] = NULL]
    /\ UNCHANGED <<cached, asked>>

\* sc_cache_get is called.
Ask(u, k) ==
    /\ asked[u] = NULL
    /\ asked' = [asked EXCEPT ![u] = k]
    /\ UNCHANGED <<cached, putting, answer>>

\* It answers with the entry its key has now,
Hit(u) ==
    /\ asked[u] # NULL /\ cached[asked[u]] # NULL
    /\ answer' = [answer EXCEPT ![u] = cached[asked[u]]]
    /\ asked' = [asked EXCEPT ![u] = NULL]
    /\ UNCHANGED <<cached, putting>>

\* or with a miss: the key has none, or one that is too old.
Miss(u) ==
    /\ asked[u] # NULL
    /\ asked' = [asked EXCEPT ![u] = NULL]
    /\ UNCHANGED <<cached, putting, answer>>

\* sc_cache_release.
Release(u) ==
    /\ answer[u] # NULL
    /\ answer' = [answer EXCEPT ![u] = NULL]
    /\ UNCHANGED <<cached, asked, putting>>

\* sc_cache_destroy, when nobody uses the cache any more.
Forget ==
    /\ \A u \in Users : answer[u] = NULL /\ putting[u] = NULL
    /\ cached' = [k \in Keys |-> NULL]
    /\ UNCHANGED <<asked, putting, answer>>

Next ==
    \/ \E u \in Users, k \in Keys : Ask(u, k) \/ \E e \in Entries : Put(u, k, e)
    \/ \E u \in Users : Given(u) \/ Hit(u) \/ Miss(u) \/ Release(u)
    \/ Forget

Spec == Init /\ [][Next]_vars
=============================================================================
