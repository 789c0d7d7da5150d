----------------------------- MODULE ColdCache -----------------------------
(***************************************************************************)
(* What a cold GET promises for one object of a remote bucket: the object  *)
(* is fetched from the backend only while it is missing, by one caller at  *)
(* a time, and a fetch is counted once, after the object is there.         *)
(* ColdGet is shown to implement this specification.                       *)
(***************************************************************************)
EXTENDS Naturals, FiniteSets

CONSTANT Threads

VARIABLES
    present,    \* the object is in the cluster
    fetchers,   \* the callers that are fetching it from the backend
    coldCount   \* the cold GETs counted

cacheVars == <<present, fetchers, coldCount>>

CacheInit ==
    /\ present = FALSE
    /\ fetchers = {}
    /\ coldCount = 0

\* A caller starts to fetch: nobody else is fetching and there is nothing to
\* read locally.
Begin(t) ==
    /\ fetchers = {}
    /\ ~present
    /\ fetchers' = {t}
    /\ UNCHANGED <<present, coldCount>>

\* The backend has delivered the object.
Fetched ==
    /\ fetchers # {}
    /\ ~present
    /\ present' = TRUE
    /\ UNCHANGED <<fetchers, coldCount>>

\* The fetcher counts its cold GET and lets the readers in.
Counted ==
    /\ fetchers # {}
    /\ present
    /\ coldCount' = coldCount + 1
    /\ fetchers' = {}
    /\ UNCHANGED present

\* The fetcher gives up, or finishes without counting.
Release ==
    /\ fetchers # {}
    /\ fetchers' = {}
    /\ UNCHANGED <<present, coldCount>>

CacheNext ==
    \/ \E t \in Threads : Begin(t)
    \/ Fetched
    \/ Counted
    \/ Release

CacheSpec == CacheInit /\ [][CacheNext]_cacheVars

=============================================================================
