------------------------------ MODULE ColdGet ------------------------------
(***************************************************************************)
(* target.GetCold (src/ais/tgtifimpl.go): several callers that miss the    *)
(* same object of a remote bucket, each entering GetCold in one of its     *)
(* ownership modes, and target.Backend, which finds the backend GetCold    *)
(* asks for the object.  The per-object lock and the callers around        *)
(* GetCold are not in the sources; they follow the written specification   *)
(* (4.1, 4.5).                                                             *)
(***************************************************************************)
EXTENDS Naturals, FiniteSets

CONSTANTS
    Threads,     \* the callers
    NoThread,    \* nobody
    Modes,       \* the ownership modes (cmn.OWT) the callers may use
    MaxFaults,   \* bound on the failures injected, of both kinds
    LoadFaults,  \* whether lom.Load may fail on an object that is there
    Buckets,     \* the buckets the object may be in
    Registered,  \* the providers the target has a backend for (t.backend)
    NoProps      \* a bucket whose properties are not loaded (Props == nil)

ASSUME NoThread \notin Threads

VARIABLES
    lock,        \* the object's lock
    pc,          \* where each caller is
    mode,        \* the mode each caller calls GetCold with
    bck,         \* the bucket of the object (lom.Bck())
    res,         \* what GetCold returned to it
    present,     \* the object is in the cluster (lom.Load finds it)
    coldCount,   \* stats.GetColdCount
    faults,      \* backend failures injected so far
    misreads     \* loads that failed on an object that is there, so far

cvars == <<lock, pc, mode, bck, res, present, coldCount, faults, misreads>>

OwtGet             == "OwtGet"
OwtGetTryLock      == "OwtGetTryLock"
OwtGetLock         == "OwtGetLock"
OwtGetPrefetchLock == "OwtGetPrefetchLock"
OwtPut             == "OwtPut"     \* stands for every mode GetCold has no case for
OWT == {OwtGet, OwtGetTryLock, OwtGetLock, OwtGetPrefetchLock, OwtPut}

ASSUME Modes \subseteq OWT

----------------------------------------------------------------------------
(* The backend of a bucket.  A bucket is known by its provider, by whether *)
(* its namespace is that of another cluster (RemoteNs), and by the         *)
(* provider of the bucket its properties name as its remote one (Props),   *)
(* NoProps when it has no properties.                                      *)

ProviderAIS  == "ais"
ProviderHTTP == "ht"

IsRemoteAIS(b) == b.Provider = ProviderAIS /\ b.RemoteNs
IsHTTP(b)      == b.Provider = ProviderHTTP

\* What the backend of a bucket can be besides a provider: the dummy, whose
\* every operation fails, and the nil a map gives for a key it does not have.
Dummy      == "dummy"
NilBackend == "nil"

\* t.backend[provider], without a look at whether the key is there.
Entry(provider) == IF provider \in Registered THEN provider ELSE NilBackend

ASSUME Registered \cap {Dummy, NilBackend} = {}

\* The returns of target.Backend, in the order of the source.
Backend(b) ==
    LET provider == IF b.Props # NoProps THEN b.Props ELSE b.Provider
    IN  IF IsRemoteAIS(b) THEN Entry(ProviderAIS)
        ELSE IF IsHTTP(b) THEN Entry(ProviderHTTP)
        ELSE IF provider \in Registered THEN provider
        ELSE Dummy

----------------------------------------------------------------------------
(* The lock of one object.  A caller of UpgradeLock either claims the      *)
(* upgrade slot and becomes the writer once the other readers are gone, or *)
(* finds the slot taken and sleeps; when the writer downgrades or unlocks, *)
(* the sleepers come back as readers and are told that the work was done.  *)

Lock == [readers : SUBSET Threads, writer : Threads \cup {NoThread},
         slot : Threads \cup {NoThread}, waiters : SUBSET Threads]

Free == [readers |-> {}, writer |-> NoThread, slot |-> NoThread, waiters |-> {}]

\* A pending upgrade goes before new readers.
CanShare == lock.writer = NoThread /\ lock.slot = NoThread

CanOwn == CanShare /\ lock.readers = {}

Shared(t) == [lock EXCEPT !.readers = @ \cup {t}]

Owned(t) == [lock EXCEPT !.writer = t]

UnlockShared(t) == [lock EXCEPT !.readers = @ \ {t}]

UnlockExclusive == [Free EXCEPT !.readers = lock.waiters]

DowngradeLock(t) == [Free EXCEPT !.readers = lock.waiters \cup {t}]

UpgradeClaimed(t) == [lock EXCEPT !.readers = @ \ {t}, !.slot = t]

UpgradeAsleep(t) == [lock EXCEPT !.readers = @ \ {t}, !.waiters = @ \cup {t}]

Holds(t) == t \in lock.readers \cup lock.waiters \cup {lock.writer, lock.slot}

----------------------------------------------------------------------------
(* The callers.                                                            *)

\* What the caller still holds when GetCold returns r: the shared lock after a
\* successful OwtGet, its own lock with OwtGetPrefetchLock.
HoldsAfter(m, r) ==
    \/ m = OwtGet /\ r = "ok"
    \/ m = OwtGetPrefetchLock

Return(t, r) ==
    /\ res' = [res EXCEPT ![t] = r]
    /\ pc' = [pc EXCEPT ![t] = IF HoldsAfter(mode[t], r) THEN "returned" ELSE "done"]

\* A request arrives.  A GET takes the shared lock, a caller that brings its
\* own lock takes it; the others look at the object without a lock.
Arrive(t) ==
    /\ pc[t] = "idle"
    /\ \/ mode[t] = OwtGet /\ CanShare /\ lock' = Shared(t)
       \/ mode[t] = OwtGetPrefetchLock /\ CanOwn /\ lock' = Owned(t)
       \/ mode[t] \notin {OwtGet, OwtGetPrefetchLock} /\ UNCHANGED lock
    /\ pc' = [pc EXCEPT ![t] = "check"]
    /\ UNCHANGED <<mode, bck, res, present, coldCount, faults, misreads>>

\* The caller finds the object, or misses it and calls GetCold.
CallerLoad(t) ==
    /\ pc[t] = "check"
    /\ \/ present /\ Return(t, "ok")
       \/ ~present /\ pc' = [pc EXCEPT ![t] = "call"] /\ UNCHANGED res
    /\ UNCHANGED <<lock, mode, bck, present, coldCount, faults, misreads>>

\* The caller is done with the object and releases what the contract of
\* GetCold says it holds.
CallerRelease(t) ==
    /\ pc[t] = "returned"
    /\ lock' = IF mode[t] = OwtGet THEN UnlockShared(t) ELSE UnlockExclusive
    /\ pc' = [pc EXCEPT ![t] = "done"]
    /\ UNCHANGED <<mode, bck, res, present, coldCount, faults, misreads>>

----------------------------------------------------------------------------
(* GetCold, step 1: lock.                                                  *)

Calls(t, m) == pc[t] = "call" /\ mode[t] = m

Fetch(t) == pc' = [pc EXCEPT ![t] = "backend"] /\ UNCHANGED res

GetColdPrefetchLock(t) ==
    /\ Calls(t, OwtGetPrefetchLock)
    /\ Fetch(t)
    /\ UNCHANGED <<lock, mode, bck, present, coldCount, faults, misreads>>

\* TryLock: busy is a skip, not an error.
GetColdTryLock(t) ==
    /\ Calls(t, OwtGetTryLock)
    /\ \/ CanOwn /\ lock' = Owned(t) /\ Fetch(t)
       \/ ~CanOwn /\ Return(t, "skip") /\ UNCHANGED lock
    /\ UNCHANGED <<mode, bck, present, coldCount, faults, misreads>>

GetColdLock(t) ==
    /\ Calls(t, OwtGetLock)
    /\ CanOwn
    /\ lock' = Owned(t)
    /\ Fetch(t)
    /\ UNCHANGED <<mode, bck, present, coldCount, faults, misreads>>

\* OwtGet enters UpgradeLock: it claims the upgrade or goes to sleep.
GetColdUpgrade(t) ==
    /\ Calls(t, OwtGet)
    /\ \/ lock.slot = NoThread
          /\ lock' = UpgradeClaimed(t)
          /\ pc' = [pc EXCEPT ![t] = "claimed"]
       \/ lock.slot # NoThread
          /\ lock' = UpgradeAsleep(t)
          /\ pc' = [pc EXCEPT ![t] = "asleep"]
    /\ UNCHANGED <<mode, bck, res, present, coldCount, faults, misreads>>

\* UpgradeLock returns false: the caller is the writer and leaves the loop.
UpgradeWon(t) ==
    /\ pc[t] = "claimed"
    /\ lock.readers = {}
    /\ lock' = Owned(t)
    /\ Fetch(t)
    /\ UNCHANGED <<mode, bck, present, coldCount, faults, misreads>>

\* A Load of the object fails when it is not there, and may fail when it is.
Injected == faults + misreads

LoadFails ==
    \/ ~present /\ UNCHANGED <<faults, misreads>>
    \/ /\ present /\ LoadFaults /\ Injected < MaxFaults
       /\ misreads' = misreads + 1
       /\ UNCHANGED faults

LoadSucceeds == present /\ UNCHANGED <<faults, misreads>>

\* The loop that forgets to look: whatever the other caller did counts as done.
UpgradeLoopSkipsLoad(t) ==
    /\ pc[t] = "asleep"
    /\ t \in lock.readers
    /\ Return(t, "ok")
    /\ UNCHANGED <<lock, mode, bck, present, coldCount, faults, misreads>>

\* The loop as an if: the caller goes on to fetch whatever UpgradeLock said.
UpgradeLoopFallsThrough(t) ==
    /\ pc[t] = "asleep"
    /\ t \in lock.readers
    /\ Fetch(t)
    /\ UNCHANGED <<lock, mode, bck, present, coldCount, faults, misreads>>

\* UpgradeLock returns true, "the action was performed by some other
\* goroutine": the body of the loop loads the object and returns, or asks for
\* the upgrade again.
UpgradeDoneByOther(t) ==
    /\ pc[t] = "asleep"
    /\ t \in lock.readers
    /\ \/ LoadSucceeds /\ Return(t, "ok")
       \/ LoadFails /\ pc' = [pc EXCEPT ![t] = "call"] /\ UNCHANGED res
    /\ UNCHANGED <<lock, mode, bck, present, coldCount>>

\* A mode GetCold has no case for: it returns (0, nil) at once.
GetColdDefault(t) ==
    /\ pc[t] = "call"
    /\ mode[t] \notin {OwtGet, OwtGetTryLock, OwtGetLock, OwtGetPrefetchLock}
    /\ Return(t, "ok")
    /\ UNCHANGED <<lock, mode, bck, present, coldCount, faults, misreads>>

----------------------------------------------------------------------------
(* Step 2: get from remote.                                                *)

\* GetObj of the bucket's backend delivers the object.
BackendGets(t) ==
    /\ pc[t] = "backend"
    /\ Backend(bck) \in Registered
    /\ present' = TRUE
    /\ pc' = [pc EXCEPT ![t] = "post"]
    /\ UNCHANGED <<lock, mode, bck, res, coldCount, faults, misreads>>

\* The dummy backend supports nothing; a provider's GetObj may fail.
GetObjFails ==
    \/ Backend(bck) = Dummy /\ UNCHANGED faults
    \/ /\ Backend(bck) \in Registered
       /\ Injected < MaxFaults
       /\ faults' = faults + 1

\* The failure path without its unlock.
BackendFailsKeepsLock(t) ==
    /\ pc[t] = "backend"
    /\ GetObjFails
    /\ Return(t, "error")
    /\ UNCHANGED <<lock, mode, bck, present, coldCount, misreads>>

\* GetObj fails: GetCold unlocks, unless the lock is the caller's, and
\* returns the error.
BackendFails(t) ==
    /\ pc[t] = "backend"
    /\ GetObjFails
    /\ lock' = IF mode[t] # OwtGetPrefetchLock THEN UnlockExclusive ELSE lock
    /\ Return(t, "error")
    /\ UNCHANGED <<mode, bck, present, coldCount, misreads>>

----------------------------------------------------------------------------
(* Step 3: unlock or downgrade.                                            *)

PostUnlock(t) ==
    /\ pc[t] = "post"
    /\ \/ mode[t] = OwtGetPrefetchLock /\ UNCHANGED lock
       \/ mode[t] \in {OwtGetTryLock, OwtGetLock} /\ lock' = UnlockExclusive
    /\ Return(t, "ok")
    /\ UNCHANGED <<mode, bck, present, coldCount, faults, misreads>>

\* The downgrade that lets the caller read and forgets that it was the writer.
PostGetKeepsExclusive(t) ==
    /\ pc[t] = "post" /\ mode[t] = OwtGet
    /\ coldCount' = coldCount + 1
    /\ lock' = Shared(t)
    /\ Return(t, "ok")
    /\ UNCHANGED <<mode, bck, present, faults, misreads>>

\* The load error that returns without its unlock.
PostGetKeepsLockOnError(t) ==
    /\ pc[t] = "post" /\ mode[t] = OwtGet
    /\ \/ LoadSucceeds
          /\ coldCount' = coldCount + 1
          /\ lock' = DowngradeLock(t)
          /\ Return(t, "ok")
       \/ LoadFails
          /\ Return(t, "error")
          /\ UNCHANGED <<lock, coldCount>>
    /\ UNCHANGED <<mode, bck, present>>

\* OwtGet: load what was fetched, count the cold GET and downgrade; if the
\* load fails, unlock and fail.
PostGet(t) ==
    /\ pc[t] = "post" /\ mode[t] = OwtGet
    /\ \/ LoadSucceeds
          /\ coldCount' = coldCount + 1
          /\ lock' = DowngradeLock(t)
          /\ Return(t, "ok")
       \/ LoadFails
          /\ lock' = UnlockExclusive
          /\ Return(t, "error")
          /\ UNCHANGED coldCount
    /\ UNCHANGED <<mode, bck, present>>

----------------------------------------------------------------------------

ColdInit ==
    /\ lock = Free
    /\ pc = [t \in Threads |-> "idle"]
    /\ mode \in [Threads -> Modes]
    /\ bck \in Buckets
    /\ res = [t \in Threads |-> "none"]
    /\ present = FALSE
    /\ coldCount = 0
    /\ faults = 0
    /\ misreads = 0

GetCold(t) ==
    \/ GetColdPrefetchLock(t)
    \/ GetColdTryLock(t)
    \/ GetColdLock(t)
    \/ GetColdUpgrade(t)
    \/ UpgradeWon(t)
    \/ UpgradeDoneByOther(t)
    \/ GetColdDefault(t)
    \/ BackendGets(t)
    \/ BackendFails(t)
    \/ PostUnlock(t)
    \/ PostGet(t)

Caller(t) == CallerLoad(t) \/ CallerRelease(t)

ColdNext == \E t \in Threads : Arrive(t) \/ Caller(t) \/ GetCold(t)

ColdSpec == ColdInit /\ [][ColdNext]_cvars

\* Every goroutine that can take a step is scheduled, and the backend
\* answers.  Requests need not arrive.
ColdFairSpec ==
    ColdSpec /\ \A t \in Threads : WF_cvars(Caller(t)) /\ WF_cvars(GetCold(t))

----------------------------------------------------------------------------

Fetchers == {t \in Threads : pc[t] \in {"backend", "post"}}

Cache == INSTANCE ColdCache WITH fetchers <- Fetchers

\* Every variable has its type, and the lock has one of the shapes a lock
\* can have: a writer and readers exclude each other, and callers sleep only
\* while somebody has claimed the upgrade.
ColdTypeOK ==
    /\ lock \in Lock
    /\ pc \in [Threads -> {"idle", "check", "call", "claimed", "asleep",
                           "backend", "post", "returned", "done"}]
    /\ mode \in [Threads -> Modes]
    /\ bck \in Buckets
    /\ res \in [Threads -> {"none", "ok", "skip", "error"}]
    /\ present \in BOOLEAN
    /\ coldCount \in 0..Cardinality(Threads)
    /\ faults \in 0..MaxFaults
    /\ misreads \in 0..(MaxFaults - faults)
    /\ lock.writer # NoThread => lock.readers = {}
    /\ lock.waiters # {} => lock.slot # NoThread

\* Concurrent GETs implement the cold cache: while every caller is a GET
\* (OwtGet) and no Load has failed on an object that is there, every step of
\* GetCold is a step of ColdCache.  The backend is asked for the object only
\* while it is missing and by one caller at a time, and stats.GetColdCount
\* counts a fetch once.  It is the upgrade loop of the OwtGet case (lines
\* 143-151) that makes the callers who lost the upgrade look at the object
\* again instead of fetching it a second time.  The modes are fixed when the
\* callers arrive, so the condition selects whole behaviours, and a Load that
\* failed cannot be taken back.
GetsOnly == \A t \in Threads : mode[t] = OwtGet

FetchedOnce ==
    /\ GetsOnly => Cache!CacheInit
    /\ [][GetsOnly /\ misreads = 0 => Cache!CacheNext]_(Cache!cacheVars)

\* While no Load has failed on an object that is there, only a caller that
\* missed the object before it had the lock fetches an object that is there: GetCold does not look again
\* in the cases OwtGetLock and OwtGetTryLock, whose callers come without a
\* lock.  A GET looks again after every UpgradeLock (and asks for the upgrade
\* again when that Load fails), and a prefetch has looked under its own lock.
RefetchOnlyAfterUnlockedMiss ==
    [][\A t \in Threads :
          present /\ misreads = 0 /\ pc[t] # "backend" /\ pc'[t] = "backend" =>
              mode[t] \in {OwtGetLock, OwtGetTryLock}]_cvars

\* When GetCold returns success to a GET (OwtGet), the object is loaded and the
\* caller holds the shared lock it will release: a caller woken from
\* UpgradeLock must not take the other goroutine's work for done when that
\* goroutine's backend call failed.
SuccessMeansLoadedAndShared ==
    \A t \in Threads :
        pc[t] = "returned" /\ mode[t] = OwtGet =>
            present /\ t \in lock.readers

\* A caller that is through with the object holds no part of its lock: every
\* exit of GetCold (skip, backend error, load error, success) releases what
\* step 1 acquired, and leaves exactly what the caller releases.
NoLockLeftBehind ==
    \A t \in Threads : pc[t] \in {"idle", "done"} => ~Holds(t)

\* Every call of GetCold returns and every caller finishes: no caller sleeps in
\* UpgradeLock or waits for the lock for ever, whichever of the others fail.
EveryCallReturns ==
    \A t \in Threads : pc[t] # "idle" ~> pc[t] = "done"

=============================================================================
