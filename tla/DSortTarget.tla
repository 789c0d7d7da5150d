---------------------------- MODULE DSortTarget ----------------------------
(***************************************************************************)
(* The target side of dSort (src/dsort/handler.go, "TARGET" half): the     *)
(* HTTP handlers of /v1/sort/<kind>/<uuid> on every target, the            *)
(* startDSort goroutine a start request launches, and the calls targets    *)
(* make to each other (records, shards, abort, finished-ack).              *)
(*                                                                         *)
(* One job is modelled: Managers are independent of each other, so the     *)
(* ManagerGroup of a target is projected onto the UUID of that job.        *)
(* The Manager type itself (Managers.Add/Get/Remove, m.init, m.abort,      *)
(* m.start, m.updateFinishedAck, the final cleanup) is not part of the     *)
(* sources at hand; those definitions follow the written specification     *)
(* and say so.                                                             *)
(***************************************************************************)
EXTENDS Naturals, FiniteSets, Sequences, SequencesExt

CONSTANTS
    Targets,        \* daemon IDs of the targets in the cluster map (smap.Tmap)
    Stranger,       \* a daemon ID that is in nobody's cluster map
    StrayRequests,  \* requests that clients other than this cluster's nodes send
    MaxFaults,      \* bound on the failures injected in one behaviour
    LossyNetwork    \* whether calls between nodes may fail

ASSUME /\ IsFiniteSet(Targets) /\ Targets # {}
       /\ Stranger \notin Targets
       /\ MaxFaults \in Nat
       /\ LossyNetwork \in BOOLEAN

VARIABLES
    mgr,     \* mgr[t]: the job's Manager in the ManagerGroup of target t
    task,    \* task[t]: where the startDSort goroutine of t stands
    out,     \* out[t]: the HTTP calls that goroutine is blocked in
    final,   \* the target that the salted target order makes the gatherer
    faults   \* faults[k]: the failures of kind k injected so far

tvars == <<mgr, task, out, final, faults>>

\* The failures the model injects: a step of a node that fails (Manager.init,
\* a phase of the sort) and a call between two nodes that fails.  The lost
\* calls that carry an abort or a finished-ack are counted apart: nothing
\* sends one of these a second time.  MaxFaults bounds them together.
Notices    == {"abort", "finished-ack"}
FaultKinds == {"step", "call"} \cup Notices

Fault(kind) ==
    /\ FoldFunction(+, 0, faults) < MaxFaults
    /\ faults' = [faults EXCEPT ![kind] = @ + 1]

Lost(kind) == IF kind \in Notices THEN kind ELSE "call"

-----------------------------------------------------------------------------
(* HTTP vocabulary *)

StatusOK                  == 200
StatusBadRequest          == 400
StatusNotFound            == 404
StatusInternalServerError == 500
Status == {StatusOK, StatusBadRequest, StatusNotFound, StatusInternalServerError}

Methods == {"GET", "POST", "PUT", "DELETE"}
Kinds   == {"init", "start", "records", "shards", "abort", "remove", "list",
            "metrics", "finished-ack"}

(* A request as the handlers tell requests apart: the method, the path     *)
(* item after /v1/sort ("bogus": none that SortHandler knows), the number  *)
(* of path items after that one, the daemon ID a finished-ack names, and   *)
(* whether the query ("query") or the body ("body") fails to parse.        *)
Request == [method : Methods, kind : Kinds \cup {"bogus"}, items : 0..2,
            from : Targets \cup {Stranger}, bad : {"ok", "query", "body"}]

MethodOf == [k \in Kinds |->
                CASE k \in {"init", "start", "records", "shards"} -> "POST"
                  [] k \in {"abort", "remove"}                    -> "DELETE"
                  [] k \in {"list", "metrics"}                    -> "GET"
                  [] k = "finished-ack"                           -> "PUT"]

(* The request a node of the cluster builds with cmn.URLPath for `kind`. *)
RequestOf(kind, from) ==
    [method |-> MethodOf[kind], kind |-> kind,
     items  |-> CASE kind = "finished-ack" -> 2 [] kind = "list" -> 0 [] OTHER -> 1,
     from   |-> from, bad |-> "ok"]

-----------------------------------------------------------------------------
(* The Manager of the job on one target *)

\* Bound on the received-batch counter: one batch more than the peers send.
MaxReceived == Cardinality(Targets)

(* state: absent from the ManagerGroup, in its in-memory map, or archived  *)
(* (persisted); rs: m.init stored the request spec; token: what the        *)
(* single-slot channel startShardCreation holds.                           *)
Manager == [state : {"absent", "live", "persisted"}, rs : BOOLEAN,
            inProgress : BOOLEAN, aborted : BOOLEAN, acks : SUBSET Targets,
            received : 0..MaxReceived, token : 0..1]

NoManager == [state |-> "absent", rs |-> FALSE, inProgress |-> FALSE,
              aborted |-> FALSE, acks |-> {}, received |-> 0, token |-> 0]

Peers(t) == Targets \ {t}

\* Managers.Get(uuid): only a Manager in the in-memory map is found.
ManagersGet(t) == mgr[t].state = "live"

\* Managers.Get(uuid, true): an archived (persisted) Manager is found too.
ManagersGetPersisted(t) == mgr[t].state \in {"live", "persisted"}

\* Managers.Add(uuid) refuses a UUID it already has.
ManagersAddFails(t) == mgr[t].state # "absent"

\* Managers.Remove(uuid) refuses an unknown job and one that is not archived.
ManagersRemoveFails(t) == mgr[t].state # "persisted"

\* m.inProgress() && !m.aborted(): the sort may go on.
Runnable(t) == mgr[t].state = "live" /\ mgr[t].inProgress /\ ~mgr[t].aborted

\* m.abort(): sets the flag; a second abort finds it set and changes nothing.
Abort(t) == [mgr EXCEPT ![t].aborted = TRUE]

Running == {"extract", "sendRecords", "waitRecords", "sendShards", "waitToken",
            "bcastAbort", "bcastAck"}
TaskPc  == {"idle", "done", "dead"} \cup Running

Call(kind, to) == [kind |-> kind, todo |-> to, err |-> FALSE]
NoCall == Call("none", {})

-----------------------------------------------------------------------------
(* Handlers.  Handler(t, req, s) is the step of target t that serves req    *)
(* and answers with status s; it says what becomes of mgr, task and        *)
(* faults.                                                                 *)

\* The status of the first check that fails, in the order the handler returns.
FirstFailure(checks) ==
    LET i == SelectInSeq(checks, LAMBDA c : c[1])
    IN  IF i = 0 THEN StatusOK ELSE checks[i][2]

Refuse(s, code) == s = code /\ UNCHANGED <<mgr, task, faults>>

checkHTTPMethod(req, expected) == req.method = expected

checkRESTItems(req, itemsAfter) == req.items >= itemsAfter

\* As initSortHandler, but the error of Managers.Add is not looked at.
initSortHandlerIgnoresAdd(t, req, s) ==
    /\ s = FirstFailure(<<
            <<~checkHTTPMethod(req, "POST"), StatusBadRequest>>,
            <<~checkRESTItems(req, 1),       StatusBadRequest>>,
            <<req.bad = "body",              StatusBadRequest>> >>)
    /\ mgr' = IF s = StatusOK
              THEN [mgr EXCEPT ![t] = [NoManager EXCEPT !.state = "live",
                                          !.rs = TRUE, !.inProgress = TRUE]]
              ELSE mgr
    /\ UNCHANGED <<task, faults>>

initSortHandler(t, req, s) ==
    LET early == FirstFailure(<<
            <<~checkHTTPMethod(req, "POST"), StatusBadRequest>>,
            <<~checkRESTItems(req, 1),       StatusBadRequest>>,
            <<req.bad = "body",              StatusBadRequest>>,
            <<ManagersAddFails(t),           StatusBadRequest>> >>)
        added == [NoManager EXCEPT !.state = "live"]
    IN  \/ early # StatusOK /\ Refuse(s, early)
        \/ /\ early = StatusOK /\ s = StatusOK          \* m.init(rs) succeeds
           /\ mgr' = [mgr EXCEPT ![t] = [added EXCEPT !.rs = TRUE,
                                                       !.inProgress = TRUE]]
           /\ UNCHANGED <<task, faults>>
        \/ /\ early = StatusOK /\ s = StatusBadRequest  \* m.init(rs) fails
           /\ Fault("step")
           /\ mgr' = [mgr EXCEPT ![t] = added]
           /\ UNCHANGED task

\* Every accepted start runs `go startDSort()`.  task follows one such
\* goroutine per target: the start that arrives while one is running is
\* answered and launches none here.
startSortHandler(t, req, s) ==
    /\ s = FirstFailure(<<
            <<~checkHTTPMethod(req, "POST"), StatusBadRequest>>,
            <<~checkRESTItems(req, 1),       StatusBadRequest>>,
            <<~ManagersGet(t),               StatusNotFound>> >>)
    /\ task' = IF s = StatusOK /\ task[t] \notin Running  \* go startDSort()
               THEN [task EXCEPT ![t] = "extract"] ELSE task
    /\ UNCHANGED <<mgr, faults>>

\* As shardsHandler, with a channel that takes a token when it holds one.
shardsHandlerNeverBlocks(t, req, s) ==
    /\ s = FirstFailure(<<
            <<~checkHTTPMethod(req, "POST"), StatusBadRequest>>,
            <<~checkRESTItems(req, 1),       StatusBadRequest>>,
            <<~ManagersGet(t),               StatusNotFound>>,
            <<~mgr[t].inProgress,            StatusBadRequest>>,
            <<mgr[t].aborted,                StatusBadRequest>>,
            <<req.bad = "body",              StatusInternalServerError>> >>)
    /\ mgr' = IF s = StatusOK THEN [mgr EXCEPT ![t].token = @ + 1] ELSE mgr
    /\ UNCHANGED <<task, faults>>

\* The handler ends with a send on the Manager's startShardCreation channel.
\* The channel is made outside the sources and is taken to hold one token; a
\* handler blocked in the send is a request that stays unanswered, which is
\* the step not being enabled while the token is there.
shardsHandler(t, req, s) ==
    /\ s = FirstFailure(<<
            <<~checkHTTPMethod(req, "POST"), StatusBadRequest>>,
            <<~checkRESTItems(req, 1),       StatusBadRequest>>,
            <<~ManagersGet(t),               StatusNotFound>>,
            <<~mgr[t].inProgress,            StatusBadRequest>>,
            <<mgr[t].aborted,                StatusBadRequest>>,
            <<req.bad = "body",              StatusInternalServerError>> >>)
    /\ s = StatusOK => mgr[t].token = 0     \* the send blocks on a full channel
    /\ mgr' = IF s = StatusOK THEN [mgr EXCEPT ![t].token = 1] ELSE mgr
    /\ UNCHANGED <<task, faults>>

\* The records are enqueued and the atomic counter is raised.  The model
\* keeps the counter, which is what the sort waits for, and so takes the two
\* as one step; MaxReceived bounds the counter of the model.
recordsHandler(t, req, s) ==
    /\ s = FirstFailure(<<
            <<~checkHTTPMethod(req, "POST"), StatusBadRequest>>,
            <<~checkRESTItems(req, 1),       StatusBadRequest>>,
            <<~ManagersGet(t),               StatusNotFound>>,
            <<~mgr[t].inProgress,            StatusBadRequest>>,
            <<mgr[t].aborted,                StatusBadRequest>>,
            <<req.bad = "query",             StatusBadRequest>>,
            <<req.bad = "body",              StatusInternalServerError>> >>)
    /\ s = StatusOK => mgr[t].received < MaxReceived
    /\ mgr' = IF s = StatusOK THEN [mgr EXCEPT ![t].received = @ + 1] ELSE mgr
    /\ UNCHANGED <<task, faults>>

abortSortHandler(t, req, s) ==
    /\ s = FirstFailure(<<
            <<~checkHTTPMethod(req, "DELETE"), StatusBadRequest>>,
            <<~checkRESTItems(req, 1),         StatusBadRequest>>,
            <<~ManagersGet(t),                 StatusNotFound>> >>)
    /\ mgr' = IF s = StatusOK THEN Abort(t) ELSE mgr
    /\ UNCHANGED <<task, faults>>

\* As removeSortHandler, but the error of Managers.Remove is not looked at.
removeSortHandlerIgnoresError(t, req, s) ==
    /\ s = FirstFailure(<<
            <<~checkHTTPMethod(req, "DELETE"), StatusBadRequest>>,
            <<~checkRESTItems(req, 1),         StatusBadRequest>> >>)
    /\ mgr' = IF s = StatusOK THEN [mgr EXCEPT ![t] = NoManager] ELSE mgr
    /\ UNCHANGED <<task, faults>>

removeSortHandler(t, req, s) ==
    /\ s = FirstFailure(<<
            <<~checkHTTPMethod(req, "DELETE"), StatusBadRequest>>,
            <<~checkRESTItems(req, 1),         StatusBadRequest>>,
            <<ManagersRemoveFails(t),          StatusBadRequest>> >>)
    /\ mgr' = IF s = StatusOK THEN [mgr EXCEPT ![t] = NoManager] ELSE mgr
    /\ UNCHANGED <<task, faults>>

listSortHandler(t, req, s) ==
    Refuse(s, FirstFailure(<<
            <<~checkHTTPMethod(req, "GET"), StatusBadRequest>>,
            <<req.bad = "query",            StatusBadRequest>> >>))

metricsHandler(t, req, s) ==
    Refuse(s, FirstFailure(<<
            <<~checkHTTPMethod(req, "GET"), StatusBadRequest>>,
            <<~checkRESTItems(req, 1),      StatusBadRequest>>,
            <<~ManagersGetPersisted(t),     StatusNotFound>> >>))

finishedAckHandler(t, req, s) ==
    /\ s = FirstFailure(<<
            <<~checkHTTPMethod(req, "PUT"), StatusBadRequest>>,
            <<~checkRESTItems(req, 2),      StatusBadRequest>>,
            <<~ManagersGet(t),              StatusNotFound>> >>)
    /\ mgr' = IF s = StatusOK               \* m.updateFinishedAck(daemonID)
              THEN [mgr EXCEPT ![t].acks = @ \cup ({req.from} \cap Targets)]
              ELSE mgr
    /\ UNCHANGED <<task, faults>>

SortHandler(t, req, s) ==
    \/ req.kind = "init"         /\ initSortHandler(t, req, s)
    \/ req.kind = "start"        /\ startSortHandler(t, req, s)
    \/ req.kind = "records"      /\ recordsHandler(t, req, s)
    \/ req.kind = "shards"       /\ shardsHandler(t, req, s)
    \/ req.kind = "abort"        /\ abortSortHandler(t, req, s)
    \/ req.kind = "remove"       /\ removeSortHandler(t, req, s)
    \/ req.kind = "list"         /\ listSortHandler(t, req, s)
    \/ req.kind = "metrics"      /\ metricsHandler(t, req, s)
    \/ req.kind = "finished-ack" /\ finishedAckHandler(t, req, s)
    \/ req.kind \notin Kinds     /\ Refuse(s, StatusBadRequest)

(* What the body of a list or metrics answer says of the job: whether the  *)
(* target lists it, and Metrics.Archived / Metrics.Aborted.                *)
JobInfoOf(t) == [known    |-> mgr[t].state # "absent",
                 archived |-> mgr[t].state = "persisted",
                 aborted  |-> mgr[t].aborted]

-----------------------------------------------------------------------------
(* The startDSort goroutine *)

\* m.start() returned nil: startDSort broadcasts the finished ack.
startSucceeded(t) ==
    /\ out'  = [out EXCEPT ![t] = Call("finished-ack", Peers(t))]
    /\ task' = [task EXCEPT ![t] = "bcastAck"]

\* As errHandler, but startDSort does not return after it: the target that
\* failed goes on to the finished-ack broadcast.
errHandlerFallsThrough(t) ==
    /\ mgr' = Abort(t)
    /\ startSucceeded(t)

\* As errHandler, but the other targets are never told.
errHandlerTellsNobody(t) ==
    /\ mgr'  = Abort(t)
    /\ task' = [task EXCEPT ![t] = "dead"]
    /\ out'  = [out EXCEPT ![t] = NoCall]

\* errHandler of startDSort: abort here first, then tell the other targets,
\* unless the job was aborted already by somebody else.
errHandler(t) ==
    IF mgr[t].aborted
    THEN /\ task' = [task EXCEPT ![t] = "dead"]
         /\ out'  = [out EXCEPT ![t] = NoCall]
         /\ UNCHANGED mgr
    ELSE /\ mgr'  = Abort(t)
         /\ out'  = [out EXCEPT ![t] = Call("abort", Peers(t))]
         /\ task' = [task EXCEPT ![t] = "bcastAbort"]


\* Phase 1 of m.start(): extractLocalShards.
ExtractLocalShards(t) ==
    /\ task[t] = "extract"
    /\ Runnable(t)
    /\ IF t = final
       THEN task' = [task EXCEPT ![t] = "waitRecords"] /\ UNCHANGED out
       ELSE /\ task' = [task EXCEPT ![t] = "sendRecords"]
            /\ out'  = [out EXCEPT ![t] = Call("records", {final})]
    /\ UNCHANGED <<mgr, final, faults>>

\* Phase 2 on the gatherer: every peer's records have arrived.
RecordsConverged(t) ==
    /\ task[t] = "waitRecords"
    /\ Runnable(t)
    /\ mgr[t].received = Cardinality(Peers(t))
    /\ task' = [task EXCEPT ![t] = "sendShards"]
    /\ out'  = [out EXCEPT ![t] = Call("shards", Targets)]
    /\ UNCHANGED <<mgr, final, faults>>

\* A POST of records or shards returned: on to waiting for the token, or fail.
SendReturns(t) ==
    /\ task[t] \in {"sendRecords", "sendShards"}
    /\ out[t].todo = {}
    /\ IF out[t].err
       THEN errHandler(t)
       ELSE /\ task' = [task EXCEPT ![t] = "waitToken"]
            /\ out'  = [out EXCEPT ![t] = NoCall]
            /\ UNCHANGED mgr
    /\ UNCHANGED <<final, faults>>

\* Phase 3: the token arrives on startShardCreation and the shards are made.
CreateShards(t) ==
    /\ task[t] = "waitToken"
    /\ Runnable(t)
    /\ mgr[t].token = 1
    /\ mgr' = [mgr EXCEPT ![t].token = 0, ![t].acks = @ \cup {t}]
    /\ startSucceeded(t)
    /\ UNCHANGED <<final, faults>>

\* A phase boundary or a channel receive observes that the job cannot go on.
ObserveAbort(t) ==
    /\ task[t] \in {"extract", "waitRecords", "waitToken"}
    /\ ~Runnable(t)
    /\ errHandler(t)
    /\ UNCHANGED <<final, faults>>

\* A phase fails by itself (a shard that cannot be read, a full disk).
PhaseFails(t) ==
    /\ task[t] \in {"extract", "waitRecords", "waitToken"}
    /\ Runnable(t)
    /\ Fault("step")
    /\ errHandler(t)
    /\ UNCHANGED final

\* broadcast() of abort or finished-ack returned (wg.Wait): startDSort ends.
BroadcastReturns(t) ==
    /\ task[t] \in {"bcastAbort", "bcastAck"}
    /\ out[t].todo = {}
    /\ task' = [task EXCEPT ![t] = IF task[t] = "bcastAck" THEN "done" ELSE "dead"]
    /\ out'  = [out EXCEPT ![t] = NoCall]
    /\ UNCHANGED <<mgr, final, faults>>

(* The Manager is archived: no sort runs on it and either the job was     *)
(* aborted or its own sort and those of all peers are in the set of        *)
(* finished acks.                                                          *)
FinalCleanup(t) ==
    /\ mgr[t].state = "live"
    /\ task[t] \notin Running
    /\ mgr[t].aborted \/ mgr[t].acks = Targets
    /\ mgr' = [mgr EXCEPT ![t].state = "persisted", ![t].inProgress = FALSE]
    /\ UNCHANGED <<task, out, final, faults>>

-----------------------------------------------------------------------------
(* The intra-cluster network between targets *)

\* One call of a target's broadcast (or single POST) is served by peer p.
Deliver(t, p) ==
    /\ p \in out[t].todo
    /\ \E s \in Status :
          /\ SortHandler(p, RequestOf(out[t].kind, t), s)
          /\ out' = [out EXCEPT ![t].todo = @ \ {p},
                                ![t].err  = @ \/ s # StatusOK]
    /\ UNCHANGED final

\* client.Do fails: the peer never sees the request.
NetFail(t, p) ==
    /\ p \in out[t].todo
    /\ LossyNetwork /\ Fault(Lost(out[t].kind))
    /\ out' = [out EXCEPT ![t].todo = @ \ {p}, ![t].err = TRUE]
    /\ UNCHANGED <<mgr, task, final>>

\* Somebody who is not part of the protocol sends a request to target t.
Stray(t) ==
    \E req \in StrayRequests, s \in Status :
        /\ SortHandler(t, req, s)
        /\ UNCHANGED <<out, final>>

-----------------------------------------------------------------------------

TargetInit ==
    /\ mgr    = [t \in Targets |-> NoManager]
    /\ task   = [t \in Targets |-> "idle"]
    /\ out    = [t \in Targets |-> NoCall]
    /\ final  \in Targets
    /\ faults = [k \in FaultKinds |-> 0]

\* The steps startDSort takes by itself, as long as nothing fails.
TaskProgress(t) ==
    \/ ExtractLocalShards(t)
    \/ RecordsConverged(t)
    \/ SendReturns(t)
    \/ CreateShards(t)
    \/ ObserveAbort(t)
    \/ BroadcastReturns(t)

TaskStep(t) == TaskProgress(t) \/ PhaseFails(t)

TargetNext ==
    \E t \in Targets :
        \/ TaskStep(t)
        \/ FinalCleanup(t)
        \/ Stray(t)
        \/ \E p \in Targets : Deliver(t, p) \/ NetFail(t, p)

TargetSpec == TargetInit /\ [][TargetNext]_tvars

-----------------------------------------------------------------------------

TargetTypeOK ==
    /\ mgr \in [Targets -> Manager]
    /\ task \in [Targets -> TaskPc]
    /\ out \in [Targets -> [kind : Kinds \cup {"none"}, todo : SUBSET Targets,
                            err : BOOLEAN]]
    /\ final \in Targets
    /\ faults \in [FaultKinds -> 0..MaxFaults]

-----------------------------------------------------------------------------
(* Properties of the targets, whatever requests reach them *)

\* The phase of a Manager, as the written specification names the phases.
Phase(m) ==
    CASE m.state = "absent"    -> "uninitialised"
      [] m.state = "persisted" -> "archived"
      [] m.aborted             -> "aborted"
      [] m.inProgress          -> "in-progress"
      [] OTHER                 -> "initialising"

Forward ==
    {<<"uninitialised", "initialising">>, <<"uninitialised", "in-progress">>,
     <<"initialising", "aborted">>, <<"in-progress", "aborted">>,
     <<"in-progress", "archived">>, <<"aborted", "archived">>,
     <<"archived", "uninitialised">>}

(* A Manager moves strictly forward through its phases: in-progress is     *)
(* left only for aborted or archived, an aborted or archived job is never  *)
(* revived by a late init, start or abort, and only an archived job is     *)
(* removed.  This is about the checks at the head of initSortHandler,      *)
(* abortSortHandler and removeSortHandler under arbitrary request orders.  *)
ManagerMovesForward ==
    [][\A t \in Targets :
          \/ Phase(mgr'[t]) = Phase(mgr[t])
          \/ <<Phase(mgr[t]), Phase(mgr'[t])>> \in Forward]_mgr

(* A sort goroutine never runs on a Manager that has been archived or      *)
(* removed: removeSortHandler must refuse while startDSort is still        *)
(* exchanging records or broadcasting, whoever sends the remove.           *)
SortRunsUnderLiveManager ==
    \A t \in Targets : task[t] \in Running => mgr[t].state = "live"

=============================================================================
