------------------------------- MODULE DSort -------------------------------
(***************************************************************************)
(* dSort end to end: the proxy handlers of src/dsort/handler.go ("PROXY"   *)
(* half) composed with the targets of DSortTarget.  A client request to    *)
(* /v1/sort is routed by ProxySortHandler to one of the proxy handlers;    *)
(* each of them fans requests out to every target with broadcast(), waits  *)
(* for all the answers and decides from them.                              *)
(*                                                                         *)
(* One invocation of each proxy handler is modelled; the handlers run      *)
(* concurrently with each other and with the targets' sort goroutines.     *)
(***************************************************************************)
EXTENDS DSortTarget

CONSTANTS
    ClientRequests,  \* the requests clients send to the proxy
    ProxyNode,       \* ctx.node: the daemon that serves the proxy handlers
    LossyReplies,    \* whether reading the body of an answer may fail
    EarlyClients     \* whether a client may name the job before it has the
                     \* UUID from the answer to its start request (the list
                     \* of jobs shows it as soon as one target has it)

ASSUME LossyReplies \in BOOLEAN /\ EarlyClients \in BOOLEAN

VARIABLES
    ppc,     \* ppc[h]: where proxy handler h stands
    bc,      \* bc[h]: the broadcast handler h is blocked in
    reply    \* reply[h]: what handler h wrote to its client

pvars == <<ppc, bc, reply>>
vars  == <<mgr, task, out, final, faults, ppc, bc, reply>>

-----------------------------------------------------------------------------
(* Client requests and their routing *)

ProxyHandlers == {"start", "list", "metrics", "abort", "remove", "invalid"}

(* A request to /v1/sort as the proxy tells requests apart: the method,    *)
(* the path item after /v1/sort, whether the query has an id, and what is  *)
(* wrong with it: a body that does not parse, a bucket that does not       *)
(* exist, a failure to marshal or to draw a UUID, a regex that does not    *)
(* compile.                                                                *)
ClientRequest == [method : Methods, item : {"none", "abort", "other"},
                  id : BOOLEAN,
                  bad : {"ok", "body", "bucket", "internal", "regex"}]

\* ProxySortHandler and proxyGetHandler: the handler that serves req.
\* "panic": the default branch formats apiItems[0] of an empty apiItems.
ProxySortHandler(req) ==
    CASE req.method = "POST"                      -> "start"
      [] req.method = "GET" /\ req.id             -> "metrics"
      [] req.method = "GET" /\ ~req.id            -> "list"
      [] req.method = "DELETE" /\ req.item = "abort" -> "abort"
      [] req.method = "DELETE" /\ req.item = "none"  -> "remove"
      [] req.method = "DELETE" /\ req.item = "other" -> "invalid"
      [] OTHER -> IF req.item = "none" THEN "panic" ELSE "invalid"

-----------------------------------------------------------------------------
(* broadcast() *)

JobInfo == [known : BOOLEAN, archived : BOOLEAN, aborted : BOOLEAN]
NoInfo  == [known |-> FALSE, archived |-> FALSE, aborted |-> FALSE]

Response     == [status : Status \cup {0}, err : BOOLEAN, info : JobInfo]
ZeroResponse == [status |-> 0, err |-> FALSE, info |-> NoInfo]

(* The request the proxy sends to the targets: the job's UUID is a path    *)
(* item only when the proxy has one (its own, or the id of the query).     *)
TargetRequest(kind, hasID) ==
    [RequestOf(kind, Stranger) EXCEPT
        !.items = IF hasID /\ kind # "list" THEN 1 ELSE 0]

(* broadcast(.., nodes = Tmap, ignore...): a slice of len(nodes) zeroed    *)
(* slots, and one call in flight for every node that is not ignored.  The  *)
(* slots that no call fills stay zero.                                     *)
broadcast(req, ignore) ==
    [req |-> req, todo |-> Targets \ ignore,
     resp |-> [t \in Targets |-> ZeroResponse]]

NoBroadcast == [req |-> TargetRequest("list", FALSE), todo |-> {},
                resp |-> [t \in Targets |-> ZeroResponse]]

\* Only list and metrics answers carry a body the proxy decodes.
Body(req, t, s) ==
    IF req.kind \in {"list", "metrics"} /\ s = StatusOK
    THEN JobInfoOf(t) ELSE NoInfo

(* One call of a broadcast: target t serves the request and the call       *)
(* stores status and body in its slot; ioutil.ReadAll may fail after the   *)
(* target has served the request.                                          *)
ProxyCall(h, t) ==
    /\ t \in bc[h].todo
    /\ \E s \in Status, lost \in {FALSE, LossyReplies} :
          /\ SortHandler(t, bc[h].req, s)
          /\ bc' = [bc EXCEPT ![h].todo = @ \ {t},
                              ![h].resp[t] = [status |-> s, err |-> lost,
                                  info |-> IF lost THEN NoInfo
                                           ELSE Body(bc[h].req, t, s)]]
    /\ UNCHANGED <<out, final, ppc, reply>>

\* As ProxyCallFails, but the slot gets the error only, not a status code.
ProxyCallFailsNoStatus(h, t) ==
    /\ t \in bc[h].todo
    /\ LossyNetwork /\ Fault(Lost(bc[h].req.kind))
    /\ bc' = [bc EXCEPT ![h].todo = @ \ {t}, ![h].resp[t].err = TRUE]
    /\ UNCHANGED <<mgr, task, out, final, ppc, reply>>

\* http.NewRequest or client.Do fails: the target never sees the request.
ProxyCallFails(h, t) ==
    /\ t \in bc[h].todo
    /\ LossyNetwork /\ Fault(Lost(bc[h].req.kind))
    /\ bc' = [bc EXCEPT ![h].todo = @ \ {t},
                        ![h].resp[t] = [status |-> StatusInternalServerError,
                                        err |-> TRUE, info |-> NoInfo]]
    /\ UNCHANGED <<mgr, task, out, final, ppc, reply>>

\* wg.Wait() of handler h's broadcast returns.
Joined(h, pc) == ppc[h] = pc /\ bc[h].todo = {}

-----------------------------------------------------------------------------
(* The proxy handlers.  Each is a chain of steps separated by broadcasts.  *)

NoReply == [status |-> 0, info |-> NoInfo]

Reply(h, status, info) ==
    /\ reply' = [reply EXCEPT ![h] = [status |-> status, info |-> info]]
    /\ ppc'   = [ppc EXCEPT ![h] = "done"]
    /\ bc'    = [bc EXCEPT ![h] = NoBroadcast]

Send(h, pc, b) ==
    /\ ppc' = [ppc EXCEPT ![h] = pc]
    /\ bc'  = [bc EXCEPT ![h] = b]
    /\ UNCHANGED reply

\* The requests a client can send now: one with an id needs the job's UUID.
Sendable ==
    {req \in ClientRequests :
        req.id => EarlyClients \/ reply["start"].status = StatusOK}

\* Handler h is free and the client sends a request that is routed to it.
Accepts(h, req) ==
    req \in Sendable /\ ppc[h] = "idle" /\ ProxySortHandler(req) = h

\* A request no handler serves: 400, or the panic of the default branch.
ProxyInvalid ==
    /\ ppc["invalid"] = "idle"
    /\ \/ /\ \E req \in Sendable : ProxySortHandler(req) = "invalid"
          /\ Reply("invalid", StatusBadRequest, NoInfo)
       \/ /\ \E req \in Sendable : ProxySortHandler(req) = "panic"
          /\ ppc' = [ppc EXCEPT !["invalid"] = "panic"]
          /\ UNCHANGED <<bc, reply>>
    /\ UNCHANGED tvars

\* As checkResponses, but a broadcast is taken to have succeeded always.
checkResponsesSeesNoError(resp) == TRUE

\* checkResponses of proxyStartSortHandler: nil unless a slot has an error.
checkResponses(resp) == \A t \in Targets : ~resp[t].err

\* proxyStartSortHandler up to the init broadcast.
ProxyStart ==
    /\ \E req \in ClientRequests :
          /\ Accepts("start", req)
          /\ CASE req.bad \in {"body", "bucket"} ->
                      Reply("start", StatusBadRequest, NoInfo)
               [] req.bad = "internal" ->
                      Reply("start", StatusInternalServerError, NoInfo)
               [] OTHER ->
                      Send("start", "init",
                           broadcast(TargetRequest("init", TRUE), {}))
    /\ UNCHANGED tvars

\* The init broadcast returned: roll back, or go on to the start broadcast.
ProxyInitJoined ==
    /\ Joined("start", "init")
    /\ IF checkResponses(bc["start"].resp)
       THEN Send("start", "start", broadcast(TargetRequest("start", TRUE), {}))
       ELSE Send("start", "rollback", broadcast(TargetRequest("abort", TRUE), {}))
    /\ UNCHANGED tvars

\* The start broadcast returned: roll back, or write the UUID to the client.
ProxyStartJoined ==
    /\ Joined("start", "start")
    /\ IF checkResponses(bc["start"].resp)
       THEN Reply("start", StatusOK, NoInfo)
       ELSE Send("start", "rollback", broadcast(TargetRequest("abort", TRUE), {}))
    /\ UNCHANGED tvars

\* The abort broadcast of checkResponses returned; its answers are dropped.
ProxyRollbackJoined ==
    /\ Joined("start", "rollback")
    /\ Reply("start", StatusInternalServerError, NoInfo)
    /\ UNCHANGED tvars

\* proxyAbortSortHandler: broadcast the abort ...
ProxyAbort ==
    /\ \E req \in ClientRequests :
          /\ Accepts("abort", req)
          /\ Send("abort", "abort", broadcast(TargetRequest("abort", req.id), {}))
    /\ UNCHANGED tvars

\* ... and answer 200 whatever the targets said.
ProxyAbortJoined ==
    /\ Joined("abort", "abort")
    /\ Reply("abort", StatusOK, NoInfo)
    /\ UNCHANGED tvars

\* As MetricsLoop, but Metrics.Archived is never looked at.
MetricsLoopAnyPhase(resp, needArchived) ==
    LET seen    == {t \in Targets : resp[t].status # StatusNotFound}
        ends(t) == resp[t].err \/ resp[t].status # StatusOK
    IN  {IF resp[t].err THEN resp[t].status ELSE StatusInternalServerError :
            t \in {u \in seen : ends(u)}}

(* The loop over metrics answers that proxyMetricsSortHandler and          *)
(* proxyRemoveSortHandler share: answers with status 404 are skipped, the  *)
(* first other answer that has an error, does not decode or (for remove)   *)
(* is not archived ends the handler.  The slice is in map order, so any    *)
(* such answer may be the first: the set of statuses the loop may end in.  *)
MetricsLoop(resp, needArchived) ==
    LET seen    == {t \in Targets : resp[t].status # StatusNotFound}
        code(t) == CASE resp[t].err                -> resp[t].status
                     [] resp[t].status # StatusOK  -> StatusInternalServerError
                     [] OTHER                      -> StatusBadRequest
        ends(t) == \/ resp[t].err
                   \/ resp[t].status # StatusOK
                   \/ needArchived /\ ~resp[t].info.archived
    IN  {code(t) : t \in {u \in seen : ends(u)}}

\* The metrics the client gets: whether all, and whether any, target that
\* answered reports the job archived, aborted.
Collect(resp) ==
    LET seen == {t \in Targets : resp[t].status = StatusOK}
    IN  [known    |-> seen # {},
         archived |-> \A t \in seen : resp[t].info.archived,
         aborted  |-> \E t \in seen : resp[t].info.aborted]

\* proxyMetricsSortHandler: ask every target for its metrics of the job.
ProxyMetrics ==
    /\ \E req \in ClientRequests : Accepts("metrics", req)
    /\ Send("metrics", "metrics", broadcast(TargetRequest("metrics", TRUE), {}))
    /\ UNCHANGED tvars

ProxyMetricsJoined ==
    /\ Joined("metrics", "metrics")
    /\ LET resp     == bc["metrics"].resp
           notFound == {t \in Targets : resp[t].status = StatusNotFound}
       IN  \/ \E c \in MetricsLoop(resp, FALSE) : Reply("metrics", c, NoInfo)
           \/ /\ MetricsLoop(resp, FALSE) = {}
              /\ IF notFound = Targets
                 THEN Reply("metrics", StatusNotFound, NoInfo)
                 ELSE Reply("metrics", StatusOK, Collect(resp))
    /\ UNCHANGED tvars

\* The answers that arrived and are refusals: their body is no job list.
undecodable(resp) ==
    {t \in Targets : ~resp[t].err /\ resp[t].status # StatusOK}

\* JobInfo.Aggregate over the answers that arrived: flags are OR'd.
Aggregate(resp) ==
    LET got == {t \in Targets : ~resp[t].err}
    IN  [known    |-> \E t \in got : resp[t].info.known,
         archived |-> \E t \in got : resp[t].info.archived,
         aborted  |-> \E t \in got : resp[t].info.aborted]

\* As regexCompiles, with the check of the regex left to the targets.
regexLeftToTargets(req) == TRUE

\* regexp.CompilePOSIX accepts the regex of the query.
regexCompiles(req) == req.bad # "regex"

(* proxyListSortHandler: refuse a bad regex, else ask every target for its *)
(* jobs.  The query goes to the targets as the client wrote it.            *)
ProxyList ==
    /\ \E req \in ClientRequests :
          /\ Accepts("list", req)
          /\ IF regexCompiles(req)
             THEN Send("list", "list",
                       broadcast([TargetRequest("list", FALSE) EXCEPT
                                     !.bad = IF req.bad = "regex" THEN "query"
                                             ELSE "ok"], {}))
             ELSE Reply("list", StatusBadRequest, NoInfo)
    /\ UNCHANGED tvars

(* The list broadcast returned.  The calls that failed are skipped; every  *)
(* other answer is decoded as a job list under cmn.AssertNoErr, whatever   *)
(* its status: the text of a refusal stops the handler in the assertion.   *)
ProxyListJoined ==
    /\ Joined("list", "list")
    /\ LET resp == bc["list"].resp
       IN  IF undecodable(resp) # {}
           THEN /\ ppc' = [ppc EXCEPT !["list"] = "panic"]
                /\ UNCHANGED <<bc, reply>>
           ELSE Reply("list", StatusOK, Aggregate(resp))
    /\ UNCHANGED tvars

\* proxyRemoveSortHandler: first ask every target for metrics.
ProxyRemove ==
    /\ \E req \in ClientRequests :
          /\ Accepts("remove", req)
          /\ Send("remove", "check", broadcast(TargetRequest("metrics", req.id), {}))
    /\ UNCHANGED tvars

\* Refuse unless every target that knows the job has archived it and one does.
ProxyRemoveChecked ==
    /\ Joined("remove", "check")
    /\ LET resp    == bc["remove"].resp
           seenOne == \E t \in Targets : resp[t].status # StatusNotFound
       IN  \/ \E c \in MetricsLoop(resp, TRUE) : Reply("remove", c, NoInfo)
           \/ /\ MetricsLoop(resp, TRUE) = {}
              /\ IF seenOne
                 THEN Send("remove", "remove",
                           broadcast(TargetRequest("remove", bc["remove"].req.items = 1),
                                     {ProxyNode}))
                 ELSE Reply("remove", StatusNotFound, NoInfo)
    /\ UNCHANGED tvars

\* As failed, but only of the answers that arrived.
failedAmongAnswers(resp) == undecodable(resp)

\* The slots whose status is not 200, as the loop over the answers finds them.
failed(resp) == {t \in Targets : resp[t].status # StatusOK}

(* The remove broadcast returned.  A failed slot that no call filled has   *)
(* no node (si == nil), and naming it in the error message panics.         *)
ProxyRemoveJoined ==
    /\ Joined("remove", "remove")
    /\ LET resp == bc["remove"].resp
       IN  IF \E t \in failed(resp) : resp[t] = ZeroResponse
           THEN /\ ppc' = [ppc EXCEPT !["remove"] = "panic"]
                /\ UNCHANGED <<bc, reply>>
           ELSE Reply("remove", IF failed(resp) = {} THEN StatusOK
                                ELSE StatusBadRequest, NoInfo)
    /\ UNCHANGED tvars

-----------------------------------------------------------------------------

Init ==
    /\ TargetInit
    /\ ppc   = [h \in ProxyHandlers |-> "idle"]
    /\ bc    = [h \in ProxyHandlers |-> NoBroadcast]
    /\ reply = [h \in ProxyHandlers |-> NoReply]

ProxyAccept ==
    \/ ProxyInvalid
    \/ ProxyStart
    \/ ProxyAbort
    \/ ProxyMetrics
    \/ ProxyList
    \/ ProxyRemove

ProxyJoin ==
    \/ ProxyInitJoined
    \/ ProxyStartJoined
    \/ ProxyRollbackJoined
    \/ ProxyAbortJoined
    \/ ProxyMetricsJoined
    \/ ProxyListJoined
    \/ ProxyRemoveChecked
    \/ ProxyRemoveJoined

ProxyNet ==
    \E h \in ProxyHandlers, t \in Targets : ProxyCall(h, t) \/ ProxyCallFails(h, t)

Next ==
    \/ ProxyAccept
    \/ ProxyJoin
    \/ ProxyNet
    \/ TargetNext /\ UNCHANGED pvars

Spec == Init /\ [][Next]_vars

(* What the runtime guarantees: a goroutine that can take its next step    *)
(* takes it, a request that was sent is served or fails, a broadcast whose *)
(* calls have all returned is joined.  Failures are never forced: a phase  *)
(* that fails (PhaseFails) and a call that is lost (NetFail,               *)
(* ProxyCallFails) are outside every fair action.                          *)
Fairness ==
    /\ \A t \in Targets :
          /\ WF_vars(TaskProgress(t) /\ UNCHANGED pvars)
          /\ WF_vars(FinalCleanup(t) /\ UNCHANGED pvars)
          /\ \A p \in Targets : WF_vars(Deliver(t, p) /\ UNCHANGED pvars)
    /\ \A h \in ProxyHandlers, t \in Targets : WF_vars(ProxyCall(h, t))
    /\ WF_vars(ProxyJoin)

FairSpec == Spec /\ Fairness

-----------------------------------------------------------------------------

ProxyPc == {"idle", "init", "start", "rollback", "abort", "metrics", "list",
            "check", "remove", "done", "panic"}

TypeOK ==
    /\ TargetTypeOK
    /\ ppc \in [ProxyHandlers -> ProxyPc]
    /\ bc \in [ProxyHandlers -> [req : Request, todo : SUBSET Targets,
                                 resp : [Targets -> Response]]]
    /\ reply \in [ProxyHandlers -> [status : Status \cup {0}, info : JobInfo]]
    /\ \A h \in ProxyHandlers : reply[h].status = 0 <=> ppc[h] # "done"

-----------------------------------------------------------------------------
(* Properties of the protocol *)

Sorting(t) == task[t] \in Running

(* The two phases of proxyStartSortHandler: no target runs the sort before *)
(* every target has a Manager for the job, so that no records, shards or   *)
(* abort request of a sorting target meets a peer that does not know the   *)
(* job.  This is about the barrier of the init broadcast and about         *)
(* checkResponses, under calls that fail and aborts that race the start.   *)
InitBeforeSort ==
    (\E t \in Targets : Sorting(t)) =>
        \A u \in Targets : mgr[u].state # "absent"

(* A target whose init failed keeps the whole job from starting: the proxy *)
(* rolls back and no target is told to start.  The comment on the two      *)
(* phases in proxyStartSortHandler promises that init "ensures that all    *)
(* targets successfully initialized all structures".                       *)
NoStartAfterFailedInit ==
    (\E u \in Targets : mgr[u].state # "absent" /\ ~mgr[u].rs) =>
        \A t \in Targets : task[t] = "idle"

(* As long as no client aborts the job, a target archives it as completed  *)
(* only if it failed on no target: the finished acks a Manager counts come *)
(* only from targets whose sort succeeded.  This is about errHandler and   *)
(* the return that follows it in startDSort, when a phase fails on one     *)
(* target while its peers complete.  (A client's abort can still reach one *)
(* target after its sort has succeeded and before it is archived.)         *)
ArchivedAsDoneMeansAllDone ==
    \A t \in Targets :
        mgr[t].state = "persisted" /\ ~mgr[t].aborted =>
            \A u \in Targets : mgr[u].state # "absent" /\ ~mgr[u].aborted

(* When proxyRemoveSortHandler reports success, no target has the job any  *)
(* more: every refusal and every call that failed is in the list of        *)
(* failures the handler builds from the answers to its remove broadcast.   *)
RemoveSuccessMeansGone ==
    reply["remove"].status = StatusOK =>
        \A t \in Targets : mgr[t].state = "absent"

(* The remove broadcast goes out only "once we've checked that all targets *)
(* have run cleanup", as the comment in proxyRemoveSortHandler has it: no  *)
(* target has a Manager of the job that is not archived yet.               *)
RemoveOnlyAfterCleanup ==
    ppc["remove"] = "remove" =>
        \A t \in Targets : mgr[t].state # "live"

(* The assertion of proxyListSortHandler holds: every answer of its        *)
(* broadcast that arrived is a job list, never the text of a refusal.  The *)
(* targets compile the regex of the forwarded query themselves and refuse  *)
(* one that does not compile, so this rests on the proxy turning down, on  *)
(* its own, every query a target would turn down.                          *)
ListAnswersDecode ==
    /\ ppc["list"] # "panic"
    /\ ppc["list"] = "list" => undecodable(bc["list"].resp) \subseteq bc["list"].todo

(* Every handler of the proxy answers its client: none ends in a panic.    *)
ProxyHandlersAnswer ==
    \A h \in ProxyHandlers : ppc[h] # "panic"

(* A job that was started ends on every target, unless an abort or a       *)
(* finished-ack was lost on its way: the sort goroutines stop and every    *)
(* Manager that was created is archived or removed, whether the sort       *)
(* succeeds, one of its phases fails, or an init, start or remove call is  *)
(* lost.  The excuse covers every abort that is sent, errHandler's, the    *)
(* client's through the proxy and the proxy's rollback alike: each is sent *)
(* once and its answers are discarded, and TLC shows a job that hangs when *)
(* any of them is lost.  This is about errHandler, the abort and           *)
(* finished-ack broadcasts of startDSort, the rollback of the proxy's      *)
(* start and the handlers that receive them.                               *)
JobEnds ==
    <>[]((\A n \in Notices : faults[n] = 0) =>
            \A t \in Targets : ~Sorting(t) /\ mgr[t].state # "live")

=============================================================================
