--------------------------- MODULE MCDSortTarget ---------------------------
(***************************************************************************)
(* DSortTarget for TLC: the targets alone, in an environment that may send *)
(* any request at any time.                                                *)
(***************************************************************************)
EXTENDS DSortTarget

(* What a client that bypasses the proxy, a proxy that retries, or a peer   *)
(* with a stale view of the job could send: the requests that create, run, *)
(* abort and remove a job and a second shards signal, at any moment.  The  *)
(* records, shards and finished-ack requests of the protocol itself come   *)
(* from the targets' own sort goroutines.                                  *)
WellFormed ==
    {RequestOf(k, Stranger) : k \in {"init", "start", "abort", "remove", "shards"}}

\* Requests that one of the checks at the head of a handler refuses, and the
\* two well-formed requests that read a job or acknowledge it for a node
\* that is no peer.
Probes ==
    {[RequestOf("init", Stranger) EXCEPT !.bad = "body"],
     [RequestOf("abort", Stranger) EXCEPT !.method = "GET"],
     [RequestOf("remove", Stranger) EXCEPT !.items = 0],
     [RequestOf("list", Stranger) EXCEPT !.kind = "bogus"],
     [RequestOf("list", Stranger) EXCEPT !.bad = "query"],
     RequestOf("metrics", Stranger),
     RequestOf("finished-ack", Stranger)}

AnyRequest == WellFormed \cup Probes

\* The targets are interchangeable: nothing in the protocol tells them apart.
TargetSymmetry == Permutations(Targets)

=============================================================================
