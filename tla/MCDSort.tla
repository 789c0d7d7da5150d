------------------------------ MODULE MCDSort ------------------------------
(***************************************************************************)
(* DSort for TLC: the client requests the runs choose from.                *)
(***************************************************************************)
EXTENDS DSort

\* The targets are interchangeable: nothing in the protocol tells them apart.
TargetSymmetry == Permutations(Targets)

Client(method, item, id) ==
    [method |-> method, item |-> item, id |-> id, bad |-> "ok"]

StartJob   == Client("POST", "none", FALSE)
AbortJob   == Client("DELETE", "abort", TRUE)
RemoveJob  == Client("DELETE", "none", TRUE)
GetMetrics == Client("GET", "none", TRUE)
ListJobs   == Client("GET", "none", FALSE)

\* Requests the proxy turns down before it talks to any target.
BadStarts  == {[StartJob EXCEPT !.bad = b] : b \in {"body", "bucket", "internal"}}
BadList    == [ListJobs EXCEPT !.bad = "regex"]
NoSuchPath == Client("DELETE", "other", TRUE)
PutNoItem  == Client("PUT", "none", FALSE)
AbortNoID  == Client("DELETE", "abort", FALSE)

StartOnly      == {StartJob}
StartAbort     == {StartJob, AbortJob, AbortNoID, PutNoItem} \cup BadStarts
StartRemove    == {StartJob, AbortJob, RemoveJob, NoSuchPath}
StartObserve   == {StartJob, GetMetrics, ListJobs, BadList}

=============================================================================
