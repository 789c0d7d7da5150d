------------------------------ MODULE MCAuthN ------------------------------
(***************************************************************************)
(* AuthN for TLC: the requests clients send.                               *)
(***************************************************************************)
EXTENDS AuthN

CONSTANTS n1, v1, v2, s1, s2

OneName    == {n1}
TwoVals    == {v1, v2}
TwoSecrets == {s1, s2}

\* A GET of /v1/users with nothing in it; the other requests differ from it
\* in the fields their handlers read.
Plain == [path |-> "users", method |-> "GET", items |-> 0, id |-> n1,
          auth |-> Empty, parses |-> TRUE, name |-> n1, val |-> v1,
          token |-> Empty, secret |-> s1]

Route(path, method, items) ==
    [Plain EXCEPT !.path = path, !.method = method, !.items = items]

\* The methods and the numbers of path items that reach every handler and
\* every branch of its dispatch.
Routes ==
    {Route(p, m, i) : p \in {"users", "roles", "clusters"},
                      m \in {"GET", "POST", "PUT", "DELETE"}, i \in 0..1}
    \cup {Route("users", "GET", 2), Route("roles", "GET", 2)}
    \cup {Route(p, "PATCH", 0) : p \in Paths}
    \cup {Route("tokens", m, 0) : m \in {"DELETE", "GET"}}
    \cup {Route("daemon", m, 0) : m \in {"GET", "PUT"}}

ChangesSomething(r) == r.method \in {"POST", "PUT", "DELETE"}

\* The requests to /v1/users name the user or the admin, and give one of the
\* two passwords, or none where a login may.
OfUsers ==
    {[r EXCEPT !.id = d, !.val = v] :
        r \in {q \in Routes : q.path = "users" /\ ChangesSomething(q)},
        d \in {n1, Admin}, v \in {v1, v2}}
    \cup {[Route("users", "POST", 1) EXCEPT !.val = Empty]}

\* A PUT of /v1/daemon sets one of the two secrets.
OfConfig == {[Route("daemon", "PUT", 0) EXCEPT !.secret = k] : k \in TwoSecrets}

\* The requests with a body, also with a body that does not decode.
Undecodable == {[r EXCEPT !.parses = FALSE] : r \in {q \in Routes : ChangesSomething(q)}}

AllShapes == Routes \cup OfUsers \cup OfConfig \cup Undecodable

=============================================================================
