------------------------------- MODULE AuthN -------------------------------
(***************************************************************************)
(* The AuthN server of src/cmd/authn/server.go: the five path handlers,    *)
(* the handlers they dispatch to by method and by the number of path       *)
(* items, and checkAuthorization.  The user manager behind them (users,    *)
(* roles, clusters, revoked tokens) and the configuration are tables.      *)
(*                                                                         *)
(* A handler reads the secret and the clock once, in checkAuthorization,   *)
(* and calls the manager at most once to change something; a request is    *)
(* one step, taken at the moment of its check.  A request that is refused, *)
(* that only reads, or whose call fails inside the manager leaves every    *)
(* table as it was.                                                        *)
(***************************************************************************)
EXTENDS Naturals, FiniteSets

CONSTANTS
    Names,      \* the names a user, a role or a cluster can have
    Admin,      \* the built-in account, created at deployment time
    AdminPassword,
    Vals,       \* what is stored under a name: a password, an ACL, an alias
    Empty,      \* the empty string, in a body or in place of a header
    Missing,    \* no entry under a name
    Secrets,    \* the values Conf.Secret() can have
    ForgedKey,  \* the key of a token the server never signed
    ExpiresIn,  \* the lifetime of a token
    MaxTime,    \* bound: the clock stops here
    MaxTokens,  \* bound: the number of different tokens logins return
    Shapes      \* the requests clients send, without their tokens

VARIABLES
    users,      \* users[n]: the password of user n, or Missing
    roles,      \* roles[n]: the role named n, or Missing
    clusters,   \* clusters[n]: the cluster registered as n, or Missing
    revoked,    \* the tokens revokeToken was called with
    secret,     \* Conf.Secret()
    now,        \* time.Now()
    issued,     \* every token a login has returned: what clients hold
    writer      \* the Authorization header of the last request that was not
                \* refused

tables == <<users, roles, clusters, secret>>
store  == <<users, roles, clusters, secret, revoked, issued>>
avars  == <<users, roles, clusters, revoked, secret, now, issued, writer>>

-----------------------------------------------------------------------------
(* Tokens and requests *)

\* A token string is what it decrypts to, and the key that decrypts it.
Token == [user : Names \cup {Admin}, admin : BOOLEAN,
          expires : 0..(MaxTime + ExpiresIn), key : Secrets \cup {ForgedKey}]

\* tok.DecryptToken(token, secret) returns no error.
Decrypts(token, key) == token \in Token /\ token.key = key

\* tok.AdminJWT or tok.JWT for user n, signed with the secret of the moment.
IssuedTo(n) == [user |-> n, admin |-> n = Admin,
                expires |-> now + ExpiresIn, key |-> secret]

Paths   == {"users", "tokens", "clusters", "roles", "daemon"}
Methods == {"GET", "POST", "PUT", "DELETE", "PATCH"}

(* A request as the handlers tell requests apart: the items after the     *)
(* registered path and the first of them, the token of the Authorization   *)
(* header, whether the body decodes, and the fields of the body the        *)
(* handlers or the manager read.                                           *)
Request == [path : Paths, method : Methods, items : 0..2, id : Names \cup {Admin},
            auth : Token \cup {Empty}, parses : BOOLEAN,
            name : Names \cup {Admin}, val : Vals \cup {Empty},
            token : Token \cup {Empty}, secret : Secrets]

\* What a client can put where a token goes: one it got from a login, one it
\* made up, or nothing.
Presentable == issued \cup {[IssuedTo(Admin) EXCEPT !.key = ForgedKey], Empty}

Requests ==
    {[r EXCEPT !.auth = a, !.token = IF r.path = "tokens" THEN a ELSE Empty] :
        r \in Shapes, a \in Presentable}

-----------------------------------------------------------------------------
(* The user manager, which is not in src/: what its tables say makes a     *)
(* call fail.                                                              *)

Has(table, n)    == table[n] # Missing
Put(table, n, v) == [table EXCEPT ![n] = v]

addFails(table, n)    == Has(table, n)
updateFails(table, n) == ~Has(table, n)
delFails(table, n)    == ~Has(table, n)

\* "admin is created at deployment time and cannot be modified via API"
BuiltIn(n) == n = Admin

issueTokenFails(n, password) == ~Has(users, n) \/ users[n] # password

-----------------------------------------------------------------------------
(* What the handlers share *)

\* The request is answered and nothing has changed: a handler that only
\* reads, or one that returns early with an error.
ReadOnly == UNCHANGED avars

(* A handler: what makes it return with an error, in the order it checks,  *)
(* the last being the manager's refusal; and what its call to the manager  *)
(* does otherwise.                                                         *)
Handle(req, refused, change) ==
    \/ refused /\ ReadOnly
    \/ ~refused /\ change /\ writer' = req.auth /\ UNCHANGED now

checkRESTItems(req, itemsAfter) == req.items >= itemsAfter

\* As checkAuthorization, without the test of tk.IsAdmin.
checkAuthorizationOfAnyUser(req) ==
    /\ req.auth # Empty
    /\ Decrypts(req.auth, secret)
    /\ req.auth.expires >= now

\* checkAuthorization returns nil: the header has a token, the token
\* decrypts under the secret, has not expired and is an admin's.
checkAuthorization(req) ==
    /\ req.auth # Empty
    /\ Decrypts(req.auth, secret)
    /\ req.auth.expires >= now
    /\ req.auth.admin

MethodNotAllowed == ReadOnly        \* cmn.WriteErr405

-----------------------------------------------------------------------------
(* /v1/tokens *)

\* As httpRevokeToken, without the call of DecryptToken.
httpRevokeTokenUndecrypted(req) ==
    Handle(req, ~checkRESTItems(req, 0) \/ ~req.parses \/ req.token = Empty,
                revoked' = revoked \cup {req.token} /\ UNCHANGED <<tables, issued>>)

\* No authorization: whoever has a token the server signed can revoke it.
httpRevokeToken(req) ==
    Handle(req, \/ ~checkRESTItems(req, 0)
                \/ ~req.parses
                \/ req.token = Empty
                \/ ~Decrypts(req.token, secret),
                revoked' = revoked \cup {req.token} /\ UNCHANGED <<tables, issued>>)

tokenHandler(req) ==
    \/ req.method = "DELETE" /\ httpRevokeToken(req)
    \/ req.method # "DELETE" /\ MethodNotAllowed

-----------------------------------------------------------------------------
(* /v1/users *)

OnlyUsers(change) == change /\ UNCHANGED <<roles, clusters, secret, revoked, issued>>

httpUserDel(req) ==
    Handle(req, \/ ~checkRESTItems(req, 1)
                \/ ~checkAuthorization(req)
                \/ delFails(users, req.id) \/ BuiltIn(req.id),
                OnlyUsers(users' = Put(users, req.id, Missing)))

userAdd(req) ==
    Handle(req, \/ ~checkAuthorization(req)
                \/ ~req.parses
                \/ addFails(users, req.name),
                OnlyUsers(users' = Put(users, req.name, req.val)))

\* The answer is the token: a client holds it from now on.  (issueToken may
\* answer with a token it issued before: then nothing is new.)
userLogin(req) ==
    Handle(req, \/ ~checkRESTItems(req, 1)
                \/ ~req.parses
                \/ req.val = Empty
                \/ issueTokenFails(req.id, req.val),
                /\ issued' = issued \cup {IssuedTo(req.id)}
                /\ Cardinality(issued') <= MaxTokens
                /\ UNCHANGED <<tables, revoked>>)

\* A POST with no item after /v1/users adds a user, one with an item logs in.
httpUserPost(req) ==
    \/ checkRESTItems(req, 0) /\ req.items = 0 /\ userAdd(req)
    \/ checkRESTItems(req, 0) /\ req.items # 0 /\ userLogin(req)

httpUserPut(req) ==
    Handle(req, \/ ~checkRESTItems(req, 1)
                \/ ~checkAuthorization(req)
                \/ ~req.parses
                \/ updateFails(users, req.id) \/ BuiltIn(req.id),
                OnlyUsers(users' = Put(users, req.id, req.val)))

\* userList, or lookupUser and then clusterList; no authorization.
httpUserGet(req) == ReadOnly

userHandler(req) ==
    \/ req.method = "DELETE" /\ httpUserDel(req)
    \/ req.method = "POST"   /\ httpUserPost(req)
    \/ req.method = "PUT"    /\ httpUserPut(req)
    \/ req.method = "GET"    /\ httpUserGet(req)
    \/ req.method = "PATCH"  /\ MethodNotAllowed

-----------------------------------------------------------------------------
(* /v1/clusters *)

OnlyClusters(change) == change /\ UNCHANGED <<users, roles, secret, revoked, issued>>

httpSrvPost(req) ==
    Handle(req, \/ ~checkRESTItems(req, 0)
                \/ ~checkAuthorization(req)
                \/ ~req.parses
                \/ addFails(clusters, req.name),
                OnlyClusters(clusters' = Put(clusters, req.name, req.val)))

httpSrvPut(req) ==
    Handle(req, \/ ~checkRESTItems(req, 1)
                \/ ~checkAuthorization(req)
                \/ ~req.parses
                \/ updateFails(clusters, req.id),
                OnlyClusters(clusters' = Put(clusters, req.id, req.val)))

\* The authorization is checked before the path is.
httpSrvDelete(req) ==
    Handle(req, \/ ~checkRESTItems(req, 0)
                \/ ~checkAuthorization(req)
                \/ req.items = 0
                \/ delFails(clusters, req.id),
                OnlyClusters(clusters' = Put(clusters, req.id, Missing)))

\* getCluster, or clusterList; no authorization.
httpSrvGet(req) == ReadOnly

clusterHandler(req) ==
    \/ req.method = "GET"    /\ httpSrvGet(req)
    \/ req.method = "POST"   /\ httpSrvPost(req)
    \/ req.method = "PUT"    /\ httpSrvPut(req)
    \/ req.method = "DELETE" /\ httpSrvDelete(req)
    \/ req.method = "PATCH"  /\ MethodNotAllowed

-----------------------------------------------------------------------------
(* /v1/roles *)

OnlyRoles(change) == change /\ UNCHANGED <<users, clusters, secret, revoked, issued>>

\* roleList, or lookupRole and then clusterList; no authorization.
httpRoleGet(req) == ReadOnly

httpRoleDel(req) ==
    Handle(req, \/ ~checkRESTItems(req, 1)
                \/ ~checkAuthorization(req)
                \/ delFails(roles, req.id),
                OnlyRoles(roles' = Put(roles, req.id, Missing)))

httpRolePost(req) ==
    Handle(req, \/ ~checkRESTItems(req, 0)
                \/ ~checkAuthorization(req)
                \/ ~req.parses
                \/ addFails(roles, req.name),
                OnlyRoles(roles' = Put(roles, req.name, req.val)))

httpRolePut(req) ==
    Handle(req, \/ ~checkRESTItems(req, 1)
                \/ ~checkAuthorization(req)
                \/ ~req.parses
                \/ updateFails(roles, req.id),
                OnlyRoles(roles' = Put(roles, req.id, req.val)))

roleHandler(req) ==
    \/ req.method = "POST"   /\ httpRolePost(req)
    \/ req.method = "PUT"    /\ httpRolePut(req)
    \/ req.method = "DELETE" /\ httpRoleDel(req)
    \/ req.method = "GET"    /\ httpRoleGet(req)
    \/ req.method = "PATCH"  /\ MethodNotAllowed

-----------------------------------------------------------------------------
(* /v1/daemon *)

\* checkAuthorization, then the configuration is written to the answer.
httpConfigGet(req) == ReadOnly

\* Conf.ApplyUpdate: the secret of every later DecryptToken is the new one.
\* ApplyUpdate may refuse the update; what it refuses is decided outside the
\* sources, and a refused update is taken to change nothing.
httpConfigPut(req) ==
    \E applyUpdateFails \in BOOLEAN :
        Handle(req, ~checkAuthorization(req) \/ ~req.parses \/ applyUpdateFails,
                    secret' = req.secret /\ UNCHANGED <<users, roles, clusters, revoked, issued>>)

configHandler(req) ==
    \/ req.method = "GET" /\ httpConfigGet(req)
    \/ req.method = "PUT" /\ httpConfigPut(req)
    \/ req.method \notin {"GET", "PUT"} /\ MethodNotAllowed

-----------------------------------------------------------------------------
(* The server *)

\* registerPublicHandlers: the handler of each path.
Mux(req) ==
    \/ req.path = "users"    /\ userHandler(req)
    \/ req.path = "tokens"   /\ tokenHandler(req)
    \/ req.path = "clusters" /\ clusterHandler(req)
    \/ req.path = "roles"    /\ roleHandler(req)
    \/ req.path = "daemon"   /\ configHandler(req)

Tick ==
    /\ now < MaxTime
    /\ now' = now + 1
    /\ UNCHANGED <<store, writer>>

AuthNInit ==
    /\ users    = [n \in Names \cup {Admin} |->
                      IF n = Admin THEN AdminPassword ELSE Missing]
    /\ roles    = [n \in Names \cup {Admin} |-> Missing]
    /\ clusters = [n \in Names \cup {Admin} |-> Missing]
    /\ revoked  = {}
    /\ secret \in Secrets
    /\ now      = 0
    /\ issued   = {}
    /\ writer   = Empty

AuthNNext == Tick \/ \E req \in Requests : Mux(req)

AuthNSpec == AuthNInit /\ [][AuthNNext]_avars

-----------------------------------------------------------------------------

Stored == Vals \cup {Empty, Missing}

\* Every variable has its type; the tokens clients hold are tokens the server
\* signed, and a token gets into the revoked list only if it is one of them:
\* httpRevokeToken decrypts what it is given before it calls revokeToken.
AuthNTypeOK ==
    /\ users \in [Names \cup {Admin} -> Stored]
    /\ roles \in [Names \cup {Admin} -> Stored]
    /\ clusters \in [Names \cup {Admin} -> Stored]
    /\ secret \in Secrets
    /\ now \in 0..MaxTime
    /\ issued \subseteq {t \in Token : t.key \in Secrets /\ (t.admin <=> BuiltIn(t.user))}
    /\ revoked \subseteq issued
    /\ writer \in Token \cup {Empty}

\* An admin's token, good at this moment.
GoodAdminToken(t) ==
    t \in issued /\ t.admin /\ t.key = secret /\ t.expires >= now

(* Nothing changes a user, a role, a cluster or the configuration but a    *)
(* request that carries a token issued to the admin, signed with the       *)
(* secret of the moment and not expired.  This is about checkAuthorization *)
(* being called by each of the ten handlers that change something, about   *)
(* httpUserPost, which takes a POST for a login or for a new user by the   *)
(* number of path items alone, and about tokens that outlive the secret    *)
(* (httpConfigPut) or their time.                                          *)
ChangesNeedAdmin ==
    [][tables' # tables => GoodAdminToken(writer')]_avars

=============================================================================
