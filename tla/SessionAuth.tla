----------------------------- MODULE SessionAuth -----------------------------
(***************************************************************************)
(* User sessions and API keys: the tokens (auth/access_token.rs,           *)
(* auth/user_session.rs), the user store (auth/user_store.rs), the layers  *)
(* that check, renew and authorize a session or a key (http/hypermedia/    *)
(* middleware, http/json_api/middleware) and the login, logout and api key *)
(* routes.                                                                 *)
(*                                                                         *)
(* A token is self-contained and the server keeps none, so what it grants  *)
(* is decided when it is issued.  A request is one step: it lasts seconds, *)
(* a unit of time here is a day.  A permission mask is a set of flags; a   *)
(* token that does not verify is the same as none.                         *)
(***************************************************************************)
EXTENDS Integers

CONSTANTS
    Users, Perms,   \* user names and permission flags
    Browsers,       \* cookie jars
    Programs,       \* clients of the data API
    SessionLen,     \* AUTH_COOKIE_DURATION
    RenewLen,       \* AUTH_COOKIE_RENEW
    KeyLen,         \* longest lifetime asked for an API key
    MaxTime         \* bound on the clock

ASSUME AuthAssumption ==
    /\ RenewLen \in Nat /\ SessionLen \in Nat /\ RenewLen < SessionLen
    /\ KeyLen \in Nat \ {0} /\ MaxTime \in Nat

VARIABLES
    now,      \* wall clock
    known,    \* users of the users file the server was started with
    store,    \* their permissions
    cookie,   \* the session each browser holds, a set of at most one token
    keys,     \* the API key each program holds, a set of at most one token
    visit,    \* when each browser last came through the renewal layer, or -1
    held,     \* when a user last had a permission before it was taken away, or -1
    last      \* the last operation that was let through (history)

vars == <<now, known, store, cookie, keys, visit, held, last>>

Time == 0..MaxTime

(* AccessToken, with the name of UserSession.  For an API key the name is  *)
(* that of the issuer, which the code does not keep (history).             *)
Token == [user : Users, perms : SUBSET Perms, from : Time, until : Nat]

Used == [by : {"none", "session", "key"}, age : Int]

Init ==
    /\ now = 0
    /\ known \in SUBSET Users
    /\ store \in [Users -> SUBSET Perms]
    /\ cookie = [b \in Browsers |-> {}]
    /\ keys = [c \in Programs |-> {}]
    /\ visit = [b \in Browsers |-> -1]
    /\ held = [u \in Users |-> [p \in Perms |-> -1]]
    /\ last = [by |-> "none", age |-> 0]

(* AccessToken::is_active *)
IsActive(t) == now >= t.from /\ now < t.until

(* extract_user_session: the cookie verifies, is active, its user exists. *)
Accepted(t) == IsActive(t) /\ t.user \in known

(* AccessTokenBuilder::build *)
Issue(u, P, d) == [user |-> u, perms |-> P, from |-> now, until |-> now + d]

(* login_user and renew_session: a token with what the user may do now. *)
NewSession(u) == Issue(u, store[u], SessionLen)

(* Faulty variant: renewed only after the window has passed. *)
RenewedLate(t) == IF t.until - now < RenewLen THEN NewSession(t.user) ELSE t

(* RenewSessionLayer: ttl() <= renew_duration. *)
Renewed(t) == IF t.until - now <= RenewLen THEN NewSession(t.user) ELSE t

(* How long ago u last had p. *)
Age(u, p) == IF u \in known /\ p \in store[u] THEN 0 ELSE now - held[u][p]

-----------------------------------------------------------------------------
(* POST /login with the right password. *)
Login(b, u) ==
    /\ u \in known
    /\ cookie' = [cookie EXCEPT ![b] = {NewSession(u)}]
    /\ visit' = [visit EXCEPT ![b] = -1]
    /\ UNCHANGED <<now, known, store, keys, held, last>>

(* POST /logout: an expired cookie replaces the one the browser has. *)
Logout(b) ==
    /\ \E t \in cookie[b] : Accepted(t)
    /\ cookie' = [cookie EXCEPT ![b] = {}]
    /\ visit' = [visit EXCEPT ![b] = -1]
    /\ UNCHANGED <<now, known, store, keys, held, last>>

(* A page behind UserAuthLayer and RenewSessionLayer. *)
Page(b) ==
    \E t \in cookie[b] :
        /\ Accepted(t)
        /\ cookie' = [cookie EXCEPT ![b] = {Renewed(t)}]
        /\ visit' = [visit EXCEPT ![b] = now]
        /\ UNCHANGED <<now, known, store, keys, held, last>>

(* Faulty variant: authorized before the renewal. *)
OperateStale(b, p) ==
    \E t \in cookie[b] :
        /\ Accepted(t)
        /\ cookie' = [cookie EXCEPT ![b] = {Renewed(t)}]
        /\ visit' = [visit EXCEPT ![b] = now]
        /\ last' = IF p \in t.perms THEN [by |-> "session", age |-> Age(t.user, p)] ELSE last
        /\ UNCHANGED <<now, known, store, keys, held>>

(* A route with AuthorizeUserLayer, which is inside of the other two and   *)
(* sees the session as it was renewed.                                     *)
Operate(b, p) ==
    \E t \in cookie[b] :
        /\ Accepted(t)
        /\ cookie' = [cookie EXCEPT ![b] = {Renewed(t)}]
        /\ visit' = [visit EXCEPT ![b] = now]
        /\ last' = IF p \in Renewed(t).perms
                   THEN [by |-> "session", age |-> Age(t.user, p)] ELSE last
        /\ UNCHANGED <<now, known, store, keys, held>>

(* Faulty variant: the permissions asked for are not compared. *)
CreateKeyAny(b, c, P, d) ==
    \E t \in cookie[b] :
        /\ Accepted(t)
        /\ keys' = [keys EXCEPT ![c] = {Issue(t.user, P, d)}]
        /\ UNCHANGED <<now, known, store, cookie, visit, held, last>>

(* POST /api-keys, which does not go through the renewal layer.  The       *)
(* lifetime is given in milliseconds and cut to seconds, so it can be 0.   *)
CreateKey(b, c, P, d) ==
    \E t \in cookie[b] :
        /\ Accepted(t)
        /\ P \subseteq t.perms
        /\ keys' = [keys EXCEPT ![c] = {Issue(t.user, P, d)}]
        /\ UNCHANGED <<now, known, store, cookie, visit, held, last>>

(* A data API route with ApiAuthLayer and AuthorizeApiLayer. *)
ApiCall(c, p) ==
    \E k \in keys[c] :
        /\ IsActive(k) /\ p \in k.perms
        /\ last' = [by |-> "key", age |-> Age(k.user, p)]
        /\ UNCHANGED <<now, known, store, cookie, keys, visit, held>>

Tick ==
    /\ now < MaxTime
    /\ now' = now + 1
    /\ UNCHANGED <<known, store, cookie, keys, visit, held, last>>

(* The server is started again with another users file, and with the same  *)
(* server key or a new one, under which no old token verifies.             *)
Restart(K, S, rekey) ==
    /\ known' = K
    /\ store' = S
    /\ held' = [u \in Users |-> [p \in Perms |->
                    IF u \in known /\ p \in store[u] THEN now ELSE held[u][p]]]
    /\ cookie' = IF rekey THEN [b \in Browsers |-> {}] ELSE cookie
    /\ keys' = IF rekey THEN [c \in Programs |-> {}] ELSE keys
    /\ visit' = [b \in Browsers |->
                    IF rekey \/ \E t \in cookie[b] : t.user \notin K THEN -1 ELSE visit[b]]
    /\ UNCHANGED <<now, last>>

Next ==
    \/ Tick
    \/ \E K \in SUBSET Users, S \in [Users -> SUBSET Perms], rekey \in BOOLEAN :
          Restart(K, S, rekey)
    \/ \E b \in Browsers :
          \/ \E u \in Users : Login(b, u)
          \/ Logout(b) \/ Page(b)
          \/ \E p \in Perms : Operate(b, p)
          \/ \E c \in Programs, P \in SUBSET Perms, d \in 0..KeyLen : CreateKey(b, c, P, d)
    \/ \E c \in Programs, p \in Perms : ApiCall(c, p)

Spec == Init /\ [][Next]_vars
-----------------------------------------------------------------------------
(* Every variable has its type; a browser holds one session at most. *)
TypeOK ==
    /\ now \in Time
    /\ known \in SUBSET Users
    /\ store \in [Users -> SUBSET Perms]
    /\ cookie \in [Browsers -> SUBSET Token]
    /\ keys \in [Programs -> SUBSET Token]
    /\ visit \in [Browsers -> Time \cup {-1}]
    /\ held \in [Users -> [Perms -> Time \cup {-1}]]
    /\ last \in Used
    /\ \A b \in Browsers : \A t, v \in cookie[b] : t = v

(* A permission that is taken from a user in the users file is honoured    *)
(* for a bounded time: a session that gets through was issued within       *)
(* SessionLen - RenewLen, since an older one is renewed before it is       *)
(* authorized.                                                             *)
RevokedInTime == last.by = "session" => last.age < SessionLen - RenewLen

(* An API key is no more than what the session that issued it was good     *)
(* for, and outlives it by less than its own lifetime.                     *)
KeyInTime == last.by = "key" => last.age < SessionLen + KeyLen - 1

(* A user who comes back within RenewLen is still logged in: the renewal   *)
(* layer leaves no session with less than that.                            *)
StaysLoggedIn ==
    \A b \in Browsers :
        visit[b] >= 0 /\ now - visit[b] <= RenewLen => \E t \in cookie[b] : Accepted(t)

(* Why both hold: what a token grants its user had when it was   *)
(* issued, or, for a key, within the life of a session before.             *)
Granted ==
    /\ \A b \in Browsers : \A t \in cookie[b] :
          /\ t.from <= now /\ t.until = t.from + SessionLen
          /\ \A p \in t.perms : Age(t.user, p) <= now - t.from
    /\ \A c \in Programs : \A k \in keys[c] :
          /\ k.from <= now /\ k.until <= k.from + KeyLen
          /\ \A p \in k.perms : Age(k.user, p) <= now - k.from + SessionLen - 1

(* Why StaysLoggedIn holds. *)
VisitFresh ==
    \A b \in Browsers : visit[b] >= 0 =>
        visit[b] <= now /\ \E t \in cookie[b] : t.user \in known /\ t.until > visit[b] + RenewLen
=============================================================================
