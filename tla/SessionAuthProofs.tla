-------------------------- MODULE SessionAuthProofs --------------------------
(* Theorems about SessionAuth, for any users, permissions and durations.    *)
EXTENDS SessionAuth, TLAPS

(* The inductive invariant. *)
AuthInv == TypeOK /\ Granted /\ VisitFresh /\ RevokedInTime /\ KeyInTime

(* A token issued now is a token. *)
LEMMA IssueType ==
    ASSUME TypeOK, NEW u \in Users, NEW P \in SUBSET Perms, NEW d \in Nat
    PROVE  Issue(u, P, d) \in Token
BY DEF TypeOK, Issue, Token, Time

(* What is renewed is a token of the same user, with more than RenewLen to *)
(* go, that was there before or has the user's permissions of now.         *)
LEMMA RenewedFacts ==
    ASSUME TypeOK, NEW b \in Browsers, NEW t \in cookie[b]
    PROVE  /\ t \in Token /\ Renewed(t) \in Token
           /\ Renewed(t).user = t.user
           /\ Renewed(t).until > now + RenewLen
           /\ \/ Renewed(t) = t
              \/ Renewed(t) = [user |-> t.user, perms |-> store[t.user], from |-> now,
                               until |-> now + SessionLen]
<1>1. t \in Token
  BY DEF TypeOK
<1>2. t.user \in Users /\ store[t.user] \in SUBSET Perms /\ t.until \in Nat /\ now \in Nat
  BY <1>1 DEF TypeOK, Token, Time
<1>3. NewSession(t.user) \in Token
  BY <1>2, IssueType, AuthAssumption DEF NewSession
<1>4. CASE t.until - now <= RenewLen
  BY <1>1, <1>2, <1>3, <1>4, AuthAssumption DEF Renewed, NewSession, Issue
<1>5. CASE ~(t.until - now <= RenewLen)
  BY <1>1, <1>2, <1>5, AuthAssumption DEF Renewed
<1> QED
  BY <1>4, <1>5

LEMMA InitAuth == Init => AuthInv
BY AuthAssumption DEF Init, AuthInv, TypeOK, Granted, VisitFresh, RevokedInTime, KeyInTime, Used, Token, Time

(* The types are kept by every step. *)
LEMMA NextType == AuthInv /\ [Next]_vars => TypeOK'
<1> SUFFICES ASSUME TypeOK, [Next]_vars PROVE TypeOK'
  BY DEF AuthInv
<1> USE AuthAssumption
<1>1. CASE Tick
  BY <1>1 DEF Tick, TypeOK, Time, Token
<1>2. ASSUME NEW K \in SUBSET Users, NEW S \in [Users -> SUBSET Perms], NEW rekey \in BOOLEAN,
             Restart(K, S, rekey)
      PROVE  TypeOK'
  <2>1. held' \in [Users -> [Perms -> Time \cup {-1}]]
    BY <1>2 DEF Restart, TypeOK
  <2>2. visit' \in [Browsers -> Time \cup {-1}]
    BY <1>2 DEF Restart, TypeOK
  <2>3. /\ cookie' \in [Browsers -> SUBSET Token] /\ keys' \in [Programs -> SUBSET Token]
        /\ \A b \in Browsers : \A t, v \in cookie'[b] : t = v
    BY <1>2 DEF Restart, TypeOK
  <2> QED
    BY <1>2, <2>1, <2>2, <2>3 DEF Restart, TypeOK
<1>3. ASSUME NEW b \in Browsers, NEW u \in Users, Login(b, u) PROVE TypeOK'
  <2>1. NewSession(u) \in Token
    BY IssueType DEF NewSession, TypeOK
  <2> QED
    BY <1>3, <2>1 DEF Login, TypeOK
<1>4. ASSUME NEW b \in Browsers, Logout(b) PROVE TypeOK'
  BY <1>4 DEF Logout, TypeOK
<1>5. ASSUME NEW b \in Browsers, Page(b) PROVE TypeOK'
  <2>1. PICK t \in cookie[b] : cookie' = [cookie EXCEPT ![b] = {Renewed(t)}]
    BY <1>5 DEF Page
  <2>2. Renewed(t) \in Token
    BY RenewedFacts
  <2> QED
    BY <1>5, <2>1, <2>2 DEF Page, TypeOK
<1>6. ASSUME NEW b \in Browsers, NEW p \in Perms, Operate(b, p) PROVE TypeOK'
  <2>1. PICK t \in cookie[b] :
           /\ cookie' = [cookie EXCEPT ![b] = {Renewed(t)}]
           /\ last' = IF p \in Renewed(t).perms
                      THEN [by |-> "session", age |-> Age(t.user, p)] ELSE last
    BY <1>6 DEF Operate
  <2>2. Renewed(t) \in Token /\ t.user \in Users
    BY RenewedFacts DEF Token
  <2>3. Age(t.user, p) \in Int
    BY <2>2 DEF Age, TypeOK, Time
  <2>4. last' \in Used
    BY <2>1, <2>3 DEF Used, TypeOK
  <2> QED
    BY <1>6, <2>1, <2>2, <2>4 DEF Operate, TypeOK
<1>7. ASSUME NEW b \in Browsers, NEW c \in Programs, NEW P \in SUBSET Perms, NEW d \in 0..KeyLen,
             CreateKey(b, c, P, d)
      PROVE  TypeOK'
  <2>1. PICK t \in cookie[b] : keys' = [keys EXCEPT ![c] = {Issue(t.user, P, d)}]
    BY <1>7 DEF CreateKey
  <2>2. Issue(t.user, P, d) \in Token
    BY RenewedFacts, IssueType, SMTT(30) DEF Token
  <2> QED
    BY <1>7, <2>1, <2>2 DEF CreateKey, TypeOK
<1>8. ASSUME NEW c \in Programs, NEW p \in Perms, ApiCall(c, p) PROVE TypeOK'
  <2>1. PICK k \in keys[c] : last' = [by |-> "key", age |-> Age(k.user, p)]
    BY <1>8 DEF ApiCall
  <2>2. Age(k.user, p) \in Int
    BY DEF Age, TypeOK, Time, Token
  <2> QED
    BY <1>8, <2>1, <2>2 DEF ApiCall, TypeOK, Used
<1>9. CASE UNCHANGED vars
  BY <1>9 DEF vars, TypeOK
<1> QED
  BY <1>1, <1>2, <1>3, <1>4, <1>5, <1>6, <1>7, <1>8, <1>9 DEF Next

-----------------------------------------------------------------------------
(* A restart does not make the last time a user had a permission earlier.   *)
LEMMA RestartAge ==
    ASSUME TypeOK, NEW K \in SUBSET Users, NEW S \in [Users -> SUBSET Perms],
           NEW rekey \in BOOLEAN, Restart(K, S, rekey),
           NEW u \in Users, NEW p \in Perms, NEW n \in Nat, Age(u, p) <= n
    PROVE  Age(u, p)' <= n
<1>1. held'[u][p] = IF u \in known /\ p \in store[u] THEN now ELSE held[u][p]
  BY DEF Restart
<1>2. now' = now /\ now \in Nat /\ held[u][p] \in Int
  BY DEF Restart, TypeOK, Time
<1> QED
  BY <1>1, <1>2 DEF Age

(* What tokens grant stays true when every token is an old one or grants    *)
(* what Granted allows, and neither users nor clock change.                 *)
LEMMA GrantedKept ==
    ASSUME TypeOK, Granted, UNCHANGED <<now, known, store, held>>,
           \A b \in Browsers : \A t \in cookie'[b] :
              \/ t \in cookie[b]
              \/ /\ t.from <= now /\ t.until = t.from + SessionLen
                 /\ \A p \in t.perms : Age(t.user, p) <= now - t.from,
           \A c \in Programs : \A k \in keys'[c] :
              \/ k \in keys[c]
              \/ /\ k.from <= now /\ k.until <= k.from + KeyLen
                 /\ \A p \in k.perms : Age(k.user, p) <= now - k.from + SessionLen - 1
    PROVE  Granted'
<1>1. \A u, p : Age(u, p)' = Age(u, p)
  BY DEF Age
<1> QED
  BY <1>1 DEF Granted

(* A session that is issued now is what Granted allows. *)
LEMMA FreshGrant ==
    ASSUME TypeOK, NEW u \in Users, u \in known, NEW t,
           t = [user |-> u, perms |-> store[u], from |-> now, until |-> now + SessionLen]
    PROVE  /\ t.from <= now /\ t.until = t.from + SessionLen
           /\ \A p \in t.perms : Age(t.user, p) <= now - t.from
BY AuthAssumption DEF TypeOK, Time, Age

LEMMA NextGranted == AuthInv /\ [Next]_vars => Granted'
<1> SUFFICES ASSUME TypeOK, Granted, [Next]_vars PROVE Granted'
  BY DEF AuthInv
<1> USE AuthAssumption
<1>1. CASE Tick
  <2>1. /\ now' = now + 1 /\ now \in Nat /\ cookie' = cookie /\ keys' = keys
        /\ known' = known /\ store' = store /\ held' = held
    BY <1>1 DEF Tick, TypeOK, Time
  <2>2. ASSUME NEW u \in Users, NEW p \in Perms
        PROVE  Age(u, p) \in Int /\ (Age(u, p)' = Age(u, p) \/ Age(u, p)' = Age(u, p) + 1)
    BY <2>1 DEF Age, TypeOK, Time
  <2>3. ASSUME NEW b \in Browsers, NEW t \in cookie[b]
        PROVE  /\ t.from <= now' /\ t.until = t.from + SessionLen
               /\ \A p \in t.perms : Age(t.user, p)' <= now' - t.from
    <3>1. t \in Token /\ t.user \in Users /\ t.perms \subseteq Perms /\ t.from \in Nat
      BY DEF TypeOK, Token, Time
    <3>2. t.from <= now /\ t.until = t.from + SessionLen /\ \A p \in t.perms : Age(t.user, p) <= now - t.from
      BY DEF Granted
    <3> QED
      BY <2>1, <2>2, <3>1, <3>2
  <2>4. ASSUME NEW c \in Programs, NEW k \in keys[c]
        PROVE  /\ k.from <= now' /\ k.until <= k.from + KeyLen
               /\ \A p \in k.perms : Age(k.user, p)' <= now' - k.from + SessionLen - 1
    <3>1. k \in Token /\ k.user \in Users /\ k.perms \subseteq Perms /\ k.from \in Nat
      BY DEF TypeOK, Token, Time
    <3>2. /\ k.from <= now /\ k.until <= k.from + KeyLen
          /\ \A p \in k.perms : Age(k.user, p) <= now - k.from + SessionLen - 1
      BY DEF Granted
    <3> QED
      BY <2>1, <2>2, <3>1, <3>2
  <2> QED
    BY <2>1, <2>3, <2>4 DEF Granted
<1>2. ASSUME NEW K \in SUBSET Users, NEW S \in [Users -> SUBSET Perms], NEW rekey \in BOOLEAN,
             Restart(K, S, rekey)
      PROVE  Granted'
  <2>1. /\ now' = now /\ now \in Nat
        /\ \A b \in Browsers : cookie'[b] \subseteq cookie[b]
        /\ \A c \in Programs : keys'[c] \subseteq keys[c]
    BY <1>2 DEF Restart, TypeOK, Time
  <2>2. ASSUME NEW b \in Browsers, NEW t \in cookie[b]
        PROVE  /\ t.from <= now' /\ t.until = t.from + SessionLen
               /\ \A p \in t.perms : Age(t.user, p)' <= now' - t.from
    <3>1. t \in Token /\ t.user \in Users /\ t.perms \subseteq Perms /\ t.from \in Nat
      BY DEF TypeOK, Token, Time
    <3>2. t.from <= now /\ t.until = t.from + SessionLen /\ \A p \in t.perms : Age(t.user, p) <= now - t.from
      BY DEF Granted
    <3>3. now - t.from \in Nat
      BY <2>1, <3>1, <3>2
    <3> QED
      BY <1>2, <2>1, <3>1, <3>2, <3>3, RestartAge
  <2>3. ASSUME NEW c \in Programs, NEW k \in keys[c]
        PROVE  /\ k.from <= now' /\ k.until <= k.from + KeyLen
               /\ \A p \in k.perms : Age(k.user, p)' <= now' - k.from + SessionLen - 1
    <3>1. k \in Token /\ k.user \in Users /\ k.perms \subseteq Perms /\ k.from \in Nat
      BY DEF TypeOK, Token, Time
    <3>2. /\ k.from <= now /\ k.until <= k.from + KeyLen
          /\ \A p \in k.perms : Age(k.user, p) <= now - k.from + SessionLen - 1
      BY DEF Granted
    <3>3. now - k.from + SessionLen - 1 \in Nat
      BY <2>1, <3>1, <3>2
    <3> QED
      BY <1>2, <2>1, <3>1, <3>2, <3>3, RestartAge
  <2> QED
    BY <2>1, <2>2, <2>3 DEF Granted
<1>3. ASSUME NEW b \in Browsers, NEW u \in Users, Login(b, u) PROVE Granted'
  <2>1. u \in known /\ NewSession(u) = [user |-> u, perms |-> store[u], from |-> now, until |-> now + SessionLen]
    BY <1>3 DEF Login, NewSession, Issue
  <2>2. \A a \in Browsers : \A t \in cookie'[a] : t \in cookie[a] \/ t = NewSession(u)
    BY <1>3 DEF Login, TypeOK
  <2>3. keys' = keys /\ UNCHANGED <<now, known, store, held>>
    BY <1>3 DEF Login
  <2> QED
    BY <2>1, <2>2, <2>3, FreshGrant, GrantedKept
<1>4. ASSUME NEW b \in Browsers, Logout(b) PROVE Granted'
  <2>1. \A a \in Browsers : cookie'[a] \subseteq cookie[a]
    BY <1>4 DEF Logout, TypeOK
  <2> QED
    BY <1>4, <2>1, GrantedKept DEF Logout
<1>5. ASSUME NEW b \in Browsers, NEW t \in cookie[b], Accepted(t),
             cookie' = [cookie EXCEPT ![b] = {Renewed(t)}],
             UNCHANGED <<now, known, store, keys, held>>
      PROVE  Granted'
  <2>1. t.user \in known /\ t.user \in Users
    BY <1>5, RenewedFacts DEF Accepted, Token
  <2>2. \A a \in Browsers : \A v \in cookie'[a] : v \in cookie[a] \/ v = Renewed(t)
    BY <1>5 DEF TypeOK
  <2>3. CASE Renewed(t) = t
    BY <1>5, <2>2, <2>3, GrantedKept
  <2>4. CASE Renewed(t) = [user |-> t.user, perms |-> store[t.user], from |-> now,
                           until |-> now + SessionLen]
    BY <1>5, <2>1, <2>2, <2>4, FreshGrant, GrantedKept
  <2> QED
    BY <2>3, <2>4, RenewedFacts
<1>6. ASSUME NEW b \in Browsers, NEW c \in Programs, NEW P \in SUBSET Perms, NEW d \in 0..KeyLen,
             CreateKey(b, c, P, d)
      PROVE  Granted'
  <2>1. PICK t \in cookie[b] : /\ Accepted(t) /\ P \subseteq t.perms
                               /\ keys' = [keys EXCEPT ![c] = {Issue(t.user, P, d)}]
    BY <1>6 DEF CreateKey
  <2> DEFINE n == Issue(t.user, P, d)
  <2>2. n = [user |-> t.user, perms |-> P, from |-> now, until |-> now + d]
    BY DEF Issue
  <2>3. /\ now \in Nat /\ t \in Token /\ t.user \in Users /\ t.from \in Nat /\ t.until \in Nat
        /\ now < t.until /\ t.from <= now /\ t.until = t.from + SessionLen
        /\ \A p \in t.perms : Age(t.user, p) <= now - t.from
    BY <2>1 DEF Accepted, IsActive, TypeOK, Token, Time, Granted
  <2>4. \A p \in P : Age(t.user, p) \in Int /\ Age(t.user, p) <= SessionLen - 1
    BY <2>1, <2>3 DEF Age, TypeOK, Time
  <2>5. /\ n.from <= now /\ n.until <= n.from + KeyLen
        /\ \A p \in n.perms : Age(n.user, p) <= now - n.from + SessionLen - 1
    BY <2>2, <2>3, <2>4
  <2>6. \A a \in Programs : \A k \in keys'[a] : k \in keys[a] \/ k = n
    BY <2>1 DEF TypeOK
  <2>7. UNCHANGED <<now, known, store, held, cookie>>
    BY <1>6 DEF CreateKey
  <2> HIDE DEF n
  <2> QED
    BY <2>5, <2>6, <2>7, GrantedKept
<1>7. ASSUME NEW c \in Programs, NEW p \in Perms, ApiCall(c, p) PROVE Granted'
  BY <1>7, GrantedKept DEF ApiCall
<1>8. CASE UNCHANGED vars
  BY <1>8, GrantedKept DEF vars
<1>9. ASSUME NEW b \in Browsers, Page(b) PROVE Granted'
  BY <1>9, <1>5 DEF Page
<1>10. ASSUME NEW b \in Browsers, NEW p \in Perms, Operate(b, p) PROVE Granted'
  BY <1>10, <1>5 DEF Operate
<1> QED
  BY <1>1, <1>2, <1>3, <1>4, <1>6, <1>7, <1>8, <1>9, <1>10 DEF Next

-----------------------------------------------------------------------------
LEMMA NextVisit == AuthInv /\ [Next]_vars => VisitFresh'
<1> SUFFICES ASSUME TypeOK, VisitFresh, [Next]_vars, NEW a \in Browsers, visit'[a] >= 0
             PROVE  /\ visit'[a] <= now'
                    /\ \E t \in cookie'[a] : t.user \in known' /\ t.until > visit'[a] + RenewLen
  BY DEF AuthInv, VisitFresh
<1> DEFINE Fresh == /\ visit'[a] <= now'
                    /\ \E t \in cookie'[a] : t.user \in known' /\ t.until > visit'[a] + RenewLen
<1> USE AuthAssumption
<1>0. ASSUME visit'[a] = visit[a], cookie'[a] = cookie[a], known' = known, now' = now PROVE Fresh
  BY <1>0 DEF VisitFresh
<1>1. CASE Tick
  BY <1>1 DEF Tick, VisitFresh, TypeOK, Time
<1>2. ASSUME NEW K \in SUBSET Users, NEW S \in [Users -> SUBSET Perms], NEW rekey \in BOOLEAN,
             Restart(K, S, rekey)
      PROVE  Fresh
  <2>1. /\ visit'[a] = visit[a] /\ ~rekey /\ (\A t \in cookie[a] : t.user \in K)
        /\ known' = K /\ now' = now /\ cookie'[a] = cookie[a]
    BY <1>2 DEF Restart
  <2> QED
    BY <2>1 DEF VisitFresh
<1>3. ASSUME NEW b \in Browsers, NEW u \in Users, Login(b, u) PROVE Fresh
  <2>1. a # b
    BY <1>3 DEF Login, TypeOK
  <2> QED
    BY <1>3, <2>1, <1>0 DEF Login, TypeOK
<1>4. ASSUME NEW b \in Browsers, Logout(b) PROVE Fresh
  <2>1. a # b
    BY <1>4 DEF Logout, TypeOK
  <2> QED
    BY <1>4, <2>1, <1>0 DEF Logout, TypeOK
<1>5. ASSUME NEW b \in Browsers, NEW t \in cookie[b], Accepted(t),
             cookie' = [cookie EXCEPT ![b] = {Renewed(t)}],
             visit' = [visit EXCEPT ![b] = now],
             UNCHANGED <<now, known>>
      PROVE  Fresh
  <2>1. CASE a # b
    BY <1>5, <2>1, <1>0 DEF TypeOK
  <2>2. CASE a = b
    <3>1. cookie'[a] = {Renewed(t)} /\ visit'[a] = now /\ now \in Nat
      BY <1>5, <2>2 DEF TypeOK, Time
    <3>2. Renewed(t).user \in known /\ Renewed(t).until > now + RenewLen
      BY <1>5, RenewedFacts DEF Accepted
    <3> QED
      BY <1>5, <3>1, <3>2
  <2> QED
    BY <2>1, <2>2
<1>6. ASSUME NEW b \in Browsers, Page(b) PROVE Fresh
  BY <1>6, <1>5 DEF Page
<1>7. ASSUME NEW b \in Browsers, NEW p \in Perms, Operate(b, p) PROVE Fresh
  BY <1>7, <1>5 DEF Operate
<1>8. ASSUME NEW b \in Browsers, NEW c \in Programs, NEW P \in SUBSET Perms, NEW d \in 0..KeyLen,
             CreateKey(b, c, P, d)
      PROVE  Fresh
  BY <1>8, <1>0 DEF CreateKey
<1>9. ASSUME NEW c \in Programs, NEW p \in Perms, ApiCall(c, p) PROVE Fresh
  BY <1>9, <1>0 DEF ApiCall
<1>10. CASE UNCHANGED vars
  BY <1>10, <1>0 DEF vars
<1> QED
  BY <1>1, <1>2, <1>3, <1>4, <1>6, <1>7, <1>8, <1>9, <1>10 DEF Next

(* What a session that gets through the layers may still be honoured for. *)
LEMMA SessionAge ==
    ASSUME AuthInv, NEW b \in Browsers, NEW t \in cookie[b], Accepted(t),
           NEW p \in Renewed(t).perms
    PROVE  Age(t.user, p) \in Int /\ Age(t.user, p) < SessionLen - RenewLen
<1> USE AuthAssumption
<1>1. /\ t \in Token /\ t.user \in Users /\ t.from \in Nat /\ t.until \in Nat /\ now \in Nat
      /\ t.user \in known /\ Renewed(t) \in Token /\ p \in Perms
  BY RenewedFacts DEF AuthInv, TypeOK, Token, Time, Accepted
<1>2. Age(t.user, p) \in Int
  BY <1>1 DEF Age, AuthInv, TypeOK, Time
<1>3. CASE t.until - now <= RenewLen
  <2>1. p \in store[t.user]
    BY <1>3 DEF Renewed, NewSession, Issue
  <2> QED
    BY <1>1, <1>2, <2>1 DEF Age
<1>4. CASE ~(t.until - now <= RenewLen)
  <2>1. p \in t.perms
    BY <1>4 DEF Renewed
  <2>2. t.until = t.from + SessionLen /\ Age(t.user, p) <= now - t.from
    BY <2>1 DEF AuthInv, Granted
  <2> QED
    BY <1>1, <1>2, <1>4, <2>2
<1> QED
  BY <1>3, <1>4

(* The same for an API key. *)
LEMMA KeyAge ==
    ASSUME AuthInv, NEW c \in Programs, NEW k \in keys[c], IsActive(k), NEW p \in k.perms
    PROVE  Age(k.user, p) \in Int /\ Age(k.user, p) < SessionLen + KeyLen - 1
<1>1. k \in Token /\ k.user \in Users /\ k.from \in Nat /\ k.until \in Nat /\ now \in Nat /\ p \in Perms
  BY DEF AuthInv, TypeOK, Token, Time
<1>2. Age(k.user, p) \in Int
  BY <1>1 DEF Age, AuthInv, TypeOK, Time
<1>3. /\ k.until <= k.from + KeyLen /\ Age(k.user, p) <= now - k.from + SessionLen - 1
      /\ now < k.until
  BY DEF AuthInv, Granted, IsActive
<1> QED
  BY <1>1, <1>2, <1>3, AuthAssumption

LEMMA NextInTime == AuthInv /\ [Next]_vars => RevokedInTime' /\ KeyInTime'
<1> SUFFICES ASSUME AuthInv, [Next]_vars PROVE RevokedInTime' /\ KeyInTime'
  OBVIOUS
<1>1. ASSUME last' = last PROVE RevokedInTime' /\ KeyInTime'
  BY <1>1 DEF AuthInv, RevokedInTime, KeyInTime
<1>2. ASSUME NEW b \in Browsers, NEW p \in Perms, Operate(b, p) PROVE RevokedInTime' /\ KeyInTime'
  <2>1. PICK t \in cookie[b] :
           /\ Accepted(t)
           /\ last' = IF p \in Renewed(t).perms
                      THEN [by |-> "session", age |-> Age(t.user, p)] ELSE last
    BY <1>2 DEF Operate
  <2> QED
    BY <1>1, <2>1, SessionAge DEF RevokedInTime, KeyInTime
<1>3. ASSUME NEW c \in Programs, NEW p \in Perms, ApiCall(c, p) PROVE RevokedInTime' /\ KeyInTime'
  <2>1. PICK k \in keys[c] : /\ IsActive(k) /\ p \in k.perms
                             /\ last' = [by |-> "key", age |-> Age(k.user, p)]
    BY <1>3 DEF ApiCall
  <2> QED
    BY <2>1, KeyAge DEF RevokedInTime, KeyInTime
<1> QED
  BY <1>1, <1>2, <1>3 DEF Next, Tick, Restart, Login, Logout, Page, CreateKey, vars

LEMMA AuthInductive == Spec => []AuthInv
<1>1. AuthInv /\ [Next]_vars => AuthInv'
  BY NextType, NextGranted, NextVisit, NextInTime DEF AuthInv
<1> QED
  BY InitAuth, <1>1, PTL DEF Spec

(* The types of the tokens and of the user store are invariant, and a      *)
(* browser holds one session at most.                                      *)
THEOREM TypeCorrect == Spec => []TypeOK
<1>1. AuthInv => TypeOK
  BY DEF AuthInv
<1> QED
  BY AuthInductive, <1>1, PTL

(* A permission that was taken from a user opens no route through the      *)
(* session layers after SessionLen - RenewLen, for any durations.          *)
THEOREM RevokedCorrect == Spec => []RevokedInTime
<1>1. AuthInv => RevokedInTime
  BY DEF AuthInv
<1> QED
  BY AuthInductive, <1>1, PTL

(* An API key opens no route to a permission its issuer lost longer ago    *)
(* than the lives of a session and of the key together.                    *)
THEOREM KeyCorrect == Spec => []KeyInTime
<1>1. AuthInv => KeyInTime
  BY DEF AuthInv
<1> QED
  BY AuthInductive, <1>1, PTL

(* A user who comes back within RenewLen of the last page is logged in.    *)
THEOREM StaysCorrect == Spec => []StaysLoggedIn
<1>1. AuthInv => StaysLoggedIn
  <2> SUFFICES ASSUME AuthInv, NEW b \in Browsers, visit[b] >= 0, now - visit[b] <= RenewLen
               PROVE  \E t \in cookie[b] : Accepted(t)
    BY DEF StaysLoggedIn
  <2>1. PICK t \in cookie[b] : t.user \in known /\ t.until > visit[b] + RenewLen
    BY DEF AuthInv, VisitFresh
  <2>2. t.from <= now /\ t \in Token
    BY DEF AuthInv, Granted, TypeOK
  <2>3. now \in Nat /\ visit[b] \in Int /\ t.from \in Nat /\ t.until \in Nat
    BY <2>2 DEF AuthInv, TypeOK, Token, Time
  <2> QED
    BY <2>1, <2>2, <2>3, AuthAssumption DEF Accepted, IsActive
<1> QED
  BY AuthInductive, <1>1, PTL
=============================================================================
