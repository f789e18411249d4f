-------------------------------- MODULE Accounts --------------------------------
(***************************************************************************)
(* Accounts and sessions: app/auth.py, its tables in app/db.py and the     *)
(* login, signup and logout handlers and middleware of app/main.py.        *)
(* Workers seed the first account at startup, each with separate database  *)
(* calls, while others already serve.  Tabs of one browser share a cookie. *)
(* Left out: the forms, the signup code, validation, last_login_ts.        *)
(***************************************************************************)
EXTENDS Naturals, Sequences, FiniteSets

CONSTANTS
  Worker, Tab,
  Env,          \* ALGOFOUNDRY_USER
  Name,         \* the names that visitors sign up with; Env may be one
  TTL,          \* the life of a session
  MaxNow, MaxToken   \* bounds: the clock, and the sessions that are started

\* What Services assumes of them.
TimesOK == TTL \in Nat /\ MaxNow \in Nat \ {0} /\ MaxToken \in Nat /\ Worker # {}

VARIABLES
  envPw,        \* ALGOFOUNDRY_PASSWORD is set
  users,        \* the accounts by id: name, and who chose the password
  admins,       \* the names flagged is_admin
  expiry,       \* of each row of sessions; 0 when there is no row
  issued,       \* tokens drawn
  now,
  up,           \* each worker: its next startup call, or "up"
  found,        \* each worker: the accounts it counted, then whom it promotes
  cookie,       \* the browser's token, or 0
  tab,          \* the requests
  life,         \* history: when each session ends that was begun, and not logged out
  seen          \* history: what each request's token was worth since it came

vars == <<envPw, users, admins, expiry, issued, now, up, found, cookie, tab, life, seen>>

Names == {users[i].name : i \in DOMAIN users}
NoName == ""
Idle == [pc |-> "idle", kind |-> "page", token |-> 0, until |-> 0,
         at |-> CHOOSE w \in Worker : TRUE]

Init ==
  /\ envPw \in BOOLEAN
  /\ users \in {<<>>} \cup {<<[name |-> n, pw |-> "old"]>> : n \in Name}
  /\ admins = {}            \* the column is_admin is newer than the accounts
  /\ expiry = [k \in 1..MaxToken |-> 0] /\ issued = 0 /\ now = 1
  /\ up = [w \in Worker |-> "count"] /\ found = [w \in Worker |-> NoName]
  /\ cookie = 0 /\ tab = [t \in Tab |-> Idle] /\ life = expiry /\ seen = [t \in Tab |-> {}]

-----------------------------------------------------------------------------
(* ensure_seed *)

Startup(w, from, to) == up[w] = from /\ up' = [up EXCEPT ![w] = to]
Served == UNCHANGED <<envPw, issued, now, cookie, tab>>

\* Variation: INSERT without ON CONFLICT, into a table whose names are not unique.
CreatedAgain(n, pw) == users' = Append(users, [name |-> n, pw |-> pw])

\* create_user: INSERT .. ON CONFLICT DO NOTHING.
Created(n, pw) ==
  users' = IF n \in Names THEN users ELSE Append(users, [name |-> n, pw |-> pw])

CountUsers(w) ==
  /\ Startup(w, "count", IF users = <<>> /\ envPw THEN "create" ELSE "admins")
  /\ UNCHANGED <<users, admins, expiry, found>> /\ Served

\* A new account is an admin; the password of one that exists stays.
CreateAdmin(w) ==
  /\ Startup(w, "create", "admins")
  /\ Created(Env, "env")
  /\ admins' = IF Env \in Names THEN admins ELSE admins \cup {Env}
  /\ UNCHANGED <<expiry, found>> /\ Served

CountAdmins(w) ==
  /\ Startup(w, "admins", IF admins = {} THEN "choose" ELSE "purge")
  /\ UNCHANGED <<users, admins, expiry, found>> /\ Served

\* Variation: the configured account is promoted without looking it up.
ChooseConfigured(w) ==
  /\ Startup(w, "choose", "promote")
  /\ found' = [found EXCEPT ![w] = Env]
  /\ UNCHANGED <<users, admins, expiry>> /\ Served

\* get_user(env_user): the configured account if there is one.
Choose(w) ==
  /\ \/ /\ Env \in Names /\ Startup(w, "choose", "promote")
        /\ found' = [found EXCEPT ![w] = Env]
     \/ /\ Env \notin Names /\ Startup(w, "choose", "earliest") /\ UNCHANGED found
  /\ UNCHANGED <<users, admins, expiry>> /\ Served

\* earliest_username: the account of the least id, if there is any.
Earliest(w) ==
  /\ \/ /\ users # <<>> /\ Startup(w, "earliest", "promote")
        /\ found' = [found EXCEPT ![w] = users[1].name]
     \/ /\ users = <<>> /\ Startup(w, "earliest", "purge") /\ UNCHANGED found
  /\ UNCHANGED <<users, admins, expiry>> /\ Served

\* set_user_admin: UPDATE .. WHERE username, which may touch no row.
Promote(w) ==
  /\ Startup(w, "promote", "purge")
  /\ admins' = admins \cup ({found[w]} \cap Names)
  /\ found' = [found EXCEPT ![w] = NoName]
  /\ UNCHANGED <<users, expiry>> /\ Served

\* Variation: sessions that end now are purged with those that have ended.
PurgeEarly(w) ==
  /\ Startup(w, "purge", "up")
  /\ expiry' = [k \in 1..MaxToken |-> IF expiry[k] <= now THEN 0 ELSE expiry[k]]
  /\ UNCHANGED <<users, admins, found>> /\ Served

\* purge_expired_sessions; if it raises, startup goes on.
Purge(w) ==
  /\ Startup(w, "purge", "up")
  /\ expiry' \in {expiry, [k \in 1..MaxToken |-> IF expiry[k] < now THEN 0 ELSE expiry[k]]}
  /\ UNCHANGED <<users, admins, found>> /\ Served

\* The process ends and another takes its place; its requests get no answer.
Restart(w) ==
  /\ up' = [up EXCEPT ![w] = "count"] /\ found' = [found EXCEPT ![w] = NoName]
  /\ tab' = [t \in Tab |-> IF tab[t].at = w THEN Idle ELSE tab[t]]
  /\ UNCHANGED <<envPw, users, admins, expiry, issued, now, cookie>>

-----------------------------------------------------------------------------
(* Requests *)

Started == UNCHANGED <<envPw, admins, now, up, found>>
To(t, s) == tab' = [tab EXCEPT ![t].pc = s]

\* A request comes to a worker that is up, with the cookie of now.
Begin(t, w, k) ==
  /\ tab[t].pc = "idle" /\ up[w] = "up"
  /\ tab' = [tab EXCEPT ![t] = [Idle EXCEPT !.kind = k, !.at = w, !.token = cookie,
       !.pc = [page |-> "session", logout |-> "delete", login |-> "user", signup |-> "create"][k]]]
  /\ UNCHANGED <<users, expiry, issued, cookie>> /\ Started

\* session_user: get_session.
GetSession(t) ==
  /\ tab[t].pc = "session"
  /\ LET row == IF tab[t].token = 0 THEN 0 ELSE expiry[tab[t].token] IN
     tab' = [tab EXCEPT ![t].until = row, ![t].pc = IF row = 0 THEN "denied" ELSE "expiry"]
  /\ UNCHANGED <<users, expiry, issued, cookie>> /\ Started

\* Variation: the row is served as long as it is there.
CheckExpiryNever(t) ==
  /\ tab[t].pc = "expiry" /\ To(t, "served")
  /\ UNCHANGED <<users, expiry, issued, cookie>> /\ Started

\* session_user: the time of the row, against the clock.
CheckExpiry(t) ==
  /\ tab[t].pc = "expiry"
  /\ To(t, IF tab[t].until < now THEN "delete" ELSE "served")
  /\ UNCHANGED <<users, expiry, issued, cookie>> /\ Started

\* delete_session, of an expired page's session or at a logout.
Delete(t) ==
  /\ tab[t].pc = "delete" /\ To(t, IF tab[t].kind = "page" THEN "denied" ELSE "out")
  /\ expiry' = IF tab[t].token = 0 THEN expiry ELSE [expiry EXCEPT ![tab[t].token] = 0]
  /\ UNCHANGED <<users, issued, cookie>> /\ Started

\* start_session draws a token and the time it ends, then calls the database.
Draw(t) ==
  /\ issued < MaxToken /\ issued' = issued + 1
  /\ tab' = [tab EXCEPT ![t] = [@ EXCEPT !.pc = "insert", !.token = issued + 1,
                                         !.until = now + TTL]]

\* authenticate, with the right password or another.
Authenticate(t) ==
  /\ tab[t].pc = "user"
  /\ \/ users # <<>> /\ Draw(t)
     \/ To(t, "denied") /\ UNCHANGED issued
  /\ UNCHANGED <<users, expiry, cookie>> /\ Started

\* register: the account is made, or the name is taken.
Register(t, n) ==
  /\ tab[t].pc = "create"
  /\ Created(n, "new")
  /\ IF n \in Names THEN To(t, "denied") /\ UNCHANGED issued ELSE Draw(t)
  /\ UNCHANGED <<expiry, cookie>> /\ Started

\* create_session.
InsertSession(t) ==
  /\ tab[t].pc = "insert" /\ To(t, "in")
  /\ expiry' = [expiry EXCEPT ![tab[t].token] = tab[t].until]
  /\ UNCHANGED <<users, issued, cookie>> /\ Started

\* A database call raises, the note of the login after create_session among them:
\* the answer is a 500 without a cookie, and nothing done is undone.
Fail(t) ==
  /\ tab[t].pc \in {"session", "delete", "user", "create", "insert", "in"}
  /\ tab' = [tab EXCEPT ![t] = Idle]
  /\ UNCHANGED <<users, expiry, issued, cookie>> /\ Started

\* The answer arrives, and its Set-Cookie with it.
Answers == {"served", "denied", "in", "out"}
Receive(t) ==
  /\ tab[t].pc \in Answers
  /\ tab' = [tab EXCEPT ![t] = Idle]
  /\ cookie' = IF tab[t].pc = "in" THEN tab[t].token ELSE IF tab[t].pc = "out" THEN 0 ELSE cookie
  /\ UNCHANGED <<users, expiry, issued>> /\ Started

Tick == now < MaxNow /\ now' = now + 1 /\ UNCHANGED <<envPw, users, admins, expiry, issued, up, found, cookie, tab>>

\* A session lives from its insertion to a logout or to its time, whatever becomes
\* of its row; a token is worth something while its session lives.
Begun(k) == \E t \in Tab : tab[t].pc = "insert" /\ tab'[t].pc = "in" /\ tab[t].token = k
LoggedOut(k) == \E t \in Tab : tab[t].pc = "delete" /\ tab'[t].pc = "out" /\ tab[t].token = k
Lives(k, time) == k # 0 /\ life'[k] # 0 /\ life'[k] >= time
Watch ==
  /\ life' = [k \in 1..MaxToken |-> IF Begun(k) THEN expiry'[k]
                                    ELSE IF LoggedOut(k) THEN 0 ELSE life[k]]
  /\ seen' = [t \in Tab |-> IF tab'[t].pc = "idle" THEN {}
                            ELSE seen[t] \cup {Lives(tab'[t].token, now')}]

Seed(w) == \/ CountUsers(w) \/ CreateAdmin(w) \/ CountAdmins(w) \/ Choose(w)
           \/ Earliest(w) \/ Promote(w) \/ Purge(w) \/ Restart(w)
Handle(t) == \/ GetSession(t) \/ CheckExpiry(t) \/ Delete(t) \/ Authenticate(t)
             \/ \E n \in Name : Register(t, n)
             \/ InsertSession(t) \/ Fail(t) \/ Receive(t)
             \/ \E w \in Worker, k \in {"page", "logout", "login", "signup"} : Begin(t, w, k)
Next == (Tick \/ (\E w \in Worker : Seed(w)) \/ \E t \in Tab : Handle(t)) /\ Watch

Spec == Init /\ [][Next]_vars

-----------------------------------------------------------------------------
TypeOK ==
  /\ admins \subseteq Names /\ Cardinality(Names) = Len(users)
  /\ expiry \in [1..MaxToken -> 0..(MaxNow + TTL)] /\ cookie \in 0..issued
  /\ up \in [Worker -> {"count", "create", "admins", "choose", "earliest", "promote",
                        "purge", "up"}]
  /\ tab \in [Tab -> [pc : Answers \cup {"idle", "session", "expiry", "delete", "user",
                                         "create", "insert"},
                      kind : {"page", "login", "signup", "logout"}, token : 0..MaxToken,
                      until : 0..(MaxNow + TTL), at : Worker]]

\* auth.py:176, "Guarantee at least one admin exists": a worker that passed the
\* step and found accounts leaves an admin, whichever other worker seeds and whoever
\* signs up meanwhile, and only the configured or the earliest account becomes one.
AdminSeeded ==
  /\ \A w \in Worker :
       up[w] \in {"purge", "up"} /\ (envPw \/ \E i \in DOMAIN users : users[i].pw = "old")
         => admins # {}
  /\ \A a \in admins : a = Env \/ a = users[1].name

\* The middleware's verdict is right at some instant of the request: a page is
\* served only if the session lived then, and refused only if it did not, whatever
\* logs out, purges, restarts or expires between the read and the comparison.
SessionsHonoured ==
  \A t \in Tab : tab[t].kind = "page" =>
    /\ tab[t].pc = "served" => TRUE \in seen[t]
    /\ tab[t].pc = "denied" => FALSE \in seen[t]
=============================================================================
