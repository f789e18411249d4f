----------------------------- MODULE AccountProofs -----------------------------
(***************************************************************************)
(* What accounts and sessions keep, for any number of workers and tabs.    *)
(* Seeding leaves an admin while visitors sign up: AdminSeeded speaks of   *)
(* workers that are through, and SeedInv says what those on their way have *)
(* established.  A page is served or refused as its session was worth while *)
(* the request was there: SessionInv says what a request has found.        *)
(***************************************************************************)
EXTENDS Accounts, FiniteSetTheorems, TLAPS

User == [name : Name \cup {Env}, pw : {"old", "env", "new"}]

\* Somebody is owed an admin: there is an account to promote, or one to create.
Owed == envPw \/ \E i \in DOMAIN users : users[i].pw = "old"

\* What worker w has established at its step of ensure_seed.
SeedInv(w) ==
  /\ up[w] \notin {"count", "create"} /\ Owed => users # <<>>
  /\ up[w] = "promote" => found[w] \in Names /\ (found[w] = Env \/ found[w] = users[1].name)
  /\ up[w] \in {"purge", "up"} /\ Owed => admins # {}

IInv ==
  /\ users \in Seq(User) /\ admins \subseteq Names
  /\ DOMAIN up = Worker /\ DOMAIN found = Worker
  /\ \A a \in admins : a = Env \/ a = users[1].name
  /\ \A i \in DOMAIN users : users[i].pw = "old" => i = 1
  /\ \A w \in Worker : SeedInv(w)

-----------------------------------------------------------------------------
\* create_user keeps the accounts there are; a new one comes last.
Kept == /\ users' \in Seq(User)
        /\ Len(users) <= Len(users')
        /\ \A i \in DOMAIN users : users'[i] = users[i]
        /\ \A i \in DOMAIN users' \ DOMAIN users : users'[i].pw # "old"

LEMMA CreatedKeeps ==
  ASSUME users \in Seq(User), NEW n \in Name \cup {Env}, NEW pw \in {"env", "new"},
         Created(n, pw)
  PROVE  Kept /\ users' # <<>> /\ (\E i \in DOMAIN users' : users'[i].name = n)
<1>1. CASE n \in Names
  <2>1. users' = users /\ \E i \in DOMAIN users : users[i].name = n
    BY <1>1 DEF Created, Names
  <2> QED
    BY <2>1 DEF Kept
<1>2. CASE n \notin Names
  <2> DEFINE new == [name |-> n, pw |-> pw]
  <2>1. users' = Append(users, new) /\ new \in User
    BY <1>2 DEF Created, User
  <2>2. new.name = n /\ new.pw = pw
    OBVIOUS
  <2> HIDE DEF new
  <2>3. /\ users' \in Seq(User) /\ Len(users') = Len(users) + 1
        /\ \A i \in 1..Len(users) : users'[i] = users[i]
        /\ users'[Len(users) + 1] = new
    BY <2>1
  <2>4. DOMAIN users = 1..Len(users) /\ DOMAIN users' = 1..(Len(users) + 1) /\ Len(users) \in Nat
    BY <2>3
  <2>5. \A i \in DOMAIN users' \ DOMAIN users : users'[i] = new
    BY <2>3, <2>4
  <2>6. Kept
    BY <2>2, <2>3, <2>4, <2>5 DEF Kept
  <2>7. Len(users) + 1 \in DOMAIN users' /\ users' # <<>>
    BY <2>3, <2>4
  <2> QED
    BY <2>2, <2>3, <2>6, <2>7
<1> QED
  BY <1>1, <1>2

LEMMA Unchanged == ASSUME users \in Seq(User), UNCHANGED users PROVE Kept
BY DEF Kept

\* What keeping the accounts keeps: who is earliest, who is owed, who has a name.
LEMMA KeptFacts ==
  ASSUME users \in Seq(User), Kept
  PROVE  /\ \A x \in Names : x \in Names'
         /\ users # <<>> => users' # <<>> /\ users'[1] = users[1]
         /\ (\E i \in DOMAIN users' : users'[i].pw = "old") =>
              \E i \in DOMAIN users : users[i].pw = "old"
<1>1. /\ DOMAIN users = 1..Len(users) /\ DOMAIN users' = 1..Len(users')
      /\ Len(users) \in Nat /\ Len(users') \in Nat /\ Len(users) <= Len(users')
  BY DEF Kept
<1>2. \A x \in Names : x \in Names'
  <2> SUFFICES ASSUME NEW i \in DOMAIN users
               PROVE  users[i].name \in Names'
    BY DEF Names
  <2>1. i \in DOMAIN users' /\ users'[i] = users[i]
    BY <1>1 DEF Kept
  <2> QED
    BY <2>1 DEF Names
<1>3. ASSUME users # <<>>
      PROVE  users' # <<>> /\ users'[1] = users[1]
  <2>1. 1 \in DOMAIN users
    BY <1>1, <1>3
  <2> QED
    BY <1>1, <2>1 DEF Kept
<1>4. ASSUME NEW i \in DOMAIN users', users'[i].pw = "old"
      PROVE  \E j \in DOMAIN users : users[j].pw = "old"
  <2>1. i \in DOMAIN users
    BY <1>4 DEF Kept
  <2> QED
    BY <1>4, <2>1 DEF Kept
<1> QED
  BY <1>2, <1>3, <1>4

\* A step that keeps the accounts and the admins, and leaves worker u alone.
LEMMA Beside ==
  ASSUME IInv, Kept, admins \subseteq admins', UNCHANGED envPw,
         NEW u \in Worker, up'[u] = up[u], found'[u] = found[u]
  PROVE  SeedInv(u)'
<1>1. SeedInv(u)
  BY DEF IInv
<1>2. Owed' => Owed
  BY KeptFacts DEF IInv, Owed
<1>3. CASE users # <<>>
  <2>1. users' # <<>> /\ users'[1] = users[1]
    BY <1>3, KeptFacts DEF IInv
  <2>2. found[u] \in Names => found'[u] \in Names'
    BY KeptFacts DEF IInv
  <2> QED
    BY <1>1, <1>2, <2>1, <2>2 DEF SeedInv
<1>4. CASE users = <<>>
  <2>1. Names = {}
    BY <1>4 DEF Names
  <2> QED
    BY <1>1, <1>2, <2>1, <1>4 DEF SeedInv
<1> QED
  BY <1>3, <1>4

\* What every step keeps of the table of accounts.
LEMMA TableKept ==
  ASSUME IInv, Kept, UNCHANGED envPw, admins' \subseteq Names',
         \A a \in admins' : a \in admins \/ a = Env \/ a = users'[1].name
  PROVE  /\ users' \in Seq(User)
         /\ \A a \in admins' : a = Env \/ a = users'[1].name
         /\ \A i \in DOMAIN users' : users'[i].pw = "old" => i = 1
<1>1. users' \in Seq(User)
  BY DEF Kept
<1>2. \A i \in DOMAIN users' : users'[i].pw = "old" => i = 1
  BY DEF Kept, IInv
<1>3. ASSUME NEW a \in admins
      PROVE  a = Env \/ a = users'[1].name
  <2>1. users # <<>>
    BY <1>3 DEF IInv, Names
  <2>2. users'[1] = users[1]
    BY <2>1, KeptFacts DEF IInv
  <2> QED
    BY <1>3, <2>2 DEF IInv
<1> QED
  BY <1>1, <1>2, <1>3

-----------------------------------------------------------------------------
\* The startup of w goes from one step to the next, and leaves the other workers alone.
Seeds(w, s) ==
  /\ up' = [up EXCEPT ![w] = s] /\ UNCHANGED envPw
  /\ DOMAIN found' = Worker /\ \A u \in Worker \ {w} : found'[u] = found[u]
  /\ Kept /\ admins \subseteq admins' /\ admins' \subseteq Names'
  /\ \A a \in admins' : a \in admins \/ a = Env \/ a = users'[1].name

LEMMA SeedsKeeps ==
  ASSUME IInv, NEW w \in Worker, NEW s, Seeds(w, s), SeedInv(w)'
  PROVE  IInv'
<1>1. /\ users' \in Seq(User)
      /\ \A a \in admins' : a = Env \/ a = users'[1].name
      /\ \A i \in DOMAIN users' : users'[i].pw = "old" => i = 1
  BY TableKept DEF Seeds
<1>2. DOMAIN up' = Worker /\ \A u \in Worker \ {w} : up'[u] = up[u]
  BY DEF Seeds, IInv
<1>3. ASSUME NEW u \in Worker PROVE SeedInv(u)'
  BY <1>2, Beside DEF Seeds
<1> QED
  BY <1>1, <1>2, <1>3 DEF IInv, Seeds

\* The accounts that a worker owes an admin are there once it looks for one.
LEMMA OwedHasUsers ==
  ASSUME users \in Seq(User), \E i \in DOMAIN users : users[i].pw = "old"
  PROVE  users # <<>>
OBVIOUS

LEMMA CountUsersKeeps ==
  ASSUME IInv, NEW w \in Worker, CountUsers(w)
  PROVE  IInv'
<1> DEFINE s == IF users = <<>> /\ envPw THEN "create" ELSE "admins"
<1>1. UNCHANGED <<users, admins, found, envPw>> /\ up' = [up EXCEPT ![w] = s]
  BY DEF CountUsers, Startup, Served
<1>2. Kept /\ Seeds(w, s)
  BY <1>1, Unchanged DEF IInv, Seeds, Names
<1>3. up'[w] = s /\ s \in {"create", "admins"} /\ (s = "admins" => users # <<>> \/ ~envPw)
  BY <1>1 DEF IInv
<1>4. SeedInv(w)'
  BY <1>1, <1>3, OwedHasUsers DEF SeedInv, Owed, IInv
<1> HIDE DEF s
<1> QED
  BY <1>2, <1>4, SeedsKeeps

LEMMA CreateAdminKeeps ==
  ASSUME IInv, NEW w \in Worker, CreateAdmin(w)
  PROVE  IInv'
<1>1. /\ UNCHANGED <<found, envPw>> /\ up' = [up EXCEPT ![w] = "admins"]
      /\ Created(Env, "env") /\ admins' \in {admins, admins \cup {Env}}
  BY DEF CreateAdmin, Startup, Served
<1>2. Kept /\ users' # <<>> /\ \E i \in DOMAIN users' : users'[i].name = Env
  BY <1>1, CreatedKeeps DEF IInv
<1>3. Env \in Names'
  BY <1>2 DEF Names
<1>4. admins' \subseteq Names'
  BY <1>1, <1>2, <1>3, KeptFacts DEF IInv
<1>5. Seeds(w, "admins")
  BY <1>1, <1>2, <1>4 DEF IInv, Seeds
<1>6. up'[w] = "admins"
  BY <1>1 DEF IInv
<1>7. SeedInv(w)'
  BY <1>2, <1>6 DEF SeedInv
<1> QED
  BY <1>5, <1>7, SeedsKeeps

LEMMA CountAdminsKeeps ==
  ASSUME IInv, NEW w \in Worker, CountAdmins(w)
  PROVE  IInv'
<1> DEFINE s == IF admins = {} THEN "choose" ELSE "purge"
<1>1. /\ UNCHANGED <<users, admins, found, envPw>> /\ up' = [up EXCEPT ![w] = s]
      /\ up[w] = "admins"
  BY DEF CountAdmins, Startup, Served
<1>2. Kept /\ Seeds(w, s)
  BY <1>1, Unchanged DEF IInv, Seeds, Names
<1>3. up'[w] = s /\ s \in {"choose", "purge"} /\ (s = "purge" => admins # {})
  BY <1>1 DEF IInv
<1>4. SeedInv(w)
  BY DEF IInv
<1>5. SeedInv(w)'
  BY <1>1, <1>3, <1>4 DEF SeedInv, Owed
<1> HIDE DEF s
<1> QED
  BY <1>2, <1>5, SeedsKeeps

LEMMA FirstHasName ==
  ASSUME users \in Seq(User), users # <<>>
  PROVE  users[1].name \in Names
<1>1. 1 \in DOMAIN users
  OBVIOUS
<1> QED
  BY <1>1 DEF Names

\* Looking for whom to promote: the configured account, else the earliest.
LEMMA ChooseKeeps ==
  ASSUME IInv, NEW w \in Worker, Choose(w) \/ Earliest(w)
  PROVE  IInv'
<1>1. /\ UNCHANGED <<users, admins, envPw>> /\ up[w] \in {"choose", "earliest"}
  BY DEF Choose, Earliest, Startup, Served
<1>2. SeedInv(w) /\ Kept
  BY <1>1, Unchanged DEF IInv
<1>3. ASSUME NEW n \in Names, n = Env \/ n = users[1].name,
             up' = [up EXCEPT ![w] = "promote"], found' = [found EXCEPT ![w] = n]
      PROVE  IInv'
  <2>1. up'[w] = "promote" /\ found'[w] = n
    BY <1>3 DEF IInv
  <2>2. Seeds(w, "promote")
    BY <1>1, <1>2, <1>3 DEF IInv, Seeds, Names
  <2>3. SeedInv(w)'
    BY <1>1, <1>2, <1>3, <2>1 DEF SeedInv, Owed, Names
  <2> QED
    BY <2>2, <2>3, SeedsKeeps
<1>4. ASSUME NEW s \in {"earliest", "purge"}, s = "purge" => users = <<>>,
             up' = [up EXCEPT ![w] = s], UNCHANGED found
      PROVE  IInv'
  <2>1. up'[w] = s
    BY <1>4 DEF IInv
  <2>2. Seeds(w, s)
    BY <1>1, <1>2, <1>4 DEF IInv, Seeds, Names
  <2>3. SeedInv(w)'
    BY <1>1, <1>2, <1>4, <2>1 DEF SeedInv, Owed
  <2> QED
    BY <2>2, <2>3, SeedsKeeps
<1>5. CASE Choose(w)
  BY <1>3, <1>4, <1>5 DEF Choose, Startup
<1>6. CASE Earliest(w)
  BY <1>3, <1>4, <1>6, FirstHasName DEF Earliest, Startup, IInv
<1> QED
  BY <1>5, <1>6

LEMMA PromoteKeeps ==
  ASSUME IInv, NEW w \in Worker, Promote(w)
  PROVE  IInv'
<1>1. /\ UNCHANGED <<users, envPw>> /\ up[w] = "promote" /\ up' = [up EXCEPT ![w] = "purge"]
      /\ admins' = admins \cup ({found[w]} \cap Names) /\ found' = [found EXCEPT ![w] = NoName]
  BY DEF Promote, Startup, Served
<1>2. SeedInv(w) /\ Kept
  BY <1>1, Unchanged DEF IInv
<1>3. found[w] \in Names /\ (found[w] = Env \/ found[w] = users[1].name)
  BY <1>1, <1>2 DEF SeedInv
<1>4. Seeds(w, "purge")
  BY <1>1, <1>2, <1>3 DEF IInv, Seeds, Names
<1>5. up'[w] = "purge"
  BY <1>1 DEF IInv
<1>6. users' = users /\ admins' # {} /\ users # <<>>
  BY <1>1, <1>3 DEF Names
<1>7. SeedInv(w)'
  BY <1>5, <1>6 DEF SeedInv
<1> QED
  BY <1>4, <1>7, SeedsKeeps

\* The end of a startup, and a new one.
LEMMA PurgeKeeps ==
  ASSUME IInv, NEW w \in Worker, Purge(w) \/ Restart(w)
  PROVE  IInv'
<1>1. UNCHANGED <<users, admins, envPw>>
  BY DEF Purge, Restart, Served
<1>2. SeedInv(w) /\ Kept
  BY <1>1, Unchanged DEF IInv
<1>3. CASE Purge(w)
  <2>1. up[w] = "purge" /\ up' = [up EXCEPT ![w] = "up"] /\ UNCHANGED found
    BY <1>3 DEF Purge, Startup
  <2>2. Seeds(w, "up")
    BY <1>1, <1>2, <2>1 DEF IInv, Seeds, Names
  <2>3. up'[w] = "up"
    BY <2>1 DEF IInv
  <2>4. SeedInv(w)'
    BY <1>1, <1>2, <2>1, <2>3 DEF SeedInv, Owed
  <2> QED
    BY <2>2, <2>4, SeedsKeeps
<1>4. CASE Restart(w)
  <2>1. up' = [up EXCEPT ![w] = "count"] /\ found' = [found EXCEPT ![w] = NoName]
    BY <1>4 DEF Restart
  <2>2. Seeds(w, "count")
    BY <1>1, <1>2, <2>1 DEF IInv, Seeds, Names
  <2>3. up'[w] = "count"
    BY <2>1 DEF IInv
  <2>4. SeedInv(w)'
    BY <2>3 DEF SeedInv
  <2> QED
    BY <2>2, <2>4, SeedsKeeps
<1> QED
  BY <1>3, <1>4

\* Requests sign up, and change nothing else that seeding reads.
LEMMA HandleKeeps ==
  ASSUME IInv, NEW t \in Tab, Handle(t)
  PROVE  IInv'
<1>1. UNCHANGED <<envPw, admins, up, found>>
  BY Zenon DEF Handle, GetSession, CheckExpiry, Delete, Authenticate, Register, InsertSession, Fail,
     Receive, Begin, Started
<1>2. CASE \E n \in Name : Register(t, n)
  <2>1. PICK n \in Name : Created(n, "new")
    BY <1>2 DEF Register
  <2> QED
    BY <2>1, CreatedKeeps, <1>1, TableKept, Beside, KeptFacts DEF IInv
<1>3. CASE ~\E n \in Name : Register(t, n)
  <2>1. UNCHANGED users
    BY <1>3, Zenon DEF Handle, GetSession, CheckExpiry, Delete, Authenticate, InsertSession,
       Fail, Receive, Begin
  <2> QED
    BY <1>1, <2>1 DEF IInv, SeedInv, Owed, Names
<1> QED
  BY <1>2, <1>3

-----------------------------------------------------------------------------
LEMMA InitInv ==
  ASSUME Init
  PROVE  IInv
<1>1. users = <<>> \/ \E n \in Name : users = <<[name |-> n, pw |-> "old"]>>
  BY DEF Init
<1>2. users \in Seq(User) /\ (\A i \in DOMAIN users : users[i].pw = "old" => i = 1)
  <2>1. CASE users = <<>>
    BY <2>1
  <2>2. ASSUME NEW n \in Name, users = <<[name |-> n, pw |-> "old"]>>
        PROVE  users \in Seq(User) /\ \A i \in DOMAIN users : users[i].pw = "old" => i = 1
    <3>1. [name |-> n, pw |-> "old"] \in User
      BY DEF User
    <3> QED
      BY <2>2, <3>1
  <2> QED
    BY <1>1, <2>1, <2>2
<1> QED
  BY <1>2 DEF Init, IInv, SeedInv

LEMMA NextKeeps ==
  ASSUME IInv, [Next]_vars
  PROVE  IInv'
<1>1. ASSUME NEW w \in Worker, Seed(w) PROVE IInv'
  BY <1>1, CountUsersKeeps, CreateAdminKeeps, CountAdminsKeeps, ChooseKeeps, PromoteKeeps,
     PurgeKeeps DEF Seed
<1>2. CASE Tick \/ UNCHANGED vars
  <2>1. UNCHANGED <<envPw, users, admins, up, found>>
    BY <1>2 DEF Tick, vars
  <2> QED
    BY <2>1 DEF IInv, SeedInv, Owed, Names
<1> QED
  BY <1>1, <1>2, HandleKeeps DEF Next

\* auth.py:176: a worker that is through ensure_seed leaves an admin if there was an
\* account or a configured one, and only the configured or the earliest account is
\* made one, however many workers seed at once and whoever signs up meanwhile.
THEOREM AdminIsSeeded == Spec => []AdminSeeded
<1>1. Init => IInv
  BY InitInv
<1>2. IInv /\ [Next]_vars => IInv'
  BY NextKeeps
<1>3. IInv => AdminSeeded
  BY DEF IInv, SeedInv, Owed, AdminSeeded
<1> QED
  BY <1>1, <1>2, <1>3, PTL DEF Spec

-----------------------------------------------------------------------------
(* Sessions: what a page is told of its token was true while it was asked. *)

PcStates == Answers \cup {"idle", "session", "expiry", "delete", "user", "create", "insert"}
Requests == [pc : PcStates, kind : {"page", "login", "signup", "logout"}, token : 0..MaxToken,
             until : 0..(MaxNow + TTL), at : Worker]
Times == 0..(MaxNow + TTL)

SessionType ==
  /\ issued \in 0..MaxToken /\ now \in 1..MaxNow /\ cookie \in 0..issued
  /\ expiry \in [1..MaxToken -> Times] /\ life \in [1..MaxToken -> Times]
  /\ tab \in [Tab -> Requests] /\ \A t \in Tab : tab[t].token <= issued

\* A row says when its session ends; a session without a row has ended, or not begun.
RowsTrue ==
  \A k \in 1..MaxToken : IF expiry[k] # 0 THEN life[k] = expiry[k]
                         ELSE life[k] = 0 \/ life[k] < now

\* The token t holds is of a session that began, and may have been logged out since.
Ends(t) == tab[t].token # 0 /\ life[tab[t].token] \in {0, tab[t].until}

\* What request t has read is what its session was, or is since logged out; a token that
\* is drawn and not inserted is nobody else's.
Honest(t) ==
  /\ tab[t].pc \in {"user", "create", "insert", "in", "out"} => tab[t].kind # "page"
  /\ tab[t].pc = "expiry" => Ends(t) /\ (tab[t].until >= now => TRUE \in seen[t])
  /\ tab[t].pc = "delete" /\ tab[t].kind = "page" => Ends(t) /\ tab[t].until < now
  /\ tab[t].pc = "insert" => /\ tab[t].token # 0 /\ cookie # tab[t].token
                             /\ \A u \in Tab \ {t} : tab[u].token # tab[t].token
  /\ tab[t].kind = "page" /\ tab[t].pc = "served" => TRUE \in seen[t]
  /\ tab[t].kind = "page" /\ tab[t].pc = "denied" => FALSE \in seen[t]

SessionInv == SessionType /\ RowsTrue /\ \A t \in Tab : Honest(t)

Alive(t) == tab[t].token # 0 /\ life[tab[t].token] # 0 /\ life[tab[t].token] >= now

\* A request that is under way remembers what its token has been worth, and now is.
LEMMA Watched ==
  ASSUME Watch, NEW t \in Tab, tab'[t].pc # "idle"
  PROVE  /\ seen[t] \subseteq seen'[t]
         /\ Alive(t)' => TRUE \in seen'[t]
         /\ ~Alive(t)' => FALSE \in seen'[t]
<1> DEFINE b == Lives(tab'[t].token, now')
<1>1. b = Alive(t)' /\ b \in BOOLEAN
  BY DEF Lives, Alive
<1>2. seen'[t] = seen[t] \cup {b}
  BY DEF Watch
<1> HIDE DEF b
<1> QED
  BY <1>1, <1>2, Zenon

\* Request t moves, no time passes, and no session but the one named by k begins or ends.
Moves(t, k, d) ==
  /\ Watch /\ now' = now
  /\ tab' = [tab EXCEPT ![t] = tab'[t]] /\ tab'[t] \in Requests
  /\ life' = [j \in 1..MaxToken |-> IF j = k THEN d ELSE life[j]]

\* The requests beside the one that moves, when what it begins is its own token.
LEMMA BesideHonest ==
  ASSUME SessionInv, NEW t \in Tab, NEW k, NEW d, Moves(t, k, d),
         NEW u \in Tab \ {t},
         d = 0 \/ k # tab[u].token,
         tab[u].pc = "insert" => cookie' # tab[u].token /\ tab'[t].token # tab[u].token
  PROVE  Honest(u)'
<1>1. tab'[u] = tab[u] /\ now' = now /\ Honest(u)
  BY DEF Moves, SessionInv, SessionType
<1>2. tab[u].pc # "idle" => seen[u] \subseteq seen'[u]
  BY <1>1, Watched DEF Moves
<1>3. Ends(u) => Ends(u)'
  <2>1. tab[u].token \in 0..MaxToken
    BY DEF SessionInv, SessionType, Requests
  <2> QED
    BY <1>1, <2>1 DEF Moves, Ends
<1>4. \A v \in Tab \ {u} : tab[u].pc = "insert" => tab'[v].token # tab[u].token
  BY <1>1 DEF Moves, SessionInv, SessionType, Honest
<1>5. tab[u].pc \in {"expiry", "served", "denied"} => seen[u] \subseteq seen'[u]
  BY <1>2
<1> QED
  BY <1>1, <1>3, <1>4, <1>5 DEF Honest

LEMMA Tabs ==
  ASSUME SessionInv, NEW t \in Tab, NEW r \in Requests, tab' = [tab EXCEPT ![t] = r]
  PROVE  /\ tab'[t] = r /\ tab' = [tab EXCEPT ![t] = tab'[t]]
         /\ \A u \in Tab \ {t} : tab'[u] = tab[u]
BY DEF SessionInv, SessionType

\* A request moves, and begins a session, or ends one, or does neither.
LEMMA Quietly ==
  ASSUME SessionInv, Watch, UNCHANGED now, NEW t \in Tab, NEW r \in Requests,
         tab' = [tab EXCEPT ![t] = r],
         tab[t].pc # "insert" \/ r.pc # "in", tab[t].pc # "delete" \/ r.pc # "out"
  PROVE  Moves(t, 0, 0) /\ UNCHANGED life
<1>1. \A j \in 1..MaxToken : ~Begun(j) /\ ~LoggedOut(j)
  BY Tabs DEF Begun, LoggedOut
<1>2. life' = [j \in 1..MaxToken |-> life[j]]
  BY <1>1, Zenon DEF Watch
<1>3. life = [j \in 1..MaxToken |-> life[j]]
  BY DEF SessionInv, SessionType
<1>4. \A j \in 1..MaxToken : j # 0
  OBVIOUS
<1>5. life' = [j \in 1..MaxToken |-> IF j = 0 THEN 0 ELSE life[j]]
  BY <1>2, <1>4
<1> QED
  BY <1>2, <1>3, <1>5, Tabs DEF Moves

LEMMA Beginning ==
  ASSUME SessionInv, Watch, UNCHANGED now, NEW t \in Tab, NEW r \in Requests,
         tab' = [tab EXCEPT ![t] = r], tab[t].pc = "insert", r.pc = "in"
  PROVE  Moves(t, tab[t].token, expiry'[tab[t].token])
<1>1. \A j \in 1..MaxToken : Begun(j) <=> j = tab[t].token
  BY Tabs DEF Begun
<1>2. \A j \in 1..MaxToken : ~LoggedOut(j)
  BY Tabs DEF LoggedOut
<1>3. life' = [j \in 1..MaxToken |-> IF j = tab[t].token THEN expiry'[j] ELSE life[j]]
  BY <1>1, <1>2, Zenon DEF Watch
<1>4. life' = [j \in 1..MaxToken |-> IF j = tab[t].token THEN expiry'[tab[t].token] ELSE life[j]]
  BY <1>3
<1> QED
  BY <1>4, Tabs DEF Moves

LEMMA Ending ==
  ASSUME SessionInv, Watch, UNCHANGED now, NEW t \in Tab, NEW r \in Requests,
         tab' = [tab EXCEPT ![t] = r], tab[t].pc = "delete", r.pc = "out"
  PROVE  Moves(t, tab[t].token, 0)
<1>1. \A j \in 1..MaxToken : LoggedOut(j) <=> j = tab[t].token
  BY Tabs DEF LoggedOut
<1>2. \A j \in 1..MaxToken : ~Begun(j)
  BY Tabs DEF Begun
<1>3. life' = [j \in 1..MaxToken |-> IF j = tab[t].token THEN 0 ELSE life[j]]
  BY <1>1, <1>2, Zenon DEF Watch
<1> QED
  BY <1>3, Tabs DEF Moves

\* What is left to show of a request that moves.
LEMMA MovesKeeps ==
  ASSUME TimesOK, SessionInv, NEW t \in Tab, NEW k, NEW d \in Times, Moves(t, k, d),
         issued' \in issued..MaxToken, cookie' \in 0..issued', tab'[t].token <= issued',
         expiry' \in [1..MaxToken -> Times], RowsTrue', Honest(t)',
         d = 0 \/ \A u \in Tab \ {t} : k # tab[u].token,
         \A u \in Tab \ {t} : tab[u].pc = "insert" =>
           cookie' # tab[u].token /\ tab'[t].token # tab[u].token
  PROVE  SessionInv'
<1>1. \A u \in Tab : Honest(u)'
  BY BesideHonest
<1>2. life' \in [1..MaxToken -> Times]
  BY DEF Moves, SessionInv, SessionType
<1>3. tab' \in [Tab -> Requests] /\ \A u \in Tab : tab'[u].token <= issued'
  <2>1. \A u \in Tab \ {t} : tab'[u] = tab[u]
    BY DEF Moves, SessionInv, SessionType
  <2>2. tab' \in [Tab -> Requests]
    BY DEF Moves, SessionInv, SessionType
  <2>3. \A u \in Tab : tab[u].token \in Nat /\ tab[u].token <= issued /\ issued \in Nat
    BY DEF SessionInv, SessionType, Requests, TimesOK
  <2> QED
    BY <2>1, <2>2, <2>3 DEF TimesOK
<1>4. issued' \in 0..MaxToken /\ now' \in 1..MaxNow
  BY DEF Moves, SessionInv, SessionType, TimesOK
<1> QED
  BY <1>1, <1>2, <1>3, <1>4 DEF SessionInv, SessionType

\* The parts of a request.
LEMMA Parts ==
  ASSUME SessionInv, TimesOK, NEW t \in Tab
  PROVE  /\ tab[t] \in Requests /\ tab[t].token \in 0..MaxToken /\ tab[t].token <= issued
         /\ tab[t].until \in Times /\ tab[t].until \in Nat /\ now \in Nat /\ tab[t].at \in Worker
         /\ issued \in 0..MaxToken /\ issued \in Nat /\ cookie \in 0..issued /\ MaxToken \in Nat
         /\ tab[t].kind \in {"page", "login", "signup", "logout"}
         /\ Honest(t) /\ RowsTrue
BY DEF SessionInv, SessionType, Requests, Times, TimesOK

\* A request goes to another point with what it holds.
LEMMA Moved ==
  ASSUME SessionInv, TimesOK, NEW t \in Tab, NEW s \in PcStates, To(t, s)
  PROVE  \E r \in Requests : /\ tab' = [tab EXCEPT ![t] = r] /\ r.pc = s
                             /\ r.kind = tab[t].kind /\ r.token = tab[t].token
                             /\ r.until = tab[t].until
<1> DEFINE r == [tab[t] EXCEPT !.pc = s]
<1>1. r \in Requests /\ r.pc = s /\ r.kind = tab[t].kind /\ r.token = tab[t].token /\ r.until = tab[t].until
  BY Parts DEF Requests
<1>2. tab' = [tab EXCEPT ![t] = r]
  BY DEF To
<1> QED
  BY <1>1, <1>2

\* A token that is not in the table yet is nobody else's.
LEMMA Undrawn ==
  ASSUME SessionInv, NEW t \in Tab, NEW u \in Tab \ {t}, tab[u].pc = "insert"
  PROVE  tab[u].token # 0 /\ cookie # tab[u].token /\ tab[t].token # tab[u].token
BY DEF SessionInv, Honest

\* A request that draws no token keeps its own, or takes the cookie's or none.
LEMMA StaysKeeps ==
  ASSUME TimesOK, SessionInv, NEW t \in Tab, NEW k, Moves(t, k, 0), issued' = issued,
         cookie' \in {0, cookie, tab[t].token}, tab'[t].token \in {0, cookie, tab[t].token},
         expiry' \in [1..MaxToken -> Times], RowsTrue', Honest(t)'
  PROVE  SessionInv'
<1>1. \A u \in Tab \ {t} : tab[u].pc = "insert" =>
        cookie' # tab[u].token /\ tab'[t].token # tab[u].token
  BY Undrawn
<1>2. 0 \in Times /\ issued' \in issued..MaxToken /\ cookie' \in 0..issued' /\ tab'[t].token <= issued'
  <2>1. /\ issued \in Nat /\ MaxToken \in Nat /\ issued <= MaxToken /\ cookie \in 0..issued
        /\ tab[t].token \in 0..MaxToken /\ tab[t].token <= issued /\ 0 \in Times
    BY Parts DEF Times, TimesOK
  <2> QED
    BY <2>1
<1> QED
  BY <1>1, <1>2, MovesKeeps

LEMMA IdleRequest ==
  ASSUME TimesOK
  PROVE  Idle \in Requests
<1>1. (CHOOSE w \in Worker : TRUE) \in Worker
  BY DEF TimesOK
<1>2. 0 \in 0..(MaxNow + TTL) /\ 0 \in 0..MaxToken /\ "idle" \in PcStates
  BY DEF TimesOK, PcStates
<1> QED
  BY <1>1, <1>2 DEF Idle, Requests

LEMMA BeginKeepsSessions ==
  ASSUME SessionInv, TimesOK, Watch, NEW t \in Tab, NEW w \in Worker,
         NEW k \in {"page", "logout", "login", "signup"}, Begin(t, w, k)
  PROVE  SessionInv'
<1> DEFINE s == [page |-> "session", logout |-> "delete", login |-> "user", signup |-> "create"][k]
           r == [Idle EXCEPT !.kind = k, !.at = w, !.token = cookie, !.pc = s]
<1>1. tab' = [tab EXCEPT ![t] = r] /\ tab[t].pc = "idle" /\ UNCHANGED <<expiry, issued, cookie, now>>
  BY DEF Begin, Started
<1>2. /\ s \in {"session", "delete", "user", "create"}
      /\ s = "session" => k = "page"
      /\ s = "delete" => k # "page"
      /\ s \in {"user", "create"} => k # "page"
  OBVIOUS
<1>3. r.pc = s /\ r.kind = k /\ r.token = cookie /\ r.until = 0 /\ r.at = w
  BY DEF Idle
<1> HIDE DEF s
<1>4. r \in Requests
  <2>1. cookie \in 0..MaxToken /\ s \in PcStates
    BY <1>2 DEF SessionInv, SessionType, TimesOK, PcStates
  <2> QED
    BY <2>1, IdleRequest DEF Requests
<1> HIDE DEF r
<1>5. Moves(t, 0, 0) /\ UNCHANGED life /\ tab'[t] = r
  BY <1>1, <1>4, Quietly, Tabs
<1>6. Honest(t)'
  BY <1>2, <1>3, <1>5 DEF Honest
<1>7. RowsTrue'
  BY <1>1, <1>5, Parts DEF RowsTrue
<1> QED
  BY <1>1, <1>3, <1>5, <1>6, <1>7, StaysKeeps DEF SessionInv, SessionType

LEMMA GetSessionKeeps ==
  ASSUME SessionInv, TimesOK, Watch, NEW t \in Tab, GetSession(t)
  PROVE  SessionInv'
<1> DEFINE row == IF tab[t].token = 0 THEN 0 ELSE expiry[tab[t].token]
           s == IF row = 0 THEN "denied" ELSE "expiry"
           r == [tab[t] EXCEPT !.until = row, !.pc = s]
<1>1. tab' = [tab EXCEPT ![t] = r] /\ tab[t].pc = "session" /\ UNCHANGED <<expiry, issued, cookie, now>>
  BY Zenon DEF GetSession, Started
<1>2. /\ row \in Times /\ row \in Nat
      /\ row = 0 => tab[t].token = 0 \/ expiry[tab[t].token] = 0
      /\ row # 0 => tab[t].token # 0 /\ expiry[tab[t].token] = row
  BY Parts DEF SessionInv, SessionType, Times, TimesOK
<1> HIDE DEF row
<1>3. s \in {"denied", "expiry"} /\ (s = "denied" <=> row = 0)
  OBVIOUS
<1> HIDE DEF s
<1>4. r.pc = s /\ r.kind = tab[t].kind /\ r.token = tab[t].token /\ r.until = row
  BY Parts DEF Requests
<1>5. r \in Requests
  BY <1>2, <1>3, Parts DEF Requests, PcStates, Answers, Times
<1> HIDE DEF r
<1>6. Moves(t, 0, 0) /\ UNCHANGED life /\ tab'[t] = r
  BY <1>1, <1>5, Quietly, Tabs
<1>7. (Alive(t)' => TRUE \in seen'[t]) /\ (~Alive(t)' => FALSE \in seen'[t])
  BY <1>3, <1>4, <1>6, Watched
<1>8. row # 0 => Ends(t)' /\ (row >= now => Alive(t)')
  BY <1>1, <1>2, <1>4, <1>6, Parts DEF RowsTrue, Ends, Alive
<1>9. row = 0 => ~Alive(t)'
  <2>1. tab[t].token # 0 => life[tab[t].token] \in Nat
    BY Parts DEF SessionInv, SessionType, Times, TimesOK
  <2> QED
    BY <1>1, <1>2, <1>4, <1>6, <2>1, Parts DEF RowsTrue, Alive
<1>10. Honest(t)'
  BY <1>1, <1>3, <1>4, <1>6, <1>7, <1>8, <1>9 DEF Honest
<1>11. RowsTrue'
  BY <1>1, <1>6, Parts DEF RowsTrue
<1> QED
  BY <1>1, <1>4, <1>6, <1>10, <1>11, StaysKeeps DEF SessionInv, SessionType

LEMMA CheckExpiryKeeps ==
  ASSUME SessionInv, TimesOK, Watch, NEW t \in Tab, CheckExpiry(t)
  PROVE  SessionInv'
<1> DEFINE s == IF tab[t].until < now THEN "delete" ELSE "served"
<1>1. To(t, s) /\ tab[t].pc = "expiry" /\ UNCHANGED <<expiry, issued, cookie, now>>
  BY DEF CheckExpiry, Started
<1>2. s \in {"delete", "served"} /\ (s = "delete" <=> tab[t].until < now)
  OBVIOUS
<1> HIDE DEF s
<1>3. PICK r \in Requests : /\ tab' = [tab EXCEPT ![t] = r] /\ r.pc = s /\ r.kind = tab[t].kind
                            /\ r.token = tab[t].token /\ r.until = tab[t].until
  BY <1>1, <1>2, Moved DEF PcStates, Answers
<1>4. Moves(t, 0, 0) /\ UNCHANGED life /\ tab'[t] = r
  BY <1>1, <1>3, Quietly, Tabs
<1>5. seen[t] \subseteq seen'[t]
  BY <1>2, <1>3, <1>4, Watched
<1>6. Ends(t)' /\ (tab[t].until >= now => TRUE \in seen[t])
  BY <1>1, <1>3, <1>4, Parts DEF Honest, Ends
<1>7. Honest(t)'
  <2>1. tab[t].until \in Nat /\ now \in Nat /\ now' = now
    BY <1>1, Parts
  <2>2. tab'[t].pc = s /\ tab'[t].until = tab[t].until
    BY <1>3, <1>4
  <2>3. CASE s = "delete"
    BY <1>2, <1>6, <2>1, <2>2, <2>3 DEF Honest
  <2>4. CASE s = "served"
    <3>0. tab[t].until >= now
      BY <1>2, <2>1, <2>4
    <3>1. TRUE \in seen'[t]
      BY <1>5, <1>6, <3>0, Zenon
    <3> QED
      BY <2>2, <2>4, <3>1 DEF Honest
  <2> QED
    BY <1>2, <2>3, <2>4
<1>8. RowsTrue'
  BY <1>1, <1>4, Parts DEF RowsTrue
<1> QED
  BY <1>1, <1>3, <1>4, <1>7, <1>8, StaysKeeps DEF SessionInv, SessionType

\* delete_session, of a session that has ended or of one that now does.
LEMMA DeleteKeeps ==
  ASSUME SessionInv, TimesOK, Watch, NEW t \in Tab, Delete(t)
  PROVE  SessionInv'
<1> DEFINE s == IF tab[t].kind = "page" THEN "denied" ELSE "out"
<1>1. /\ To(t, s) /\ tab[t].pc = "delete" /\ UNCHANGED <<issued, cookie, now>>
      /\ expiry' = IF tab[t].token = 0 THEN expiry ELSE [expiry EXCEPT ![tab[t].token] = 0]
  BY DEF Delete, Started
<1>2. s \in {"denied", "out"} /\ (s = "denied" <=> tab[t].kind = "page")
  OBVIOUS
<1> HIDE DEF s
<1>3. PICK r \in Requests : /\ tab' = [tab EXCEPT ![t] = r] /\ r.pc = s /\ r.kind = tab[t].kind
                            /\ r.token = tab[t].token /\ r.until = tab[t].until
  BY <1>1, <1>2, Moved DEF PcStates, Answers
<1>4. tab'[t] = r
  BY <1>3, Tabs
<1>5. /\ expiry' \in [1..MaxToken -> Times]
      /\ \A j \in 1..MaxToken : expiry'[j] = IF j = tab[t].token THEN 0 ELSE expiry[j]
  <2>1. 0 \in Times /\ expiry \in [1..MaxToken -> Times] /\ tab[t].token \in 0..MaxToken
    BY Parts DEF Times, TimesOK, SessionInv, SessionType
  <2> QED
    BY <1>1, <2>1
<1>6. CASE s = "denied"
  <2>1. Moves(t, 0, 0) /\ UNCHANGED life
    BY <1>1, <1>3, <1>6, Quietly
  <2>2. Ends(t) /\ tab[t].until < now /\ tab[t].until \in Nat /\ now \in Nat
    BY <1>1, <1>2, <1>6, Parts DEF Honest
  <2>3. RowsTrue'
    BY <1>1, <1>5, <2>1, <2>2, Parts DEF RowsTrue, Ends
  <2>4. ~Alive(t)'
    BY <1>1, <1>3, <1>4, <2>1, <2>2 DEF Alive, Ends
  <2>5. FALSE \in seen'[t]
    BY <1>3, <1>4, <1>6, <2>1, <2>4, Watched DEF Moves
  <2>6. Honest(t)'
    BY <1>3, <1>4, <1>6, <2>5 DEF Honest
  <2> QED
    BY <1>1, <1>3, <1>4, <1>5, <2>1, <2>3, <2>6, StaysKeeps
<1>7. CASE s = "out"
  <2>1. Moves(t, tab[t].token, 0)
    BY <1>1, <1>3, <1>7, Ending
  <2>2. RowsTrue'
    BY <1>1, <1>5, <2>1, Parts DEF RowsTrue, Moves
  <2>3. Honest(t)'
    BY <1>2, <1>3, <1>4, <1>7 DEF Honest
  <2> QED
    BY <1>1, <1>3, <1>4, <1>5, <2>1, <2>2, <2>3, StaysKeeps
<1> QED
  BY <1>2, <1>6, <1>7

\* create_session: the row says what the request drew.
LEMMA InsertKeeps ==
  ASSUME SessionInv, TimesOK, Watch, NEW t \in Tab, InsertSession(t)
  PROVE  SessionInv'
<1> DEFINE n == tab[t].token
           d == tab[t].until
<1>1. /\ To(t, "in") /\ tab[t].pc = "insert" /\ UNCHANGED <<issued, cookie, now>>
      /\ expiry' = [expiry EXCEPT ![n] = d]
  BY DEF InsertSession, Started
<1>2. PICK r \in Requests : /\ tab' = [tab EXCEPT ![t] = r] /\ r.pc = "in" /\ r.kind = tab[t].kind
                            /\ r.token = n /\ r.until = d
  BY <1>1, Moved DEF PcStates, Answers
<1>3. tab'[t] = r
  BY <1>2, Tabs
<1>4. n \in 1..MaxToken /\ n <= issued /\ d \in Times /\ \A u \in Tab \ {t} : n # tab[u].token
  <2>1. Honest(t) /\ n \in 0..MaxToken /\ MaxToken \in Nat /\ n <= issued /\ d \in Times
    BY Parts
  <2>2. n # 0 /\ \A u \in Tab \ {t} : n # tab[u].token
    BY <1>1, <2>1 DEF Honest
  <2> HIDE DEF n, d
  <2> QED
    BY <2>1, <2>2
<1>5. /\ expiry' \in [1..MaxToken -> Times] /\ expiry'[n] = d
      /\ \A j \in (1..MaxToken) \ {n} : expiry'[j] = expiry[j]
  BY <1>1, <1>4 DEF SessionInv, SessionType
<1>6. Moves(t, n, d)
  BY <1>1, <1>2, <1>5, Beginning
<1>7. life'[n] = d /\ \A j \in (1..MaxToken) \ {n} : life'[j] = life[j]
  BY <1>4, <1>6 DEF Moves
<1>8. RowsTrue'
  BY <1>1, <1>5, <1>7, Parts DEF RowsTrue
<1>9. Honest(t)'
  BY <1>1, <1>2, <1>3, Parts DEF Honest
<1>10. \A u \in Tab \ {t} : tab[u].pc = "insert" => cookie' # tab[u].token /\ tab'[t].token # tab[u].token
  BY <1>1, <1>2, <1>3, Undrawn
<1>11. /\ issued' \in issued..MaxToken /\ cookie' \in 0..issued' /\ tab'[t].token <= issued'
  BY <1>1, <1>2, <1>3, <1>4, Parts DEF SessionInv, SessionType
<1> HIDE DEF n, d
<1> QED
  BY <1>4, <1>5, <1>6, <1>8, <1>9, <1>10, <1>11, MovesKeeps

\* start_session: the token is new, and nobody else's.
LEMMA DrawKeeps ==
  ASSUME SessionInv, TimesOK, Watch, NEW t \in Tab, tab[t].pc \in {"user", "create"}, Draw(t),
         UNCHANGED <<expiry, cookie, now>>
  PROVE  SessionInv'
<1> DEFINE r == [tab[t] EXCEPT !.pc = "insert", !.token = issued + 1, !.until = now + TTL]
<1>1. tab' = [tab EXCEPT ![t] = r] /\ issued < MaxToken /\ issued' = issued + 1
  BY DEF Draw
<1>2. r.pc = "insert" /\ r.kind = tab[t].kind /\ r.token = issued + 1
  BY Parts DEF Requests
<1>3. issued \in Nat /\ issued + 1 \in 0..MaxToken /\ now + TTL \in 0..(MaxNow + TTL)
  BY <1>1, Parts DEF SessionInv, SessionType, TimesOK
<1>4. r \in Requests
  BY <1>3, Parts DEF Requests, PcStates
<1> HIDE DEF r
<1>5. Moves(t, 0, 0) /\ UNCHANGED life /\ tab'[t] = r
  BY <1>1, <1>2, <1>4, Quietly, Tabs
<1>6. \A u \in Tab : tab[u].token \in Nat /\ tab[u].token <= issued
  BY Parts
<1>7. \A u \in Tab \ {t} : tab'[u] = tab[u] /\ tab[u].token # issued + 1
  BY <1>1, <1>3, <1>4, <1>6, Tabs
<1>8. issued + 1 # 0 /\ cookie # issued + 1 /\ cookie \in Nat /\ cookie <= issued
  BY <1>3, Parts
<1>9. Honest(t)'
  BY <1>2, <1>5, <1>7, <1>8, Parts DEF Honest
<1>10. RowsTrue'
  BY <1>5, Parts DEF RowsTrue
<1>11. \A u \in Tab \ {t} : tab[u].pc = "insert" => cookie' # tab[u].token /\ tab'[t].token # tab[u].token
  BY <1>2, <1>5, <1>7, Undrawn
<1>12. issued' \in issued..MaxToken /\ cookie' \in 0..issued' /\ tab'[t].token <= issued'
  BY <1>1, <1>2, <1>3, <1>5, <1>8, Parts
<1>13. expiry' \in [1..MaxToken -> Times] /\ 0 \in Times
  BY DEF SessionInv, SessionType, Times, TimesOK
<1> QED
  BY <1>5, <1>9, <1>10, <1>11, <1>12, <1>13, MovesKeeps

\* A login or a signup is refused.
LEMMA RefuseKeeps ==
  ASSUME SessionInv, TimesOK, Watch, NEW t \in Tab, tab[t].pc \in {"user", "create"},
         To(t, "denied"), UNCHANGED <<issued, expiry, cookie, now>>
  PROVE  SessionInv'
<1>1. PICK r \in Requests : /\ tab' = [tab EXCEPT ![t] = r] /\ r.pc = "denied"
                            /\ r.kind = tab[t].kind /\ r.token = tab[t].token
  BY Moved DEF PcStates, Answers
<1>2. Moves(t, 0, 0) /\ UNCHANGED life /\ tab'[t] = r
  BY <1>1, Quietly, Tabs
<1>3. Honest(t)'
  BY <1>1, <1>2, Parts DEF Honest
<1>4. RowsTrue'
  BY <1>2, Parts DEF RowsTrue
<1> QED
  BY <1>1, <1>2, <1>3, <1>4, StaysKeeps DEF SessionInv, SessionType

\* A request that fails, or whose answer arrives, is over.
LEMMA OverKeeps ==
  ASSUME SessionInv, TimesOK, Watch, NEW t \in Tab, tab' = [tab EXCEPT ![t] = Idle],
         UNCHANGED <<issued, expiry, now>>, cookie' \in {0, cookie, tab[t].token}
  PROVE  SessionInv'
<1>1. Idle \in Requests /\ Idle.pc = "idle" /\ Idle.token = 0
  BY IdleRequest DEF Idle
<1>2. Moves(t, 0, 0) /\ UNCHANGED life /\ tab'[t] = Idle
  BY <1>1, Quietly, Tabs
<1>3. Honest(t)'
  BY <1>1, <1>2 DEF Honest
<1>4. RowsTrue'
  BY <1>2, Parts DEF RowsTrue
<1> QED
  BY <1>1, <1>2, <1>3, <1>4, StaysKeeps DEF SessionInv, SessionType

LEMMA RequestKeeps ==
  ASSUME SessionInv, TimesOK, Watch, NEW t \in Tab, Handle(t)
  PROVE  SessionInv'
<1>1. CASE Authenticate(t)
  BY <1>1, DrawKeeps, RefuseKeeps DEF Authenticate, Started
<1>2. ASSUME NEW n \in Name, Register(t, n) PROVE SessionInv'
  BY <1>2, DrawKeeps, RefuseKeeps DEF Register, Started
<1>3. CASE Fail(t)
  BY <1>3, OverKeeps DEF Fail, Started
<1>4. CASE Receive(t)
  BY <1>4, OverKeeps DEF Receive, Started
<1> QED
  BY <1>1, <1>2, <1>3, <1>4, BeginKeepsSessions, GetSessionKeeps, CheckExpiryKeeps, DeleteKeeps,
     InsertKeeps DEF Handle

-----------------------------------------------------------------------------
\* The requests go on, or are gone; no session begins or is logged out.
LEMMA RestKeeps ==
  ASSUME SessionInv, TimesOK, Watch, now' \in {now, now + 1}, now' <= MaxNow,
         UNCHANGED <<issued, cookie>>,
         tab' \in [Tab -> Requests], \A t \in Tab : tab'[t] = tab[t] \/ tab'[t] = Idle,
         expiry' \in {expiry, [k \in 1..MaxToken |-> IF expiry[k] < now THEN 0 ELSE expiry[k]]}
  PROVE  SessionInv'
<1>1. Idle.pc = "idle" /\ Idle.token = 0
  BY DEF Idle
<1>2. \A j \in 1..MaxToken : ~Begun(j) /\ ~LoggedOut(j)
  BY <1>1 DEF Begun, LoggedOut
<1>3. life' = life
  <2>1. life' = [j \in 1..MaxToken |-> life[j]]
    BY <1>2, Zenon DEF Watch
  <2> QED
    BY <2>1 DEF SessionInv, SessionType
<1>4. now \in Nat /\ now' \in Nat /\ now <= now' /\ now' \in 1..MaxNow
  BY DEF SessionInv, SessionType, TimesOK
<1>5. /\ expiry' \in [1..MaxToken -> Times]
      /\ \A k \in 1..MaxToken : expiry'[k] = expiry[k] \/ (expiry'[k] = 0 /\ expiry[k] < now)
  <2>1. expiry \in [1..MaxToken -> Times] /\ 0 \in Times
    BY DEF SessionInv, SessionType, Times, TimesOK
  <2> QED
    BY <2>1
<1>6. RowsTrue'
  <2>1. \A k \in 1..MaxToken : life[k] \in Nat
    BY DEF SessionInv, SessionType, Times, TimesOK
  <2> QED
    BY <1>3, <1>4, <1>5, <2>1, Parts DEF RowsTrue, SessionInv
<1>7. ASSUME NEW t \in Tab PROVE Honest(t)' /\ tab'[t].token <= issued'
  <2>1. CASE tab'[t] = Idle
    <3>1. Honest(t)'
      BY <1>1, <2>1 DEF Honest
    <3>2. 0 <= issued'
      BY Parts
    <3> QED
      BY <1>1, <2>1, <3>1, <3>2
  <2>2. CASE tab'[t] = tab[t]
    <3>1. tab[t].pc # "idle" => seen[t] \subseteq seen'[t]
      BY <2>2, Watched
    <3>2. Ends(t)' <=> Ends(t)
      BY <1>3, <2>2 DEF Ends
    <3>3. tab[t].pc = "insert" => \A u \in Tab \ {t} : tab'[u].token # tab[t].token
      BY <1>1, Parts DEF Honest
    <3>4. tab[t].pc # "idle" => /\ TRUE \in seen[t] => TRUE \in seen'[t]
                                /\ FALSE \in seen[t] => FALSE \in seen'[t]
      BY <3>1, Zenon
    <3>5. Honest(t) /\ tab[t].until \in Nat
      BY Parts
    <3>6. /\ tab[t].until >= now' => tab[t].until >= now
          /\ tab[t].until < now => tab[t].until < now'
      BY <1>4, <3>5
    <3>7. Honest(t)'
      <4>1. CASE tab[t].pc = "idle"
        BY <2>2, <4>1 DEF Honest
      <4>2. CASE tab[t].pc = "insert"
        BY <1>3, <2>2, <3>3, <3>5, <4>2 DEF Honest
      <4>3. CASE tab[t].pc = "expiry"
        BY <2>2, <3>2, <3>4, <3>5, <3>6, <4>3 DEF Honest
      <4>4. CASE tab[t].pc \notin {"idle", "insert", "expiry"}
        BY <2>2, <3>2, <3>4, <3>5, <3>6, <4>4 DEF Honest
      <4> QED
        BY <4>1, <4>2, <4>3, <4>4
    <3> QED
      BY <2>2, <3>7, Parts
  <2> QED
    BY <2>1, <2>2
<1> QED
  BY <1>3, <1>4, <1>5, <1>6, <1>7 DEF SessionInv, SessionType

LEMMA SeedKeepsSessions ==
  ASSUME SessionInv, TimesOK, Watch, NEW w \in Worker, Seed(w)
  PROVE  SessionInv'
<1>1. UNCHANGED <<now, issued, cookie>>
  BY Zenon DEF Seed, CountUsers, CreateAdmin, CountAdmins, Choose, Earliest, Promote, Purge, Restart,
     Served
<1>2. expiry' \in {expiry, [k \in 1..MaxToken |-> IF expiry[k] < now THEN 0 ELSE expiry[k]]}
  BY Zenon DEF Seed, CountUsers, CreateAdmin, CountAdmins, Choose, Earliest, Promote, Purge, Restart
<1>3. tab' = tab \/ tab' = [t \in Tab |-> IF tab[t].at = w THEN Idle ELSE tab[t]]
  BY Zenon DEF Seed, CountUsers, CreateAdmin, CountAdmins, Choose, Earliest, Promote, Purge, Restart,
     Served
<1>4. tab \in [Tab -> Requests] /\ now \in 1..MaxNow
  BY DEF SessionInv, SessionType
<1>5. tab' \in [Tab -> Requests] /\ \A t \in Tab : tab'[t] = tab[t] \/ tab'[t] = Idle
  BY <1>3, <1>4, IdleRequest
<1>6. now' <= MaxNow
  BY <1>1, <1>4 DEF TimesOK
<1> QED
  BY <1>1, <1>2, <1>5, <1>6, RestKeeps

LEMMA TickKeepsSessions ==
  ASSUME SessionInv, TimesOK, Watch, Tick
  PROVE  SessionInv'
<1>1. tab' \in [Tab -> Requests] /\ now' = now + 1 /\ now' <= MaxNow /\ \A t \in Tab : tab'[t] = tab[t]
  BY DEF Tick, SessionInv, SessionType, TimesOK
<1> QED
  BY <1>1, RestKeeps DEF Tick

LEMMA InitSessions ==
  ASSUME Init, TimesOK
  PROVE  SessionInv
<1>1. Idle \in Requests /\ Idle.pc = "idle" /\ Idle.token = 0
  BY IdleRequest DEF Idle
<1>2. SessionType
  BY <1>1 DEF Init, SessionType, Times, TimesOK
<1>3. RowsTrue
  BY DEF Init, RowsTrue
<1>4. \A t \in Tab : Honest(t)
  BY <1>1 DEF Init, Honest
<1> QED
  BY <1>2, <1>3, <1>4 DEF SessionInv

LEMMA SessionSteps ==
  ASSUME SessionInv, TimesOK, [Next]_vars
  PROVE  SessionInv'
<1>1. CASE UNCHANGED vars
  BY <1>1 DEF vars, SessionInv, SessionType, RowsTrue, Honest, Ends
<1> QED
  BY <1>1, RequestKeeps, SeedKeepsSessions, TickKeepsSessions DEF Next

\* auth.py:120: a page is served only if its session lived at some instant of the request,
\* and refused only if it did not, for any tabs and workers, whatever logs out, purges,
\* restarts or expires between the read of the row and the comparison.
THEOREM SessionsAreHonoured ==
  ASSUME TimesOK
  PROVE  Spec => []SessionsHonoured
<1>1. Init => SessionInv
  BY InitSessions
<1>2. SessionInv /\ [Next]_vars => SessionInv'
  BY SessionSteps
<1>3. SessionInv => SessionsHonoured
  BY DEF SessionInv, Honest, SessionsHonoured
<1> QED
  BY <1>1, <1>2, <1>3, PTL DEF Spec

-----------------------------------------------------------------------------
(* Types: no two accounts have the same name. *)

UpStates == {"count", "create", "admins", "choose", "earliest", "promote", "purge", "up"}

OneEach == IsFiniteSet(Names) /\ Cardinality(Names) = Len(users)

AccountInv == IInv /\ SessionInv /\ OneEach /\ up \in [Worker -> UpStates]

LEMMA CreatedOnce ==
  ASSUME users \in Seq(User), OneEach, NEW n, NEW pw, Created(n, pw)
  PROVE  OneEach'
<1>1. CASE n \in Names
  BY <1>1 DEF Created, OneEach, Names
<1>2. CASE n \notin Names
  <2> DEFINE new == [name |-> n, pw |-> pw]
  <2>1. users' = Append(users, new) /\ new.name = n
    BY <1>2 DEF Created
  <2> HIDE DEF new
  <2>2. /\ Len(users') = Len(users) + 1 /\ users'[Len(users) + 1] = new
        /\ \A i \in 1..Len(users) : users'[i] = users[i]
        /\ Len(users) \in Nat /\ DOMAIN users = 1..Len(users)
        /\ DOMAIN users' = 1..(Len(users) + 1)
    BY <2>1
  <2>3. Names' = Names \cup {n}
    <3>1. Names' \subseteq Names \cup {n}
      BY <2>1, <2>2 DEF Names
    <3>2. Names \subseteq Names'
      BY <2>2 DEF Names
    <3>3. n \in Names'
      BY <2>1, <2>2 DEF Names
    <3> QED
      BY <3>1, <3>2, <3>3
  <2>4. IsFiniteSet(Names \cup {n}) /\ Cardinality(Names \cup {n}) = Cardinality(Names) + 1
    BY <1>2, FS_AddElement DEF OneEach
  <2> QED
    BY <2>2, <2>3, <2>4 DEF OneEach
<1> QED
  BY <1>1, <1>2

LEMMA AccountsOnce ==
  ASSUME users \in Seq(User), OneEach, [Next]_vars
  PROVE  OneEach'
<1>1. UNCHANGED users => OneEach'
  BY DEF OneEach, Names
<1>2. UNCHANGED users \/ \E n, pw : Created(n, pw)
  <2>1. ASSUME NEW w \in Worker, Seed(w)
        PROVE  UNCHANGED users \/ \E n, pw : Created(n, pw)
    BY <2>1, Zenon DEF Seed, CountUsers, CreateAdmin, CountAdmins, Choose, Earliest, Promote,
       Purge, Restart
  <2>2. ASSUME NEW t \in Tab, Handle(t)
        PROVE  UNCHANGED users \/ \E n, pw : Created(n, pw)
    BY <2>2, Zenon DEF Handle, GetSession, CheckExpiry, Delete, Authenticate, Register,
       InsertSession, Fail, Receive, Begin
  <2> QED
    BY <2>1, <2>2 DEF Next, Tick, vars
<1> QED
  BY <1>1, <1>2, CreatedOnce

LEMMA StartupStates ==
  ASSUME up \in [Worker -> UpStates], [Next]_vars
  PROVE  up' \in [Worker -> UpStates]
<1>1. ASSUME NEW w \in Worker, Seed(w)
      PROVE  \E s \in UpStates : up' = [up EXCEPT ![w] = s]
  BY <1>1 DEF Seed, CountUsers, CreateAdmin, CountAdmins, Choose, Earliest, Promote, Purge,
     Restart, Startup, UpStates
<1>2. ASSUME NEW t \in Tab, Handle(t)
      PROVE  UNCHANGED up
  BY <1>2, Zenon DEF Handle, GetSession, CheckExpiry, Delete, Authenticate, Register,
     InsertSession, Fail, Receive, Begin, Started
<1> QED
  BY <1>1, <1>2 DEF Next, Tick, vars

LEMMA InitAccounts ==
  ASSUME Init, TimesOK
  PROVE  AccountInv
<1>1. CASE users = <<>>
  <2>1. Names = {} /\ Len(users) = 0
    BY <1>1 DEF Names
  <2> QED
    BY <2>1, InitInv, InitSessions, FS_EmptySet DEF Init, AccountInv, OneEach, UpStates
<1>2. ASSUME NEW n \in Name, users = <<[name |-> n, pw |-> "old"]>>
      PROVE  AccountInv
  <2>1. Names = {n} /\ Len(users) = 1
    BY <1>2 DEF Names
  <2> QED
    BY <2>1, InitInv, InitSessions, FS_Singleton DEF Init, AccountInv, OneEach, UpStates
<1> QED
  BY <1>1, <1>2 DEF Init

\* db.py create_user: no two accounts have the same name, no request holds a token that was
\* not drawn, and only an account is flagged an admin.
THEOREM AccountTypes ==
  ASSUME TimesOK
  PROVE  Spec => []TypeOK
<1>1. Init => AccountInv
  BY InitAccounts
<1>2. AccountInv /\ [Next]_vars => AccountInv'
  BY NextKeeps, SessionSteps, AccountsOnce, StartupStates DEF AccountInv, IInv
<1>3. AccountInv => TypeOK
  BY DEF AccountInv, IInv, SessionInv, SessionType, OneEach, UpStates, TypeOK, Requests, PcStates,
         Times
<1> QED
  BY <1>1, <1>2, <1>3, PTL DEF Spec
=============================================================================
