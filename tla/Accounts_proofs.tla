-------------------------- MODULE Accounts_proofs --------------------------
(***************************************************************************)
(* Theorems about accounts, sign-in and sessions, for any number of        *)
(* accounts, requests, threads, server processes and directory events.     *)
(***************************************************************************)
EXTENDS Accounts, FiniteSetTheorems, SequenceTheorems, TLAPS

-----------------------------------------------------------------------------
(* Types.                                                                  *)

UserRow == [active : BOOLEAN, role : Role, person : Person]
Session == [doomed : SUBSET Login, stale : BOOLEAN]

Consuming == [pc : {"consume"}, state : State, process : Process]
Resolving == [pc : {"resolve"}, state : State \cup {None}, process : Process]
Issuing == [pc : {"issue"}, state : State \cup {None}, process : Process, user : User, stale : BOOLEAN]

Authenticated == [pc : {"authenticated"}, by : User, first : BOOLEAN]
Checked == [pc : {"checked"}, user : User, change : Change, writes : BOOLEAN, overtaken : BOOLEAN]

Requests == {Idle} \cup Consuming \cup Resolving \cup Issuing
Updates == {Idle} \cup Authenticated \cup Checked

\* No two accounts are of one member.
Unique(rows) ==
  \A u, v \in User : rows[u] # None /\ rows[v] # None /\ rows[u].person = rows[v].person => u = v

\* Whoever holds an event loop is a request that was given it, or a change being carried out.
Holds(r) == login[r].pc \in {"consume", "issue"}

TypeInv ==
  /\ users \in [User -> {None} \cup UserRow]
  /\ Unique(users)
  /\ sessions \in [User -> Seq(Session)]
  /\ oauth \in [State -> {"none", "open", "spent"}]
  /\ issued \in [State -> Nat]
  /\ login \in [Login -> Requests]
  /\ loop \in [Process -> {None} \cup Login \cup Event]
  /\ edit \in [Edit -> Updates]
  /\ hits \in [Event -> Nat] /\ receipts \subseteq Event
  /\ excused \in BOOLEAN

LoopInv ==
  /\ \A r \in Login : Holds(r) => loop[login[r].process] = r
  /\ \A w \in Process : loop[w] \in Login => Holds(loop[w]) /\ login[loop[w]].process = w

LEMMA Kinds ==
  /\ None \notin Login /\ None \notin Event /\ None \notin State /\ None \notin UserRow
  /\ None \notin User /\ None \notin Process
  /\ \A x \in Login : x \notin Event
BY AccountsAssumption DEF UserRow, Role

LEMMA RequestFacts ==
  /\ Idle.pc = "idle"
  /\ \A l \in Consuming : l.pc = "consume" /\ l.state \in State /\ l.process \in Process
  /\ \A l \in Resolving : l.pc = "resolve" /\ l.state \in State \cup {None} /\ l.process \in Process
  /\ \A l \in Issuing : /\ l.pc = "issue" /\ l.state \in State \cup {None} /\ l.process \in Process
                        /\ l.user \in User /\ l.stale \in BOOLEAN
  /\ \A l \in Requests : /\ l.pc \in {"idle", "consume", "resolve", "issue"}
                         /\ l.pc = "consume" => l \in Consuming
                         /\ l.pc = "resolve" => l \in Resolving
                         /\ l.pc = "issue" => l \in Issuing
<1>1. /\ Idle.pc = "idle"
      /\ \A l \in Consuming : l.pc = "consume" /\ l.state \in State /\ l.process \in Process
      /\ \A l \in Resolving : l.pc = "resolve" /\ l.state \in State \cup {None} /\ l.process \in Process
      /\ \A l \in Issuing : /\ l.pc = "issue" /\ l.state \in State \cup {None} /\ l.process \in Process
                            /\ l.user \in User /\ l.stale \in BOOLEAN
  BY SMT DEF Idle, Consuming, Resolving, Issuing
<1>. QED
  BY <1>1, SMT DEF Requests

LEMMA UpdateFacts ==
  /\ \A l \in Authenticated : l.pc = "authenticated" /\ l.by \in User /\ l.first \in BOOLEAN
  /\ \A l \in Checked : /\ l.pc = "checked" /\ l.user \in User /\ l.change \in Change
                        /\ l.writes \in BOOLEAN /\ l.overtaken \in BOOLEAN
  /\ \A l \in Updates : /\ l.pc \in {"idle", "authenticated", "checked"}
                        /\ l.pc = "authenticated" => l \in Authenticated
                        /\ l.pc = "checked" => l \in Checked
<1>1. /\ \A l \in Authenticated : l.pc = "authenticated" /\ l.by \in User /\ l.first \in BOOLEAN
      /\ \A l \in Checked : /\ l.pc = "checked" /\ l.user \in User /\ l.change \in Change
                            /\ l.writes \in BOOLEAN /\ l.overtaken \in BOOLEAN
  BY SMT DEF Authenticated, Checked
<1>2. Idle.pc = "idle"
  BY DEF Idle
<1>. QED
  BY <1>1, <1>2, SMT DEF Updates

LEMMA RowFacts ==
  /\ \A row \in UserRow : row.active \in BOOLEAN /\ row.role \in Role /\ row.person \in Person
  /\ \A x \in Session : x.doomed \subseteq Login /\ x.stale \in BOOLEAN
BY SMT DEF UserRow, Session

LEMMA TypeInvImplies == TypeInv /\ LoopInv => TypeOK
<1> SUFFICES ASSUME TypeInv, LoopInv PROVE TypeOK
  OBVIOUS
<1>1. \A r \in Login : login[r].pc \in {"idle", "consume", "resolve", "issue"}
  BY RequestFacts, SMT DEF TypeInv
<1>2. \A t \in Edit : edit[t].pc \in {"idle", "authenticated", "checked"}
  BY UpdateFacts, SMT DEF TypeInv
<1>3. \A u, v \in User : Exists(u) /\ Exists(v) /\ users[u].person = users[v].person => u = v
  BY DEF TypeInv, Unique, Exists
<1>. QED
  BY <1>1, <1>2, <1>3 DEF TypeInv, TypeOK, LoopInv, UserRow, Session

LEMMA NewUserType == \A role \in Role, p \in Person : NewUser(role, p) \in UserRow
BY DEF NewUser, UserRow

LEMMA TypeInit == Init => TypeInv /\ LoopInv
<1> SUFFICES ASSUME Init PROVE TypeInv /\ LoopInv
  OBVIOUS
<1>1. PICK u \in User : users = [x \in User |-> IF x = u THEN NewUser("admin", Bootstrap) ELSE None]
  BY DEF Init
<1>2. users \in [User -> {None} \cup UserRow]
  BY <1>1, NewUserType, AccountsAssumption DEF Role
<1>3. Unique(users)
  BY <1>1 DEF Unique
<1>4. LoopInv
  BY Kinds, RequestFacts, SMT DEF Init, LoopInv, Holds
<1>5. sessions \in [User -> Seq(Session)]
  BY SMT DEF Init
<1>6. login \in [Login -> Requests] /\ edit \in [Edit -> Updates]
  BY SMT DEF Init, Requests, Updates
<1>7. loop \in [Process -> {None} \cup Login \cup Event]
  BY SMT DEF Init
<1>8. /\ oauth \in [State -> {"none", "open", "spent"}]
      /\ issued \in [State -> Nat]
      /\ hits \in [Event -> Nat] /\ receipts \subseteq Event
  BY SMT DEF Init
<1>9. excused \in BOOLEAN
  BY DEF Init
<1>. QED
  BY <1>2, <1>3, <1>4, <1>5, <1>6, <1>7, <1>8, <1>9 DEF TypeInv

-----------------------------------------------------------------------------
(* Sequences of sessions.                                                  *)

\* A sequence changed element by element keeps its length.
LEMMA SeqMapped ==
  ASSUME NEW S, NEW s \in Seq(S), NEW t, t = [i \in DOMAIN s |-> t[i]], \A i \in DOMAIN s : t[i] \in S
  PROVE  t \in Seq(S) /\ Len(t) = Len(s) /\ DOMAIN t = DOMAIN s
<1>1. Len(s) \in Nat /\ DOMAIN s = 1..Len(s)
  BY LenProperties
<1>2. t \in [1..Len(s) -> S]
  BY <1>1
<1>3. t \in Seq(S)
  BY <1>1, <1>2, IsASeq
<1>. QED
  BY <1>1, <1>2, <1>3, LenProperties

LEMMA SessionMarked ==
  \A x \in Session : /\ [x EXCEPT !.stale = TRUE] \in Session
                     /\ [x EXCEPT !.stale = TRUE].doomed = x.doomed
                     /\ [x EXCEPT !.stale = TRUE].stale = TRUE
BY DEF Session

LEMMA SessionDoomed ==
  \A x \in Session, r \in Login : /\ [x EXCEPT !.doomed = @ \cup {r}] \in Session
                                  /\ [x EXCEPT !.doomed = @ \cup {r}].doomed = x.doomed \cup {r}
                                  /\ [x EXCEPT !.doomed = @ \cup {r}].stale = x.stale
BY DEF Session

LEMMA SessionReset ==
  \A x \in Session : /\ [x EXCEPT !.doomed = {}] \in Session
                     /\ [x EXCEPT !.doomed = {}].doomed = {}
                     /\ [x EXCEPT !.doomed = {}].stale = x.stale
BY DEF Session

\* What marking the sessions of changed accounts does.
LEMMA MarkedFacts ==
  ASSUME NEW rows \in [User -> Seq(Session)]
  PROVE  /\ Marked(rows) \in [User -> Seq(Session)]
         /\ \A u \in User : /\ Len(Marked(rows)[u]) = Len(rows[u])
                            /\ DOMAIN Marked(rows)[u] = DOMAIN rows[u]
                            /\ users'[u] = users[u] => Marked(rows)[u] = rows[u]
                            /\ \A i \in DOMAIN rows[u] : Marked(rows)[u][i].doomed = rows[u][i].doomed
<1>1. ASSUME NEW u \in User
      PROVE  /\ Marked(rows)[u] \in Seq(Session)
             /\ Len(Marked(rows)[u]) = Len(rows[u])
             /\ DOMAIN Marked(rows)[u] = DOMAIN rows[u]
             /\ users'[u] = users[u] => Marked(rows)[u] = rows[u]
             /\ \A i \in DOMAIN rows[u] : Marked(rows)[u][i].doomed = rows[u][i].doomed
  <2>. DEFINE s == rows[u]
              t == [i \in DOMAIN s |-> [s[i] EXCEPT !.stale = TRUE]]
  <2>1. s \in Seq(Session) /\ \A i \in DOMAIN s : s[i] \in Session
    BY ElementOfSeq, LenProperties
  <2>2. t = [i \in DOMAIN s |-> t[i]]
    OBVIOUS
  <2>3. \A i \in DOMAIN s : t[i] \in Session /\ t[i].doomed = s[i].doomed
    BY <2>1, SessionMarked
  <2>4. Marked(rows)[u] = IF users'[u] = users[u] THEN s ELSE t
    BY DEF Marked
  <2>. HIDE DEF t, s
  <2>5. t \in Seq(Session) /\ Len(t) = Len(s) /\ DOMAIN t = DOMAIN s
    BY <2>1, <2>2, <2>3, SeqMapped
  <2>6. CASE users'[u] = users[u]
    BY <2>1, <2>4, <2>6 DEF s
  <2>7. CASE users'[u] # users[u]
    BY <2>1, <2>3, <2>4, <2>5, <2>7 DEF s
  <2>. QED
    BY <2>6, <2>7
<1>2. Marked(rows) = [u \in User |-> Marked(rows)[u]]
  BY DEF Marked
<1>. QED
  BY <1>1, <1>2

-----------------------------------------------------------------------------
(* Requests.                                                               *)

\* A request is for an account that exists, and so is every session.
LiveInv ==
  /\ \A r \in Login : login[r].pc = "issue" => users[login[r].user] # None
  /\ \A u \in User : sessions[u] # << >> => users[u] # None
  /\ \A t \in Edit : edit[t].pc = "checked" => users[edit[t].user] # None

BaseInv == TypeInv /\ LoopInv /\ LiveInv

LEMMA NewRequests ==
  /\ \A s \in State, w \in Process : [pc |-> "consume", state |-> s, process |-> w] \in Consuming
  /\ \A s \in State \cup {None}, w \in Process : [pc |-> "resolve", state |-> s, process |-> w] \in Resolving
  /\ \A s \in State \cup {None}, w \in Process, u \in User, b \in BOOLEAN :
       [pc |-> "issue", state |-> s, process |-> w, user |-> u, stale |-> b] \in Issuing
BY DEF Consuming, Resolving, Issuing

LEMMA RequestResolves ==
  \A l \in Consuming : /\ [l EXCEPT !.pc = "resolve"] \in Resolving
                       /\ [l EXCEPT !.pc = "resolve"].pc = "resolve"
                       /\ [l EXCEPT !.pc = "resolve"].state = l.state
                       /\ [l EXCEPT !.pc = "resolve"].process = l.process
BY DEF Consuming, Resolving

LEMMA RequestMarked ==
  \A l \in Issuing, b \in BOOLEAN : /\ [l EXCEPT !.stale = b] \in Issuing
                                    /\ [l EXCEPT !.stale = b].stale = b
                                    /\ [l EXCEPT !.stale = b].pc = l.pc
                                    /\ [l EXCEPT !.stale = b].state = l.state
                                    /\ [l EXCEPT !.stale = b].process = l.process
                                    /\ [l EXCEPT !.stale = b].user = l.user
BY DEF Issuing

LEMMA UpdateMarked ==
  \A l \in Checked : /\ [l EXCEPT !.overtaken = TRUE] \in Checked
                     /\ [l EXCEPT !.overtaken = TRUE].overtaken = TRUE
                     /\ [l EXCEPT !.overtaken = TRUE].pc = l.pc
                     /\ [l EXCEPT !.overtaken = TRUE].user = l.user
                     /\ [l EXCEPT !.overtaken = TRUE].change = l.change
                     /\ [l EXCEPT !.overtaken = TRUE].writes = l.writes
BY DEF Checked

\* The same request but for its staleness.
SameRequest(k, l) ==
  /\ k.pc = l.pc
  /\ l.pc # "idle" => k.process = l.process /\ k.state = l.state
  /\ l.pc = "issue" => k.user = l.user

LEMMA LoginsAfterFacts ==
  ASSUME TypeInv, LiveInv,
         users' \in [User -> {None} \cup UserRow], \A u \in User : users[u] # None => users'[u] # None
  PROVE  /\ LoginsAfter \in [Login -> Requests]
         /\ \A r \in Login : /\ SameRequest(LoginsAfter[r], login[r])
                             /\ login[r].pc = "issue" =>
                                  LET u == login[r].user
                                  IN  LoginsAfter[r].stale = IF users'[u].active # users[u].active
                                                             THEN ~users'[u].active ELSE login[r].stale
<1>1. ASSUME NEW r \in Login
      PROVE  /\ LoginsAfter[r] \in Requests
             /\ SameRequest(LoginsAfter[r], login[r])
             /\ login[r].pc = "issue" =>
                  LET u == login[r].user
                  IN  LoginsAfter[r].stale = IF users'[u].active # users[u].active
                                             THEN ~users'[u].active ELSE login[r].stale
  <2>. DEFINE l == login[r]
              k == LoginsAfter[r]
              u == l.user
  <2>1. l \in Requests
    BY DEF TypeInv
  <2>2. k = IF l.pc = "issue" /\ users'[u].active # users[u].active
            THEN [l EXCEPT !.stale = ~users'[u].active] ELSE l
    BY DEF LoginsAfter
  <2>3. l.pc = "issue" => l \in Issuing /\ u \in User /\ users[u] # None
    BY <2>1, RequestFacts DEF LiveInv
  <2>. HIDE DEF k, u, l
  <2>4. CASE l.pc = "issue" /\ users'[u].active # users[u].active
    <3>1. users'[u] \in UserRow
      BY <2>3, <2>4, SMT
    <3>2. (~users'[u].active) \in BOOLEAN
      BY <3>1, RowFacts
    <3>3. /\ k \in Issuing /\ k.stale = (~users'[u].active)
          /\ k.pc = l.pc /\ k.state = l.state /\ k.process = l.process /\ k.user = l.user
      BY <2>2, <2>3, <2>4, <3>2, RequestMarked
    <3>. QED
      BY <2>4, <3>3 DEF SameRequest, Requests, l, k, u
  <2>5. CASE ~(l.pc = "issue" /\ users'[u].active # users[u].active)
    <3>1. k = l
      BY <2>2, <2>5
    <3>. QED
      BY <2>1, <2>5, <3>1 DEF SameRequest, l, k, u
  <2>. QED
    BY <2>4, <2>5
<1>2. LoginsAfter = [r \in Login |-> LoginsAfter[r]]
  BY DEF LoginsAfter
<1>. QED
  BY <1>1, <1>2

\* The same update but for being overtaken.
SameUpdate(k, l) ==
  /\ k.pc = l.pc
  /\ l.pc = "checked" => k.user = l.user /\ k.change = l.change /\ k.writes = l.writes

LEMMA EditsAfterFacts ==
  ASSUME NEW rest \in [Edit -> Updates]
  PROVE  /\ EditsAfter(rest) \in [Edit -> Updates]
         /\ \A t \in Edit : /\ SameUpdate(EditsAfter(rest)[t], rest[t])
                            /\ rest[t].pc = "checked" /\ Administrators' # Administrators
                                 => EditsAfter(rest)[t].overtaken = TRUE
                            /\ Administrators' = Administrators => EditsAfter(rest)[t] = rest[t]
<1>1. ASSUME NEW t \in Edit
      PROVE  /\ EditsAfter(rest)[t] \in Updates
             /\ SameUpdate(EditsAfter(rest)[t], rest[t])
             /\ rest[t].pc = "checked" /\ Administrators' # Administrators
                  => EditsAfter(rest)[t].overtaken = TRUE
             /\ Administrators' = Administrators => EditsAfter(rest)[t] = rest[t]
  <2>. DEFINE l == rest[t]
              k == EditsAfter(rest)[t]
  <2>1. l \in Updates
    OBVIOUS
  <2>2. k = IF l.pc = "checked" /\ Administrators' # Administrators
            THEN [l EXCEPT !.overtaken = TRUE] ELSE l
    BY DEF EditsAfter
  <2>3. l.pc = "checked" => l \in Checked
    BY <2>1, UpdateFacts
  <2>. HIDE DEF k, l
  <2>4. CASE l.pc = "checked" /\ Administrators' # Administrators
    <3>1. /\ k \in Checked /\ k.overtaken = TRUE
          /\ k.pc = l.pc /\ k.user = l.user /\ k.change = l.change /\ k.writes = l.writes
      BY <2>2, <2>3, <2>4, UpdateMarked
    <3>. QED
      BY <2>4, <3>1 DEF SameUpdate, Updates, l, k
  <2>5. CASE ~(l.pc = "checked" /\ Administrators' # Administrators)
    <3>1. k = l
      BY <2>2, <2>5
    <3>. QED
      BY <2>1, <2>5, <3>1 DEF SameUpdate, l, k
  <2>. QED
    BY <2>4, <2>5
<1>2. EditsAfter(rest) = [t \in Edit |-> EditsAfter(rest)[t]]
  BY DEF EditsAfter
<1>. QED
  BY <1>1, <1>2

-----------------------------------------------------------------------------
(* Sign-in keeps the types.                                                *)

LEMMA LoopTaken ==
  ASSUME TypeInv, LoopInv, NEW r \in Login, NEW w \in Process, NEW l,
         ~Holds(r), loop[w] = None, l.pc \in {"consume", "issue"}, l.process = w,
         login' = [login EXCEPT ![r] = l], loop' = [loop EXCEPT ![w] = r]
  PROVE  LoopInv'
<1>1. /\ login'[r] = l /\ \A q \in Login \ {r} : login'[q] = login[q]
      /\ loop'[w] = r /\ \A x \in Process \ {w} : loop'[x] = loop[x]
  BY DEF TypeInv
<1>2. ASSUME NEW q \in Login, Holds(q)' PROVE loop'[login'[q].process] = q
  <2>1. CASE q = r
    BY <1>1, <2>1
  <2>2. CASE q # r
    <3>1. Holds(q) /\ login'[q].process = login[q].process
      BY <1>1, <1>2, <2>2 DEF Holds
    <3>2. login[q].process \in Process
      BY <3>1, RequestFacts DEF TypeInv, Holds
    <3>. QED
      BY <1>1, <3>1, <3>2, Kinds DEF LoopInv
  <2>. QED
    BY <2>1, <2>2
<1>3. ASSUME NEW x \in Process, loop'[x] \in Login PROVE Holds(loop[x])' /\ login'[loop'[x]].process = x
  <2>1. CASE x = w
    <3>1. Holds(r)'
      BY <1>1 DEF Holds
    <3>. QED
      BY <1>1, <2>1, <3>1
  <2>2. CASE x # w
    <3>1. loop'[x] = loop[x] /\ Holds(loop[x]) /\ loop[x] \in Login
      BY <1>1, <1>3, <2>2 DEF LoopInv
    <3>2. loop[x] # r
      BY <3>1
    <3>. QED
      BY <1>1, <3>1, <3>2 DEF LoopInv, Holds
  <2>. QED
    BY <2>1, <2>2
<1>. QED
  BY <1>2, <1>3 DEF LoopInv

LEMMA LoopFreed ==
  ASSUME TypeInv, LoopInv, NEW r \in Login, NEW l,
         Holds(r), l.pc \notin {"consume", "issue"},
         login' = [login EXCEPT ![r] = l], loop' = [loop EXCEPT ![login[r].process] = None]
  PROVE  LoopInv'
<1>. DEFINE w == login[r].process
<1>0. w \in Process /\ loop[w] = r
  BY RequestFacts DEF TypeInv, Holds, LoopInv
<1>1. /\ login'[r] = l /\ \A q \in Login \ {r} : login'[q] = login[q]
      /\ loop'[w] = None /\ \A x \in Process \ {w} : loop'[x] = loop[x]
  BY <1>0 DEF TypeInv
<1>2. ASSUME NEW q \in Login, Holds(q)' PROVE loop'[login'[q].process] = q
  <2>1. q # r
    BY <1>1, <1>2 DEF Holds
  <2>2. Holds(q) /\ login'[q].process = login[q].process
    BY <1>1, <1>2, <2>1 DEF Holds
  <2>3. login[q].process \in Process
    BY <2>2, RequestFacts DEF TypeInv, Holds
  <2>. QED
    BY <1>0, <1>1, <2>1, <2>2, <2>3 DEF LoopInv
<1>3. ASSUME NEW x \in Process, loop'[x] \in Login PROVE Holds(loop[x])' /\ login'[loop'[x]].process = x
  <2>1. x # w
    BY <1>1, <1>3, Kinds
  <2>2. loop'[x] = loop[x] /\ Holds(loop[x]) /\ login[loop[x]].process = x
    BY <1>1, <1>3, <2>1 DEF LoopInv
  <2>3. loop[x] # r
    BY <1>0, <2>1, <2>2
  <2>. QED
    BY <1>1, <1>3, <2>2, <2>3 DEF Holds
<1>. QED
  BY <1>2, <1>3 DEF LoopInv

LEMMA LoopKept ==
  ASSUME TypeInv, LoopInv, NEW r \in Login, NEW l,
         ~Holds(r), l.pc \notin {"consume", "issue"},
         login' = [login EXCEPT ![r] = l], loop' = loop
  PROVE  LoopInv'
<1>1. login'[r] = l /\ \A q \in Login \ {r} : login'[q] = login[q]
  BY DEF TypeInv
<1>2. ASSUME NEW q \in Login, Holds(q)' PROVE loop'[login'[q].process] = q
  <2>1. q # r
    BY <1>1, <1>2 DEF Holds
  <2>. QED
    BY <1>1, <1>2, <2>1 DEF LoopInv, Holds
<1>3. ASSUME NEW x \in Process, loop'[x] \in Login PROVE Holds(loop[x])' /\ login'[loop'[x]].process = x
  <2>1. Holds(loop[x]) /\ login[loop[x]].process = x /\ loop[x] # r
    BY <1>3 DEF LoopInv
  <2>. QED
    BY <1>1, <1>3, <2>1 DEF Holds
<1>. QED
  BY <1>2, <1>3 DEF LoopInv

LEMMA LoginChanged ==
  ASSUME TypeInv, LiveInv, NEW r \in Login, NEW l \in Requests, login' = [login EXCEPT ![r] = l],
         UNCHANGED users, l.pc = "issue" => users[l.user] # None
  PROVE  /\ login' \in [Login -> Requests]
         /\ \A q \in Login : login'[q].pc = "issue" => users'[login'[q].user] # None
BY DEF TypeInv, LiveInv

LEMMA BaseStartLogin ==
  ASSUME BaseInv, NEW s \in State, StartLogin(s) \/ ExpireState(s)
  PROVE  BaseInv'
<1>1. oauth' \in [State -> {"none", "open", "spent"}]
  <2>1. PICK x \in {"open", "spent"} : oauth' = [oauth EXCEPT ![s] = x]
    BY DEF StartLogin, ExpireState
  <2>. QED
    BY <2>1 DEF BaseInv, TypeInv
<1>2. UNCHANGED <<users, sessions, issued, login, loop, edit, hits, receipts, excused>>
  BY DEF StartLogin, ExpireState
<1>3. TypeInv'
  BY <1>1, <1>2 DEF BaseInv, TypeInv
<1>4. LoopInv' /\ LiveInv'
  BY <1>2 DEF BaseInv, LoopInv, LiveInv, Holds
<1>. QED
  BY <1>3, <1>4 DEF BaseInv

LEMMA BaseCallback ==
  ASSUME BaseInv, NEW r \in Login, NEW s \in State, NEW w \in Process, Callback(r, s, w)
  PROVE  BaseInv'
<1>. DEFINE l == [pc |-> "consume", state |-> s, process |-> w]
<1>1. l \in Consuming /\ l \in Requests /\ l.pc = "consume" /\ l.process = w
  BY NewRequests DEF Requests
<1>2. /\ login' = [login EXCEPT ![r] = l] /\ loop' = [loop EXCEPT ![w] = r]
      /\ login[r].pc = "idle" /\ loop[w] = None
      /\ UNCHANGED <<users, sessions, oauth, issued, edit, hits, receipts, excused>>
  BY DEF Callback
<1>. HIDE DEF l
<1>3. LoopInv'
  BY <1>1, <1>2, LoopTaken DEF Holds, BaseInv
<1>4. loop' \in [Process -> {None} \cup Login \cup Event]
  BY <1>2 DEF BaseInv, TypeInv
<1>5. login' \in [Login -> Requests] /\ \A q \in Login : login'[q].pc = "issue" => users'[login'[q].user] # None
  BY <1>1, <1>2, LoginChanged DEF BaseInv
<1>6. TypeInv' /\ LiveInv'
  BY <1>2, <1>4, <1>5 DEF BaseInv, TypeInv, LiveInv
<1>. QED
  BY <1>3, <1>6 DEF BaseInv

LEMMA BaseConsume ==
  ASSUME BaseInv, NEW r \in Login, Consume(r)
  PROVE  BaseInv'
<1>1. /\ loop' = [loop EXCEPT ![login[r].process] = None] /\ login[r].pc = "consume"
      /\ UNCHANGED <<users, sessions, issued, edit, hits, receipts, excused>>
  BY DEF Consume
<1>2. login[r] \in Consuming /\ login[r].process \in Process /\ login[r].state \in State
  BY <1>1, RequestFacts DEF BaseInv, TypeInv
<1>3. PICK l \in Requests : l.pc \in {"idle", "resolve"} /\ login' = [login EXCEPT ![r] = l]
  <2>1. CASE Consumable(login[r].state)
    BY <1>2, <2>1, RequestResolves DEF Consume, Requests
  <2>2. CASE ~Consumable(login[r].state)
    BY <2>2, RequestFacts DEF Consume, Requests
  <2>. QED
    BY <2>1, <2>2
<1>4. oauth' \in [State -> {"none", "open", "spent"}]
  BY <1>2 DEF Consume, BaseInv, TypeInv
<1>5. LoopInv'
  <2>1. l.pc \notin {"consume", "issue"} /\ Holds(r)
    BY <1>1, <1>3 DEF Holds
  <2>. QED
    BY <1>1, <1>3, <2>1, LoopFreed DEF BaseInv
<1>6. loop' \in [Process -> {None} \cup Login \cup Event]
  BY <1>1 DEF BaseInv, TypeInv
<1>7. login' \in [Login -> Requests] /\ \A q \in Login : login'[q].pc = "issue" => users'[login'[q].user] # None
  BY <1>1, <1>3, LoginChanged DEF BaseInv
<1>8. TypeInv' /\ LiveInv'
  BY <1>1, <1>4, <1>6, <1>7 DEF BaseInv, TypeInv, LiveInv
<1>. QED
  BY <1>5, <1>8 DEF BaseInv

\* A request that neither held an event loop nor takes one.
LEMMA BaseAside ==
  ASSUME BaseInv, NEW r \in Login, NEW l \in Requests, ~Holds(r), l.pc \in {"idle", "resolve"},
         login' = [login EXCEPT ![r] = l],
         UNCHANGED <<users, sessions, oauth, issued, loop, edit, hits, receipts, excused>>
  PROVE  BaseInv'
<1>1. LoopInv'
  BY LoopKept DEF BaseInv
<1>2. login' \in [Login -> Requests] /\ \A q \in Login : login'[q].pc = "issue" => users'[login'[q].user] # None
  BY LoginChanged DEF BaseInv
<1>3. TypeInv' /\ LiveInv'
  BY <1>2 DEF BaseInv, TypeInv, LiveInv
<1>. QED
  BY <1>1, <1>3 DEF BaseInv

LEMMA BaseMiniLogin ==
  ASSUME BaseInv, NEW r \in Login, NEW w \in Process, MiniLogin(r, w)
  PROVE  BaseInv'
<1>. DEFINE l == [pc |-> "resolve", state |-> None, process |-> w]
<1>1. l \in Requests /\ l.pc = "resolve"
  BY NewRequests DEF Requests
<1>2. ~Holds(r) /\ login' = [login EXCEPT ![r] = l]
  BY DEF MiniLogin, Holds
<1>. HIDE DEF l
<1>. QED
  BY <1>1, <1>2, BaseAside DEF MiniLogin

LEMMA BaseLoginEnds ==
  ASSUME BaseInv, NEW r \in Login, NEW p \in Person, ResolveFails(r) \/ Denied(r, p)
  PROVE  BaseInv'
<1>1. Idle \in Requests /\ Idle.pc = "idle"
  BY RequestFacts DEF Requests
<1>2. ~Holds(r) /\ login' = [login EXCEPT ![r] = Idle]
  BY DEF ResolveFails, Denied, Holds
<1>. QED
  BY <1>1, <1>2, BaseAside DEF ResolveFails, Denied

LEMMA KeptFacts ==
  ASSUME NEW s \in Seq(Session), NEW r
  PROVE  /\ IsFiniteSet(Listed(s, r))
         /\ Cardinality(Listed(s, r)) \in Nat
         /\ Cardinality(Listed(s, r)) <= Len(s)
         /\ Kept(s, r) \in Seq(Session)
         /\ Len(Kept(s, r)) = Len(s) - Cardinality(Listed(s, r))
         /\ \A i \in 1..(Len(s) - Cardinality(Listed(s, r))) :
              Kept(s, r)[i] = s[Cardinality(Listed(s, r)) + i]
<1>. DEFINE c == Cardinality(Listed(s, r))
            n == Len(s)
<1>1. n \in Nat /\ DOMAIN s = 1..n /\ \A i \in 1..n : s[i] \in Session
  BY LenProperties, ElementOfSeq
<1>2. IsFiniteSet(1..n) /\ Cardinality(1..n) = n
  <2>1. 1 \in Int /\ n \in Int
    BY <1>1
  <2>2. IsFiniteSet(1..n) /\ Cardinality(1..n) = IF 1 > n THEN 0 ELSE n - 1 + 1
    BY <2>1, FS_Interval
  <2>. QED
    BY <1>1, <2>2, SMT
<1>3. Listed(s, r) \in SUBSET (1..n)
  BY <1>1 DEF Listed
<1>4. IsFiniteSet(Listed(s, r)) /\ c \in Nat /\ c <= n
  BY <1>2, <1>3, FS_Subset, FS_CardinalityType
<1>5. Kept(s, r) = SubSeq(s, c + 1, n)
  BY DEF Kept
<1>. HIDE DEF c, n
<1>6. \A i \in (c + 1)..n : s[i] \in Session
  BY <1>1, <1>4, SMT
<1>7. /\ SubSeq(s, c + 1, n) \in Seq(Session)
      /\ Len(SubSeq(s, c + 1, n)) = IF c + 1 <= n THEN n - (c + 1) + 1 ELSE 0
      /\ \A i \in 1 .. (n - (c + 1) + 1) : SubSeq(s, c + 1, n)[i] = s[c + 1 + i - 1]
  <2>1. c + 1 \in Int /\ n \in Int
    BY <1>1, <1>4, SMT
  <2>. QED
    BY <1>6, <2>1, SubSeqProperties
<1>8. n - (c + 1) + 1 = n - c /\ (c + 1 <= n \/ n - c = 0)
  BY <1>1, <1>4, SMT
<1>9. Len(Kept(s, r)) = n - c
  BY <1>1, <1>4, <1>5, <1>7, SMT
<1>10. ASSUME NEW i \in 1..(n - c) PROVE Kept(s, r)[i] = s[c + i]
  <2>1. c + 1 + i - 1 = c + i /\ i \in 1 .. (n - (c + 1) + 1)
    BY <1>1, <1>4, SMT
  <2>2. SubSeq(s, c + 1, n)[i] = s[c + 1 + i - 1]
    BY <1>7, <2>1
  <2>. QED
    BY <1>5, <2>1, <2>2
<1>. QED
  BY <1>4, <1>5, <1>7, <1>9, <1>10 DEF c, n

LEMMA RemoveAtFacts ==
  ASSUME NEW s \in Seq(Session), NEW i \in DOMAIN s
  PROVE  /\ RemoveAt(s, i) \in Seq(Session)
         /\ Len(RemoveAt(s, i)) = Len(s) - 1
         /\ \A j \in 1..(Len(s) - 1) : RemoveAt(s, i)[j] = IF j < i THEN s[j] ELSE s[j + 1]
<1>. DEFINE n == Len(s)
            left == SubSeq(s, 1, i - 1)
            right == SubSeq(s, i + 1, n)
<1>1. n \in Nat /\ DOMAIN s = 1..n /\ \A j \in 1..n : s[j] \in Session
  BY LenProperties, ElementOfSeq
<1>2. i \in Int /\ i - 1 \in Int /\ i + 1 \in Int /\ n \in Int /\ 1 <= i /\ i <= n
  BY <1>1, SMT
<1>3. (\A j \in 1..(i - 1) : s[j] \in Session) /\ (\A j \in (i + 1)..n : s[j] \in Session)
  BY <1>1, <1>2, SMT
<1>. HIDE DEF n
<1>4. /\ left \in Seq(Session)
      /\ Len(left) = IF 1 <= i - 1 THEN (i - 1) - 1 + 1 ELSE 0
      /\ \A j \in 1 .. ((i - 1) - 1 + 1) : left[j] = s[1 + j - 1]
  BY <1>2, <1>3, SubSeqProperties
<1>5. /\ right \in Seq(Session)
      /\ Len(right) = IF i + 1 <= n THEN n - (i + 1) + 1 ELSE 0
      /\ \A j \in 1 .. (n - (i + 1) + 1) : right[j] = s[i + 1 + j - 1]
  BY <1>2, <1>3, SubSeqProperties
<1>6. RemoveAt(s, i) = left \o right
  BY DEF RemoveAt, n
<1>. HIDE DEF left, right
<1>7. Len(left) = i - 1 /\ Len(right) = n - i
  BY <1>2, <1>4, <1>5, SMT
<1>8. /\ left \o right \in Seq(Session)
      /\ Len(left \o right) = Len(left) + Len(right)
      /\ \A j \in 1 .. Len(left) + Len(right) :
           (left \o right)[j] = IF j <= Len(left) THEN left[j] ELSE right[j - Len(left)]
  BY <1>4, <1>5, ConcatProperties
<1>9. Len(left) + Len(right) = n - 1
  BY <1>2, <1>7, SMT
<1>10. ASSUME NEW j \in 1..(n - 1)
       PROVE  (left \o right)[j] = IF j < i THEN s[j] ELSE s[j + 1]
  <2>0. j \in Int /\ 1 <= j /\ j <= n - 1
    BY <1>2, SMT
  <2>1. (left \o right)[j] = IF j <= i - 1 THEN left[j] ELSE right[j - (i - 1)]
    BY <1>7, <1>8, <1>9, SMT
  <2>2. CASE j < i
    <3>1. j \in 1 .. ((i - 1) - 1 + 1) /\ 1 + j - 1 = j /\ j <= i - 1
      BY <1>2, <2>0, <2>2, SMT
    <3>. QED
      BY <1>4, <2>1, <2>2, <3>1
  <2>3. CASE ~(j < i)
    <3>1. j - (i - 1) \in 1 .. (n - (i + 1) + 1) /\ i + 1 + (j - (i - 1)) - 1 = j + 1 /\ ~(j <= i - 1)
      BY <1>2, <2>0, <2>3, SMT
    <3>. QED
      BY <1>5, <2>1, <2>3, <3>1
  <2>. QED
    BY <2>2, <2>3
<1>. QED
  BY <1>6, <1>8, <1>9, <1>10 DEF n

LEMMA BaseLookUp ==
  ASSUME BaseInv, NEW r \in Login, NEW p \in Person, LookUp(r, p)
  PROVE  BaseInv'
<1>1. PICK u \in Bound(p) :
        /\ users[u].active
        /\ login' = [login EXCEPT ![r] = [pc |-> "issue", state |-> login[r].state,
                       process |-> login[r].process, user |-> u, stale |-> FALSE]]
        /\ sessions' = [sessions EXCEPT ![u] = ListOldest(sessions[u], r)]
  BY DEF LookUp, BaseInv, TypeInv
<1>2. u \in User /\ users[u] # None
  BY DEF Bound, Exists
<1>3. /\ login[r].pc = "resolve" /\ loop[login[r].process] = None
      /\ loop' = [loop EXCEPT ![login[r].process] = r]
      /\ UNCHANGED <<users, oauth, issued, edit, hits, receipts, excused>>
  BY DEF LookUp
<1>. DEFINE w == login[r].process
            l == [pc |-> "issue", state |-> login[r].state, process |-> w, user |-> u, stale |-> FALSE]
            s == sessions[u]
            t == ListOldest(s, r)
<1>4. w \in Process /\ login[r].state \in State \cup {None}
  BY <1>3, RequestFacts DEF BaseInv, TypeInv
<1>5. l \in Requests /\ l.pc = "issue" /\ l.process = w /\ l.user = u
  BY <1>2, <1>4, NewRequests DEF Requests
<1>6. s \in Seq(Session) /\ \A i \in DOMAIN s : s[i] \in Session
  BY <1>2, ElementOfSeq, LenProperties DEF BaseInv, TypeInv
<1>7. (\A i \in DOMAIN s : t[i] \in Session) /\ t = [i \in DOMAIN s |-> t[i]]
  BY <1>6, SessionDoomed DEF ListOldest
<1>8. login' = [login EXCEPT ![r] = l] /\ sessions' = [sessions EXCEPT ![u] = t]
  BY <1>1
<1>. HIDE DEF l, t
<1>9. t \in Seq(Session) /\ Len(t) = Len(s)
  BY <1>6, <1>7, SeqMapped
<1>10. LoopInv'
  <2>1. ~Holds(r)
    BY <1>3 DEF Holds
  <2>. QED
    BY <1>3, <1>4, <1>5, <1>8, <2>1, LoopTaken DEF BaseInv
<1>11. loop' \in [Process -> {None} \cup Login \cup Event]
  BY <1>3, <1>4 DEF BaseInv, TypeInv
<1>12. login' \in [Login -> Requests] /\ \A q \in Login : login'[q].pc = "issue" => users'[login'[q].user] # None
  BY <1>2, <1>3, <1>5, <1>8, LoginChanged DEF BaseInv
<1>13. sessions' \in [User -> Seq(Session)]
  BY <1>2, <1>8, <1>9 DEF BaseInv, TypeInv
<1>14. \A v \in User : sessions'[v] # << >> => users'[v] # None
  BY <1>2, <1>3, <1>8 DEF BaseInv, TypeInv, LiveInv
<1>15. TypeInv' /\ LiveInv'
  BY <1>3, <1>11, <1>12, <1>13, <1>14 DEF BaseInv, TypeInv, LiveInv
<1>. QED
  BY <1>10, <1>15 DEF BaseInv

LEMMA BaseIssue ==
  ASSUME BaseInv, NEW r \in Login, Issue(r)
  PROVE  BaseInv'
<1>. DEFINE u == login[r].user
            x == [doomed |-> {}, stale |-> login[r].stale]
            t == Append(Kept(sessions[u], r), x)
<1>1. /\ login[r].pc = "issue" /\ login' = [login EXCEPT ![r] = Idle]
      /\ loop' = [loop EXCEPT ![login[r].process] = None]
      /\ UNCHANGED <<users, oauth, edit, hits, receipts, excused>>
  BY DEF Issue
<1>2. u \in User /\ login[r].stale \in BOOLEAN /\ users[u] # None
  BY <1>1, RequestFacts DEF BaseInv, TypeInv, LiveInv
<1>3. sessions' = [sessions EXCEPT ![u] = t]
  BY DEF Issue
<1>4. x \in Session
  BY <1>2 DEF Session
<1>5. t \in Seq(Session)
  BY <1>2, <1>4, KeptFacts, AppendProperties DEF BaseInv, TypeInv
<1>. HIDE DEF t
<1>6. sessions' \in [User -> Seq(Session)]
  BY <1>2, <1>3, <1>5 DEF BaseInv, TypeInv
<1>7. \A v \in User : sessions'[v] # << >> => users'[v] # None
  BY <1>1, <1>2, <1>3 DEF BaseInv, TypeInv, LiveInv
<1>8. issued' \in [State -> Nat]
  <2>1. issued' = [s \in State |-> IF s = login[r].state THEN issued[s] + 1 ELSE issued[s]]
    BY DEF Issue
  <2>. QED
    BY <2>1, SMT DEF BaseInv, TypeInv
<1>9. Idle \in Requests /\ Idle.pc = "idle"
  BY RequestFacts DEF Requests
<1>10. LoopInv'
  <2>1. Idle.pc \notin {"consume", "issue"} /\ Holds(r)
    BY <1>1, <1>9 DEF Holds
  <2>. QED
    BY <1>1, <2>1, LoopFreed DEF BaseInv
<1>11. loop' \in [Process -> {None} \cup Login \cup Event]
  BY <1>1 DEF BaseInv, TypeInv
<1>12. login' \in [Login -> Requests] /\ \A q \in Login : login'[q].pc = "issue" => users'[login'[q].user] # None
  BY <1>1, <1>9, LoginChanged DEF BaseInv
<1>13. TypeInv' /\ LiveInv'
  BY <1>1, <1>6, <1>7, <1>8, <1>11, <1>12 DEF BaseInv, TypeInv, LiveInv
<1>. QED
  BY <1>10, <1>13 DEF BaseInv

-----------------------------------------------------------------------------
(* Administration and the directory keep the types.                        *)

LEMMA LoopShifted ==
  ASSUME TypeInv, LoopInv, \A r \in Login : SameRequest(login'[r], login[r]),
         \A w \in Process : loop'[w] = loop[w] \/ (loop'[w] \notin Login /\ loop[w] \notin Login)
  PROVE  LoopInv'
<1>1. ASSUME NEW r \in Login PROVE Holds(r)' <=> Holds(r)
  BY DEF SameRequest, Holds
<1>2. ASSUME NEW r \in Login, Holds(r)' PROVE loop'[login'[r].process] = r
  <2>1. Holds(r) /\ login'[r].process = login[r].process
    BY <1>1, <1>2 DEF SameRequest, Holds
  <2>2. login[r].process \in Process
    BY <2>1, RequestFacts DEF TypeInv, Holds
  <2>. QED
    BY <2>1, <2>2 DEF LoopInv
<1>3. ASSUME NEW w \in Process, loop'[w] \in Login PROVE Holds(loop[w])' /\ login'[loop'[w]].process = w
  <2>1. loop'[w] = loop[w] /\ Holds(loop[w]) /\ login[loop[w]].process = w
    BY <1>3 DEF LoopInv
  <2>. QED
    BY <1>1, <1>3, <2>1 DEF SameRequest, Holds
<1>. QED
  BY <1>2, <1>3 DEF LoopInv

LEMMA BaseEvent ==
  ASSUME BaseInv, NEW e \in Event, NEW w \in Process, Deliver(e, w) \/ Duplicate(e, w)
  PROVE  BaseInv'
<1>1. PICK x \in {None} \cup Event : loop' = [loop EXCEPT ![w] = x]
  BY DEF Deliver, Duplicate
<1>2. loop[w] \notin Login
  BY Kinds DEF Deliver, Duplicate
<1>3. UNCHANGED <<users, sessions, oauth, issued, login, edit, hits, receipts, excused>>
  BY DEF Deliver, Duplicate
<1>4. LoopInv'
  <2>1. \A y \in Process : loop'[y] = loop[y] \/ (loop'[y] \notin Login /\ loop[y] \notin Login)
    BY <1>1, <1>2, Kinds DEF BaseInv, TypeInv
  <2>2. \A r \in Login : SameRequest(login'[r], login[r])
    BY <1>3 DEF SameRequest
  <2>. QED
    BY <2>1, <2>2, LoopShifted DEF BaseInv
<1>5. loop' \in [Process -> {None} \cup Login \cup Event]
  BY <1>1 DEF BaseInv, TypeInv
<1>6. TypeInv' /\ LiveInv'
  BY <1>3, <1>5 DEF BaseInv, TypeInv, LiveInv
<1>. QED
  BY <1>4, <1>6 DEF BaseInv

\* Sessions of one account end.
LEMMA BaseSessions ==
  ASSUME BaseInv, NEW u \in User, sessions' \in [User -> Seq(Session)],
         \A v \in User : v # u => sessions'[v] = sessions[v], sessions[u] # << >>,
         UNCHANGED <<users, oauth, issued, login, loop, edit, hits, receipts, excused>>
  PROVE  BaseInv'
<1>1. TypeInv' /\ LoopInv'
  BY DEF BaseInv, TypeInv, LoopInv, Holds
<1>2. LiveInv'
  BY DEF BaseInv, LiveInv
<1>. QED
  BY <1>1, <1>2 DEF BaseInv

LEMMA RevokedFacts ==
  ASSUME TypeInv, NEW us
  PROVE  /\ Revoked(us) \in [User -> Seq(Session)]
         /\ \A u \in User : Revoked(us)[u] = IF u \in us THEN << >> ELSE sessions[u]
<1>1. << >> \in Seq(Session)
  BY EmptySeq
<1>. QED
  BY <1>1 DEF Revoked, TypeInv

LEMMA BaseEnd ==
  ASSUME BaseInv, NEW u \in User, Logout(u) \/ RevokeUserSessions(u)
  PROVE  BaseInv'
<1>1. UNCHANGED <<users, oauth, issued, login, loop, edit, hits, receipts, excused>>
  BY DEF Logout, RevokeUserSessions
<1>2. CASE Logout(u)
  <2>1. PICK i \in DOMAIN sessions[u] : sessions' = [sessions EXCEPT ![u] = RemoveAt(sessions[u], i)]
    BY <1>2 DEF Logout
  <2>2. RemoveAt(sessions[u], i) \in Seq(Session) /\ sessions[u] # << >>
    BY <2>1, RemoveAtFacts DEF BaseInv, TypeInv
  <2>3. sessions' \in [User -> Seq(Session)] /\ \A v \in User : v # u => sessions'[v] = sessions[v]
    BY <2>1, <2>2 DEF BaseInv, TypeInv
  <2>. QED
    BY <1>1, <2>2, <2>3, BaseSessions
<1>3. CASE RevokeUserSessions(u)
  <2>1. sessions' = Revoked({u}) /\ sessions[u] # << >>
    BY <1>3 DEF RevokeUserSessions
  <2>2. sessions' \in [User -> Seq(Session)] /\ \A v \in User : v # u => sessions'[v] = sessions[v]
    BY <2>1, RevokedFacts DEF BaseInv
  <2>. QED
    BY <1>1, <2>1, <2>2, BaseSessions
<1>. QED
  BY <1>2, <1>3

LEMMA BaseCreateUser ==
  ASSUME BaseInv, NEW u \in User, NEW role \in Role, NEW p \in Person, CreateUser(u, role, p)
  PROVE  BaseInv'
<1>1. /\ users' = [users EXCEPT ![u] = NewUser(role, p)] /\ users[u] = None
      /\ Bound(p) \subseteq {u}
      /\ UNCHANGED <<sessions, oauth, issued, login, loop, edit, hits, receipts, excused>>
  BY DEF CreateUser, Exists, Free
<1>2. NewUser(role, p) \in UserRow /\ NewUser(role, p).person = p
  BY NewUserType DEF NewUser
<1>3. users' \in [User -> {None} \cup UserRow]
  BY <1>1, <1>2 DEF BaseInv, TypeInv
<1>4. /\ users'[u] = NewUser(role, p)
      /\ \A v \in User : v # u => users'[v] = users[v]
  BY <1>1 DEF BaseInv, TypeInv
<1>5. ASSUME NEW v \in User, NEW x \in User, users'[v] # None, users'[x] # None, users'[v].person = users'[x].person
      PROVE  v = x
  <2>1. \A y \in User : y # u => ~(users[y] # None /\ users[y].person = p)
    BY <1>1 DEF Bound, Exists
  <2>. QED
    BY <1>2, <1>4, <1>5, <2>1 DEF BaseInv, TypeInv, Unique
<1>6. Unique(users)'
  BY <1>5 DEF Unique
<1>7. LiveInv'
  BY <1>1, <1>2, <1>4, Kinds DEF BaseInv, LiveInv
<1>8. TypeInv' /\ LoopInv'
  BY <1>1, <1>3, <1>6 DEF BaseInv, TypeInv, LoopInv, Holds
<1>. QED
  BY <1>7, <1>8 DEF BaseInv

LEMMA EditChanged ==
  ASSUME BaseInv, NEW t \in Edit, NEW l \in Updates, edit' = [edit EXCEPT ![t] = l],
         l.pc = "checked" => users[l.user] # None,
         UNCHANGED <<users, sessions, oauth, issued, login, loop, hits, receipts, excused>>
  PROVE  BaseInv'
<1>1. edit' \in [Edit -> Updates] /\ \A x \in Edit : edit'[x].pc = "checked" => users[edit'[x].user] # None
  BY DEF BaseInv, TypeInv, LiveInv
<1>2. TypeInv' /\ LoopInv'
  BY <1>1 DEF BaseInv, TypeInv, LoopInv, Holds
<1>3. LiveInv'
  BY <1>1 DEF BaseInv, LiveInv
<1>. QED
  BY <1>2, <1>3 DEF BaseInv

LEMMA NewUpdates ==
  /\ \A u \in User, b \in BOOLEAN : [pc |-> "authenticated", by |-> u, first |-> b] \in Authenticated
  /\ \A u \in User, c \in Change, b \in BOOLEAN :
       [pc |-> "checked", user |-> u, change |-> c, writes |-> b, overtaken |-> FALSE] \in Checked
BY DEF Authenticated, Checked

LEMMA IdleUpdate == Idle \in Updates /\ Idle.pc = "idle"
BY DEF Updates, Idle

LEMMA BaseAuthenticate ==
  ASSUME BaseInv, NEW t \in Edit, NEW a \in User, Authenticate(t, a)
  PROVE  BaseInv'
<1>. DEFINE l == [pc |-> "authenticated", by |-> a, first |-> users[a].person = Bootstrap]
<1>1. l \in Authenticated /\ l.pc = "authenticated"
  <2>1. (users[a].person = Bootstrap) \in BOOLEAN
    OBVIOUS
  <2>. QED
    BY <2>1, NewUpdates
<1>2. /\ edit' = [edit EXCEPT ![t] = l]
      /\ UNCHANGED <<users, sessions, oauth, issued, login, loop, hits, receipts, excused>>
  BY DEF Authenticate
<1>. HIDE DEF l
<1>3. l \in Updates /\ l.pc # "checked"
  BY <1>1 DEF Updates
<1>. QED
  BY <1>2, <1>3, EditChanged

LEMMA BaseCheckUpdate ==
  ASSUME BaseInv, NEW t \in Edit, NEW u \in User, NEW c \in Change, CheckUpdate(t, u, c)
  PROVE  BaseInv'
<1>. DEFINE l == [pc |-> "checked", user |-> u, change |-> c,
                  writes |-> Changed(users[u], c) # users[u], overtaken |-> FALSE]
<1>1. l \in Checked /\ l.user = u
  <2>1. (Changed(users[u], c) # users[u]) \in BOOLEAN
    OBVIOUS
  <2>. QED
    BY <2>1, NewUpdates
<1>2. /\ edit' = [edit EXCEPT ![t] = IF Permitted(t, u, c) THEN l ELSE Idle]
      /\ users[u] # None
      /\ UNCHANGED <<users, sessions, oauth, issued, login, loop, hits, receipts, excused>>
  BY DEF CheckUpdate, Exists
<1>. HIDE DEF l
<1>3. l \in Updates
  BY <1>1 DEF Updates
<1>. QED
  BY <1>1, <1>2, <1>3, IdleUpdate, EditChanged

LEMMA BaseRefuseUpdate ==
  ASSUME BaseInv, NEW t \in Edit, RefuseUpdate(t)
  PROVE  BaseInv'
BY IdleUpdate, EditChanged DEF RefuseUpdate

\* What a field of an update does to the row.
LEMMA ChangedFacts ==
  ASSUME NEW row \in UserRow, NEW c \in Change
  PROVE  /\ Changed(row, c) \in UserRow
         /\ Changed(row, c).active \in {row.active, TRUE, FALSE}
         /\ c # "disable" /\ row.active => Changed(row, c).active
         /\ c # "demote" /\ row.role = "admin" => Changed(row, c).role = "admin"
<1>1. CASE c = "disable"
  BY <1>1 DEF Changed, UserRow
<1>2. CASE c = "enable"
  BY <1>2 DEF Changed, UserRow
<1>3. CASE c = "promote"
  BY <1>3 DEF Changed, UserRow, RoleOf, Role
<1>4. CASE c = "demote"
  BY <1>4 DEF Changed, UserRow, RoleOf, Role
<1>5. CASE c \notin {"disable", "enable", "promote", "demote"}
  <2>1. c \in Person
    BY <1>5 DEF Change
  <2>2. Changed(row, c) = [row EXCEPT !.person = c]
    BY <1>5 DEF Changed
  <2>. QED
    BY <1>5, <2>1, <2>2 DEF UserRow
<1>. QED
  BY <1>1, <1>2, <1>3, <1>4, <1>5

\* Accounts change, and with them the sessions, the logins and the updates under way.
LEMMA BaseUsers ==
  ASSUME BaseInv, users' \in [User -> {None} \cup UserRow], Unique(users)',
         \A u \in User : users[u] # None => users'[u] # None,
         NEW us \in SUBSET User, NEW rows,
         rows = Revoked(us) \/ rows = sessions,
         sessions' = Marked(rows), login' = LoginsAfter,
         NEW rest \in [Edit -> Updates],
         \A t \in Edit : rest[t].pc = "checked" => rest[t] = edit[t],
         edit' = EditsAfter(rest),
         loop' \in [Process -> {None} \cup Login \cup Event],
         \A w \in Process : loop'[w] = loop[w] \/ (loop'[w] \notin Login /\ loop[w] \notin Login),
         hits' \in [Event -> Nat], receipts' \subseteq Event, excused' \in BOOLEAN,
         UNCHANGED <<oauth, issued>>
  PROVE  BaseInv'
<1>1. rows \in [User -> Seq(Session)] /\ \A u \in User : rows[u] # << >> => sessions[u] # << >>
  BY RevokedFacts DEF BaseInv, TypeInv
<1>2. /\ sessions' \in [User -> Seq(Session)]
      /\ \A u \in User : Len(sessions'[u]) = Len(rows[u])
  BY <1>1, MarkedFacts
<1>3. /\ login' \in [Login -> Requests]
      /\ \A r \in Login : SameRequest(login'[r], login[r])
  BY LoginsAfterFacts DEF BaseInv
<1>4. /\ edit' \in [Edit -> Updates]
      /\ \A t \in Edit : SameUpdate(edit'[t], rest[t])
  BY EditsAfterFacts
<1>5. LoopInv'
  BY <1>3, LoopShifted DEF BaseInv
<1>6. ASSUME NEW r \in Login, login'[r].pc = "issue" PROVE users'[login'[r].user] # None
  <2>1. login[r].pc = "issue" /\ login'[r].user = login[r].user
    BY <1>3, <1>6 DEF SameRequest
  <2>2. login[r].user \in User
    BY <2>1, RequestFacts DEF BaseInv, TypeInv
  <2>. QED
    BY <2>1, <2>2 DEF BaseInv, LiveInv
<1>7. ASSUME NEW u \in User, sessions'[u] # << >> PROVE users'[u] # None
  <2>1. rows[u] # << >>
    <3>. SUFFICES ASSUME rows[u] = << >> PROVE FALSE
      OBVIOUS
    <3>1. Len(sessions'[u]) = 0 /\ sessions'[u] \in Seq(Session)
      BY <1>2
    <3>. QED
      BY <1>7, <3>1, EmptySeq
  <2>. QED
    BY <1>1, <2>1 DEF BaseInv, LiveInv
<1>8. ASSUME NEW t \in Edit, edit'[t].pc = "checked" PROVE users'[edit'[t].user] # None
  <2>1. rest[t].pc = "checked" /\ edit'[t].user = rest[t].user
    BY <1>4, <1>8 DEF SameUpdate
  <2>2. edit[t].pc = "checked" /\ edit'[t].user = edit[t].user
    BY <2>1
  <2>3. edit[t].user \in User
    BY <2>2, UpdateFacts DEF BaseInv, TypeInv
  <2>. QED
    BY <2>2, <2>3 DEF BaseInv, LiveInv
<1>9. TypeInv'
  BY <1>2, <1>3, <1>4 DEF BaseInv, TypeInv
<1>10. LiveInv'
  BY <1>6, <1>7, <1>8 DEF LiveInv
<1>. QED
  BY <1>5, <1>9, <1>10 DEF BaseInv

LEMMA BaseCommitUpdate ==
  ASSUME BaseInv, NEW t \in Edit, CommitUpdate(t)
  PROVE  BaseInv'
<1>. DEFINE u == edit[t].user
            c == edit[t].change
            row == IF edit[t].writes THEN Changed(users[u], c) ELSE users[u]
            left == IF c \in SecurityFields THEN Revoked({u}) ELSE sessions
            rest == [edit EXCEPT ![t] = Idle]
<1>1. /\ edit[t].pc = "checked" /\ Free(row.person, u)
      /\ users' = [users EXCEPT ![u] = row] /\ sessions' = Marked(left)
      /\ login' = LoginsAfter /\ edit' = EditsAfter(rest)
      /\ excused' = (excused \/ (edit[t].overtaken /\ Administrators' = {}))
      /\ UNCHANGED <<oauth, issued, loop, hits, receipts>>
  BY DEF CommitUpdate
<1>2. u \in User /\ c \in Change /\ users[u] \in UserRow
  BY <1>1, UpdateFacts DEF BaseInv, TypeInv, LiveInv
<1>3. row \in UserRow
  BY <1>2, ChangedFacts
<1>4. Bound(row.person) \subseteq {u}
  BY <1>1 DEF Free
<1>5. rest \in [Edit -> Updates] /\ \A x \in Edit : rest[x].pc = "checked" => rest[x] = edit[x]
  BY IdleUpdate DEF BaseInv, TypeInv
<1>6. left = Revoked({u}) \/ left = sessions
  OBVIOUS
<1>. HIDE DEF row, left, rest
<1>7. users' \in [User -> {None} \cup UserRow]
  BY <1>1, <1>2, <1>3 DEF BaseInv, TypeInv
<1>8. /\ users'[u] = row /\ row # None
      /\ \A v \in User : v # u => users'[v] = users[v]
  BY <1>1, <1>2, <1>3, Kinds DEF BaseInv, TypeInv
<1>9. Unique(users)'
  <2>1. ASSUME NEW v \in User, NEW x \in User,
               users'[v] # None, users'[x] # None, users'[v].person = users'[x].person
        PROVE  v = x
    <3>1. \A y \in User : y # u => ~(users[y] # None /\ users[y].person = row.person)
      BY <1>4 DEF Bound, Exists
    <3>2. CASE v = u
      BY <1>8, <2>1, <3>1, <3>2
    <3>3. CASE x = u
      BY <1>8, <2>1, <3>1, <3>3
    <3>4. CASE v # u /\ x # u
      <4>1. users'[v] = users[v] /\ users'[x] = users[x]
        BY <1>8, <3>4
      <4>. QED
        BY <2>1, <4>1 DEF BaseInv, TypeInv, Unique
    <3>. QED
      BY <3>2, <3>3, <3>4
  <2>. QED
    BY <2>1 DEF Unique
<1>10. excused' \in BOOLEAN
  BY <1>1
<1>11. /\ loop' \in [Process -> {None} \cup Login \cup Event]
       /\ \A w \in Process : loop'[w] = loop[w]
       /\ hits' \in [Event -> Nat] /\ receipts' \subseteq Event
  BY <1>1 DEF BaseInv, TypeInv
<1>12. \A v \in User : users[v] # None => users'[v] # None
  BY <1>8
<1>13. {u} \in SUBSET User
  BY <1>2
<1>. QED
  BY <1>1, <1>5, <1>6, <1>7, <1>9, <1>10, <1>11, <1>12, <1>13, BaseUsers

LEMMA BaseCarryOut ==
  ASSUME BaseInv, NEW e \in Event, NEW w \in Process, NEW p \in Person, CarryOut(e, w, p)
  PROVE  BaseInv'
<1>1. /\ loop[w] = e
      /\ receipts' = receipts \cup {e} /\ hits' = [hits EXCEPT ![e] = hits[e] + 1]
      /\ users' = [u \in User |-> IF u \in Bound(p) THEN [users[u] EXCEPT !.active = FALSE] ELSE users[u]]
      /\ sessions' = Marked(Revoked(Bound(p)))
      /\ login' = LoginsAfter /\ edit' = EditsAfter(edit)
      /\ excused' = (excused \/ (Administrators # {} /\ Administrators' = {}))
      /\ loop' = [loop EXCEPT ![w] = None]
      /\ UNCHANGED <<oauth, issued>>
  BY DEF CarryOut
<1>2. \A u \in User : /\ users[u] \in UserRow => /\ users'[u] \in UserRow
                                                 /\ users'[u].person = users[u].person
                      /\ users[u] = None => users'[u] = None
  <2>1. \A x \in UserRow : [x EXCEPT !.active = FALSE] \in UserRow /\ [x EXCEPT !.active = FALSE].person = x.person
    BY DEF UserRow
  <2>. QED
    BY <1>1, <2>1 DEF Bound, Exists
<1>3. \A u \in User : users[u] # None <=> users'[u] # None
  BY <1>2, Kinds DEF BaseInv, TypeInv
<1>4. users' \in [User -> {None} \cup UserRow]
  <2>1. \A u \in User : users'[u] \in {None} \cup UserRow
    BY <1>2 DEF BaseInv, TypeInv
  <2>2. users' = [u \in User |-> users'[u]]
    BY <1>1
  <2>. QED
    BY <2>1, <2>2
<1>5. Unique(users)'
  <2>1. ASSUME NEW v \in User, NEW x \in User,
               users'[v] # None, users'[x] # None, users'[v].person = users'[x].person
        PROVE  v = x
    BY <1>2, <1>3, <2>1 DEF BaseInv, TypeInv, Unique
  <2>. QED
    BY <2>1 DEF Unique
<1>6. /\ loop' \in [Process -> {None} \cup Login \cup Event]
      /\ \A x \in Process : loop'[x] = loop[x] \/ (loop'[x] \notin Login /\ loop[x] \notin Login)
  BY <1>1, Kinds DEF BaseInv, TypeInv
<1>7. hits' \in [Event -> Nat] /\ receipts' \subseteq Event
  BY <1>1 DEF BaseInv, TypeInv
<1>8. excused' \in BOOLEAN
  BY <1>1
<1>9. edit \in [Edit -> Updates] /\ Bound(p) \in SUBSET User
  BY DEF BaseInv, TypeInv, Bound
<1>. QED
  BY <1>1, <1>3, <1>4, <1>5, <1>6, <1>7, <1>8, <1>9, BaseUsers

LEMMA ResetFacts ==
  ASSUME NEW s \in Seq(Session)
  PROVE  LET t == [i \in DOMAIN s |-> [s[i] EXCEPT !.doomed = {}]]
         IN  /\ t \in Seq(Session) /\ Len(t) = Len(s) /\ DOMAIN t = DOMAIN s
             /\ \A i \in DOMAIN s : t[i].doomed = {} /\ t[i].stale = s[i].stale
<1>. DEFINE t == [i \in DOMAIN s |-> [s[i] EXCEPT !.doomed = {}]]
<1>1. \A i \in DOMAIN s : s[i] \in Session
  BY ElementOfSeq, LenProperties
<1>2. \A i \in DOMAIN s : t[i] \in Session /\ t[i].doomed = {} /\ t[i].stale = s[i].stale
  BY <1>1, SessionReset
<1>3. t = [i \in DOMAIN s |-> t[i]]
  OBVIOUS
<1>. HIDE DEF t
<1>4. t \in Seq(Session) /\ Len(t) = Len(s) /\ DOMAIN t = DOMAIN s
  BY <1>2, <1>3, SeqMapped
<1>. QED
  BY <1>2, <1>4 DEF t

LEMMA BaseRestart ==
  ASSUME BaseInv, Restart
  PROVE  BaseInv'
<1>1. /\ login' = [r \in Login |-> Idle] /\ loop' = [w \in Process |-> None] /\ edit' = [t \in Edit |-> Idle]
      /\ sessions' = [u \in User |-> [i \in DOMAIN sessions[u] |-> [sessions[u][i] EXCEPT !.doomed = {}]]]
      /\ UNCHANGED <<oauth, issued, hits, receipts, excused>>
  BY DEF Restart
<1>2. /\ sessions' \in [User -> Seq(Session)]
      /\ \A u \in User : Len(sessions'[u]) = Len(sessions[u])
  <2>1. \A u \in User : sessions'[u] \in Seq(Session) /\ Len(sessions'[u]) = Len(sessions[u])
    BY <1>1, ResetFacts DEF BaseInv, TypeInv
  <2>2. sessions' = [u \in User |-> sessions'[u]]
    BY <1>1
  <2>. QED
    BY <2>1, <2>2
<1>3. /\ users' \in [User -> {None} \cup UserRow] /\ Unique(users)'
      /\ \A u \in User : users[u] # None => users'[u] # None
  <2>1. CASE UNCHANGED users
    BY <2>1 DEF BaseInv, TypeInv, Unique
  <2>2. CASE ~UNCHANGED users
    <3>1. PICK u \in User : users[u] = None /\ users' = [users EXCEPT ![u] = NewUser("admin", Bootstrap)]
      BY <2>2 DEF Restart, Exists
    <3>2. Bound(Bootstrap) = {}
      BY <2>2 DEF Restart
    <3>3. NewUser("admin", Bootstrap) \in UserRow /\ NewUser("admin", Bootstrap).person = Bootstrap
      BY NewUserType, AccountsAssumption DEF NewUser, Role
    <3>4. users' \in [User -> {None} \cup UserRow]
      BY <3>1, <3>3 DEF BaseInv, TypeInv
    <3>5. users'[u] = NewUser("admin", Bootstrap) /\ \A v \in User : v # u => users'[v] = users[v]
      BY <3>1 DEF BaseInv, TypeInv
    <3>6. \A v \in User : ~(users[v] # None /\ users[v].person = Bootstrap)
      BY <3>2 DEF Bound, Exists
    <3>7. Unique(users)'
      <4>1. ASSUME NEW v \in User, NEW x \in User,
                   users'[v] # None, users'[x] # None, users'[v].person = users'[x].person
            PROVE  v = x
        BY <3>3, <3>5, <3>6, <4>1 DEF BaseInv, TypeInv, Unique
      <4>. QED
        BY <4>1 DEF Unique
    <3>. QED
      BY <3>1, <3>3, <3>4, <3>5, <3>7, Kinds
  <2>. QED
    BY <2>1, <2>2
<1>4. LoopInv'
  <2>1. (\A r \in Login : login'[r].pc = "idle") /\ \A w \in Process : loop'[w] = None
    BY <1>1, RequestFacts
  <2>. QED
    BY <2>1, Kinds DEF LoopInv, Holds
<1>5. TypeInv'
  <2>1. login' \in [Login -> Requests] /\ edit' \in [Edit -> Updates]
    BY <1>1, IdleUpdate DEF Requests
  <2>2. loop' \in [Process -> {None} \cup Login \cup Event]
    BY <1>1
  <2>. QED
    BY <1>1, <1>2, <1>3, <2>1, <2>2 DEF BaseInv, TypeInv
<1>6. LiveInv'
  <2>1. \A r \in Login : login'[r].pc = "idle"
    BY <1>1, RequestFacts
  <2>2. \A t \in Edit : edit'[t].pc = "idle"
    BY <1>1, IdleUpdate
  <2>3. ASSUME NEW u \in User, sessions'[u] # << >> PROVE users'[u] # None
    <3>1. sessions[u] # << >>
      <4>. SUFFICES ASSUME sessions[u] = << >> PROVE FALSE
        OBVIOUS
      <4>1. Len(sessions'[u]) = 0 /\ sessions'[u] \in Seq(Session)
        BY <1>2
      <4>. QED
        BY <2>3, <4>1, EmptySeq
    <3>. QED
      BY <1>3, <3>1 DEF BaseInv, LiveInv
  <2>. QED
    BY <2>1, <2>2, <2>3 DEF LiveInv
<1>. QED
  BY <1>4, <1>5, <1>6 DEF BaseInv

LEMMA BaseNext == BaseInv /\ [Next]_vars => BaseInv'
<1> SUFFICES ASSUME BaseInv, [Next]_vars PROVE BaseInv'
  OBVIOUS
<1>1. ASSUME NEW s \in State, StartLogin(s) \/ ExpireState(s) PROVE BaseInv'
  BY <1>1, BaseStartLogin
<1>2. ASSUME NEW r \in Login, NEW w \in Process, MiniLogin(r, w) \/ \E s \in State : Callback(r, s, w)
      PROVE  BaseInv'
  BY <1>2, BaseMiniLogin, BaseCallback
<1>3. ASSUME NEW r \in Login, Consume(r) \/ ResolveFails(r) \/ Issue(r) PROVE BaseInv'
  <2>1. Bootstrap \in Person
    BY AccountsAssumption
  <2>. QED
    BY <1>3, <2>1, BaseConsume, BaseLoginEnds, BaseIssue
<1>4. ASSUME NEW r \in Login, NEW p \in Person, LookUp(r, p) \/ Denied(r, p) PROVE BaseInv'
  BY <1>4, BaseLookUp, BaseLoginEnds
<1>5. ASSUME NEW u \in User, Logout(u) \/ RevokeUserSessions(u) PROVE BaseInv'
  BY <1>5, BaseEnd
<1>6. ASSUME NEW u \in User, NEW role \in Role, NEW p \in Person, CreateUser(u, role, p) PROVE BaseInv'
  BY <1>6, BaseCreateUser
<1>7. ASSUME NEW t \in Edit, NEW a \in User, Authenticate(t, a) PROVE BaseInv'
  BY <1>7, BaseAuthenticate
<1>8. ASSUME NEW t \in Edit, NEW u \in User, NEW c \in Change, CheckUpdate(t, u, c) PROVE BaseInv'
  BY <1>8, BaseCheckUpdate
<1>9. ASSUME NEW t \in Edit, CommitUpdate(t) \/ RefuseUpdate(t) PROVE BaseInv'
  BY <1>9, BaseCommitUpdate, BaseRefuseUpdate
<1>10. ASSUME NEW e \in Event, NEW w \in Process,
              Deliver(e, w) \/ Duplicate(e, w) \/ \E p \in Person : CarryOut(e, w, p)
       PROVE  BaseInv'
  BY <1>10, BaseEvent, BaseCarryOut
<1>11. CASE Restart
  BY <1>11, BaseRestart
<1>12. CASE UNCHANGED vars
  BY <1>12 DEF vars, BaseInv, TypeInv, LoopInv, LiveInv, Holds
<1>. QED
  BY <1>1, <1>2, <1>3, <1>4, <1>5, <1>6, <1>7, <1>8, <1>9, <1>10, <1>11, <1>12 DEF Next

LEMMA BaseInit == Init => BaseInv
<1> SUFFICES ASSUME Init PROVE BaseInv
  OBVIOUS
<1>1. TypeInv /\ LoopInv
  BY TypeInit
<1>2. LiveInv
  <2>1. \A r \in Login : login[r].pc = "idle"
    BY RequestFacts DEF Init
  <2>2. \A t \in Edit : edit[t].pc = "idle"
    BY IdleUpdate DEF Init
  <2>3. \A u \in User : sessions[u] = << >>
    BY DEF Init
  <2>. QED
    BY <2>1, <2>2, <2>3 DEF LiveInv
<1>. QED
  BY <1>1, <1>2 DEF BaseInv

\* Every row and request of the sign-in keeps to its values; no two accounts are one member's, and
\* an event loop belongs to the request that runs on it (models.py, auth.py).
THEOREM AccountsTypeCorrect == Spec => []TypeOK
<1>1. BaseInv => TypeOK
  BY TypeInvImplies DEF BaseInv
<1>. QED
  BY BaseInit, BaseNext, <1>1, PTL DEF Spec

-----------------------------------------------------------------------------
(* A change of the directory is carried out once: its receipt says whether it was.  *)

AppliedInv == \A e \in Event : hits[e] = IF e \in receipts THEN 1 ELSE 0

LEMMA AppliedNext == BaseInv /\ AppliedInv /\ [Next]_vars => AppliedInv'
<1> SUFFICES ASSUME BaseInv, AppliedInv, [Next]_vars PROVE AppliedInv'
  OBVIOUS
<1>1. CASE UNCHANGED <<hits, receipts>>
  BY <1>1 DEF AppliedInv
<1>2. ASSUME NEW e \in Event, NEW w \in Process, NEW p \in Person, CarryOut(e, w, p) PROVE AppliedInv'
  <2>1. e \notin receipts /\ receipts' = receipts \cup {e} /\ hits' = [hits EXCEPT ![e] = hits[e] + 1]
    BY <1>2 DEF CarryOut, NewDelivery
  <2>2. hits'[e] = 1 /\ \A x \in Event : x # e => hits'[x] = hits[x]
    BY <2>1 DEF AppliedInv, BaseInv, TypeInv
  <2>. QED
    BY <2>1, <2>2 DEF AppliedInv
<1>3. UNCHANGED <<hits, receipts>> \/ \E e \in Event, w \in Process, p \in Person : CarryOut(e, w, p)
  BY DEF Next, vars, StartLogin, ExpireState, Callback, MiniLogin, Consume, ResolveFails, Issue, LookUp, Denied,
         Logout, CreateUser, RevokeUserSessions, Authenticate, CheckUpdate, CommitUpdate, RefuseUpdate, Deliver,
         Duplicate, Restart
<1>. QED
  BY <1>1, <1>2, <1>3

\* A change the directory reports is carried out at most once, however often it is delivered and
\* to however many processes at a time (wecom_events.py directory_event).
THEOREM AccountsAppliedOnce == Spec => []AppliedOnce
<1>1. Init => AppliedInv
  BY DEF Init, AppliedInv
<1>2. AppliedInv => AppliedOnce
  <2> SUFFICES ASSUME AppliedInv, NEW e \in Event PROVE hits[e] <= 1
    BY DEF AppliedOnce
  <2>1. hits[e] = 0 \/ hits[e] = 1
    BY DEF AppliedInv
  <2>. QED
    BY <2>1, SMT
<1>. QED
  BY BaseInit, BaseNext, AppliedNext, <1>1, <1>2, PTL DEF Spec

-----------------------------------------------------------------------------
(* One session for one OAuth state.                                        *)

\* The login used the state up and has not had its session yet.
HasUsed(l, s) == l.pc \in {"resolve", "issue"} /\ l.state = s

StateInv ==
  /\ \A s \in State : issued[s] <= 1
  /\ \A s \in State : oauth[s] # "spent" => issued[s] = 0
  /\ \A s \in State, r \in Login : HasUsed(login[r], s) => oauth[s] = "spent" /\ issued[s] = 0
  /\ \A s \in State : \A r, q \in Login : HasUsed(login[r], s) /\ HasUsed(login[q], s) => r = q

\* Nothing is issued, states are only used up, and no request uses one.
LEMMA StateKept ==
  ASSUME StateInv, UNCHANGED issued,
         \A s \in State : oauth'[s] = oauth[s] \/ oauth'[s] = "spent" \/ oauth[s] = "none",
         \A s \in State : oauth[s] = "spent" => oauth'[s] = "spent",
         \A s \in State, r \in Login : HasUsed(login'[r], s) => HasUsed(login[r], s)
  PROVE  StateInv'
<1>1. ASSUME NEW s \in State PROVE issued'[s] <= 1 /\ (oauth'[s] # "spent" => issued'[s] = 0)
  BY DEF StateInv
<1>2. ASSUME NEW s \in State, NEW r \in Login, HasUsed(login'[r], s)
      PROVE  oauth'[s] = "spent" /\ issued'[s] = 0
  BY <1>2 DEF StateInv
<1>3. ASSUME NEW s \in State, NEW r \in Login, NEW q \in Login, HasUsed(login'[r], s), HasUsed(login'[q], s)
      PROVE  r = q
  BY <1>3 DEF StateInv
<1>. QED
  BY <1>1, <1>2, <1>3 DEF StateInv

LEMMA StateStart ==
  ASSUME BaseInv, StateInv, NEW s \in State, StartLogin(s) \/ ExpireState(s)
  PROVE  StateInv'
<1>1. PICK x \in {"open", "spent"} : oauth' = [oauth EXCEPT ![s] = x] /\ (x = "open" => oauth[s] = "none")
  BY DEF StartLogin, ExpireState
<1>2. UNCHANGED <<issued, login>> /\ oauth[s] # "spent"
  BY DEF StartLogin, ExpireState
<1>3. \A z \in State : /\ oauth'[z] = oauth[z] \/ oauth'[z] = "spent" \/ oauth[z] = "none"
                       /\ oauth[z] = "spent" => oauth'[z] = "spent"
  BY <1>1, <1>2 DEF BaseInv, TypeInv
<1>. QED
  BY <1>2, <1>3, StateKept

LEMMA StateCallback ==
  ASSUME BaseInv, StateInv, NEW r \in Login, NEW w \in Process, MiniLogin(r, w) \/ \E s \in State : Callback(r, s, w)
  PROVE  StateInv'
<1>1. UNCHANGED <<oauth, issued>>
  BY DEF MiniLogin, Callback
<1>2. PICK l : login' = [login EXCEPT ![r] = l] /\ (l.pc = "consume" \/ l.state = None)
  <2>1. CASE MiniLogin(r, w)
    <3>. DEFINE k == [pc |-> "resolve", state |-> None, process |-> w]
    <3>1. login' = [login EXCEPT ![r] = k] /\ k.state = None
      BY <2>1 DEF MiniLogin
    <3>. QED
      BY <3>1
  <2>2. ASSUME NEW s \in State, Callback(r, s, w)
        PROVE  \E l : login' = [login EXCEPT ![r] = l] /\ (l.pc = "consume" \/ l.state = None)
    <3>. DEFINE k == [pc |-> "consume", state |-> s, process |-> w]
    <3>1. login' = [login EXCEPT ![r] = k] /\ k.pc = "consume"
      BY <2>2 DEF Callback
    <3>. QED
      BY <3>1
  <2>. QED
    BY <2>1, <2>2
<1>3. ASSUME NEW s \in State, NEW q \in Login, HasUsed(login'[q], s) PROVE HasUsed(login[q], s)
  <2>1. login'[r] = l /\ \A x \in Login : x # r => login'[x] = login[x]
    BY <1>2 DEF BaseInv, TypeInv
  <2>2. q # r
    BY <1>2, <1>3, <2>1, Kinds DEF HasUsed
  <2>. QED
    BY <1>3, <2>1, <2>2
<1>. QED
  BY <1>1, <1>3, StateKept

LEMMA StateConsume ==
  ASSUME BaseInv, StateInv, NEW r \in Login, Consume(r)
  PROVE  StateInv'
<1>. DEFINE s == login[r].state
<1>1. login[r].pc = "consume" /\ login[r] \in Consuming /\ s \in State /\ UNCHANGED issued
  BY RequestFacts DEF Consume, BaseInv, TypeInv
<1>2. CASE oauth[s] = "open"
  <2>1. oauth' = [oauth EXCEPT ![s] = "spent"] /\ login' = [login EXCEPT ![r] = [login[r] EXCEPT !.pc = "resolve"]]
    BY <1>2 DEF Consume, Consumable
  <2>2. /\ oauth'[s] = "spent" /\ \A z \in State : z # s => oauth'[z] = oauth[z]
        /\ \A x \in Login : x # r => login'[x] = login[x]
        /\ login'[r].state = s /\ login'[r].pc = "resolve"
    BY <1>1, <2>1, RequestResolves DEF BaseInv, TypeInv
  <2>3. issued[s] = 0 /\ \A q \in Login : ~HasUsed(login[q], s)
    BY <1>1, <1>2 DEF StateInv
  <2>4. ASSUME NEW z \in State, NEW q \in Login, HasUsed(login'[q], z)
        PROVE  (q = r /\ z = s) \/ (q # r /\ z # s /\ HasUsed(login[q], z))
    BY <2>2, <2>3, <2>4 DEF HasUsed
  <2>5. ASSUME NEW z \in State PROVE issued'[z] <= 1 /\ (oauth'[z] # "spent" => issued'[z] = 0)
    BY <1>1, <2>2 DEF StateInv
  <2>6. ASSUME NEW z \in State, NEW q \in Login, HasUsed(login'[q], z)
        PROVE  oauth'[z] = "spent" /\ issued'[z] = 0
    BY <1>1, <2>2, <2>3, <2>4, <2>6 DEF StateInv
  <2>7. ASSUME NEW z \in State, NEW q \in Login, NEW x \in Login, HasUsed(login'[q], z), HasUsed(login'[x], z)
        PROVE  q = x
    BY <2>4, <2>7 DEF StateInv
  <2>. QED
    BY <2>5, <2>6, <2>7 DEF StateInv
<1>3. CASE oauth[s] # "open"
  <2>1. login' = [login EXCEPT ![r] = Idle] /\ UNCHANGED oauth
    BY <1>3 DEF Consume, Consumable
  <2>2. ASSUME NEW z \in State, NEW q \in Login, HasUsed(login'[q], z) PROVE HasUsed(login[q], z)
    BY <2>1, <2>2, RequestFacts DEF BaseInv, TypeInv, HasUsed
  <2>. QED
    BY <1>1, <2>1, <2>2, StateKept
<1>. QED
  BY <1>2, <1>3

LEMMA StateLookUp ==
  ASSUME BaseInv, StateInv, NEW r \in Login, NEW p \in Person, LookUp(r, p)
  PROVE  StateInv'
<1>1. UNCHANGED <<oauth, issued>> /\ login[r].pc = "resolve"
  BY DEF LookUp
<1>2. PICK u : login' = [login EXCEPT ![r] = [pc |-> "issue", state |-> login[r].state,
                           process |-> login[r].process, user |-> u, stale |-> FALSE]]
  BY DEF LookUp
<1>3. ASSUME NEW s \in State, NEW q \in Login, HasUsed(login'[q], s) PROVE HasUsed(login[q], s)
  <2>1. login'[r].state = login[r].state /\ \A x \in Login : x # r => login'[x] = login[x]
    BY <1>2 DEF BaseInv, TypeInv
  <2>. QED
    BY <1>1, <1>3, <2>1 DEF HasUsed
<1>. QED
  BY <1>1, <1>3, StateKept

LEMMA StateEnds ==
  ASSUME BaseInv, StateInv, NEW r \in Login, NEW p \in Person, ResolveFails(r) \/ Denied(r, p)
  PROVE  StateInv'
<1>1. UNCHANGED <<oauth, issued>> /\ login' = [login EXCEPT ![r] = Idle]
  BY DEF ResolveFails, Denied
<1>2. ASSUME NEW z \in State, NEW q \in Login, HasUsed(login'[q], z) PROVE HasUsed(login[q], z)
  BY <1>1, <1>2, RequestFacts DEF BaseInv, TypeInv, HasUsed
<1>. QED
  BY <1>1, <1>2, StateKept

LEMMA StateIssue ==
  ASSUME BaseInv, StateInv, NEW r \in Login, Issue(r)
  PROVE  StateInv'
<1>. DEFINE s == login[r].state
<1>1. /\ login[r].pc = "issue" /\ login' = [login EXCEPT ![r] = Idle] /\ UNCHANGED oauth
      /\ issued' = [z \in State |-> IF z = s THEN issued[z] + 1 ELSE issued[z]]
  BY DEF Issue
<1>2. ASSUME NEW z \in State, NEW q \in Login, HasUsed(login'[q], z)
      PROVE  q # r /\ HasUsed(login[q], z)
  BY <1>1, <1>2, RequestFacts DEF BaseInv, TypeInv, HasUsed
<1>3. s \in State => issued[s] = 0 /\ oauth[s] = "spent" /\ HasUsed(login[r], s)
  BY <1>1 DEF StateInv, HasUsed
<1>4. ASSUME NEW z \in State PROVE issued'[z] <= 1 /\ (oauth'[z] # "spent" => issued'[z] = 0)
  <2>1. CASE z = s
    <3>1. issued'[z] = 0 + 1 /\ oauth'[z] = "spent"
      BY <1>1, <1>3, <2>1
    <3>. QED
      BY <3>1, SMT
  <2>2. CASE z # s
    BY <1>1, <2>2 DEF StateInv
  <2>. QED
    BY <2>1, <2>2
<1>5. ASSUME NEW z \in State, NEW q \in Login, HasUsed(login'[q], z)
      PROVE  oauth'[z] = "spent" /\ issued'[z] = 0
  <2>1. q # r /\ HasUsed(login[q], z)
    BY <1>2, <1>5
  <2>2. z # s
    BY <1>3, <2>1 DEF StateInv
  <2>. QED
    BY <1>1, <2>1, <2>2 DEF StateInv
<1>6. ASSUME NEW z \in State, NEW q \in Login, NEW x \in Login, HasUsed(login'[q], z), HasUsed(login'[x], z)
      PROVE  q = x
  BY <1>2, <1>6 DEF StateInv
<1>. QED
  BY <1>4, <1>5, <1>6 DEF StateInv

LEMMA StateUsers ==
  ASSUME BaseInv, StateInv, BaseInv', login' = LoginsAfter, UNCHANGED <<oauth, issued>>,
         \A u \in User : users[u] # None => users'[u] # None
  PROVE  StateInv'
<1>1. users' \in [User -> {None} \cup UserRow]
  BY DEF BaseInv, TypeInv
<1>2. \A r \in Login : SameRequest(login'[r], login[r])
  BY <1>1, LoginsAfterFacts DEF BaseInv
<1>3. ASSUME NEW z \in State, NEW q \in Login, HasUsed(login'[q], z) PROVE HasUsed(login[q], z)
  BY <1>2, <1>3 DEF SameRequest, HasUsed
<1>. QED
  BY <1>3, StateKept

\* No account is ever deleted, and the directory renames none.
LEMMA UsersStay ==
  /\ \A t \in Edit : BaseInv /\ CommitUpdate(t) => \A u \in User : users[u] # None => users'[u] # None
  /\ \A e \in Event, w \in Process, p \in Person :
       BaseInv /\ CarryOut(e, w, p) => \A u \in User : users[u] # None => users'[u] # None
<1>1. ASSUME NEW t \in Edit, BaseInv, CommitUpdate(t), NEW u \in User, users[u] # None PROVE users'[u] # None
  <2>. DEFINE v == edit[t].user
              row == IF edit[t].writes THEN Changed(users[v], edit[t].change) ELSE users[v]
  <2>1. edit[t].pc = "checked" /\ users' = [users EXCEPT ![v] = row]
    BY <1>1 DEF CommitUpdate
  <2>2. v \in User /\ edit[t].change \in Change /\ users[v] \in UserRow
    BY <1>1, <2>1, UpdateFacts DEF BaseInv, TypeInv, LiveInv
  <2>3. row # None
    <3>1. row \in UserRow
      BY <2>2, ChangedFacts
    <3>. QED
      BY <3>1, Kinds
  <2>. HIDE DEF row
  <2>. QED
    BY <1>1, <2>1, <2>2, <2>3 DEF BaseInv, TypeInv
<1>2. ASSUME NEW e \in Event, NEW w \in Process, NEW p \in Person, BaseInv, CarryOut(e, w, p),
             NEW u \in User, users[u] # None
      PROVE  users'[u] # None
  <2>1. users'[u] = IF u \in Bound(p) THEN [users[u] EXCEPT !.active = FALSE] ELSE users[u]
    BY <1>2 DEF CarryOut
  <2>2. users[u] \in UserRow
    BY <1>2 DEF BaseInv, TypeInv
  <2>3. [users[u] EXCEPT !.active = FALSE] \in UserRow
    BY <2>2 DEF UserRow
  <2>. QED
    BY <1>2, <2>1, <2>3, Kinds
<1>. QED
  BY <1>1, <1>2

LEMMA StateNext == BaseInv /\ StateInv /\ [Next]_vars => StateInv'
<1> SUFFICES ASSUME BaseInv, StateInv, [Next]_vars PROVE StateInv'
  OBVIOUS
<1>0. BaseInv'
  BY BaseNext
<1>1. ASSUME NEW s \in State, StartLogin(s) \/ ExpireState(s) PROVE StateInv'
  BY <1>1, StateStart
<1>2. ASSUME NEW r \in Login, NEW w \in Process, MiniLogin(r, w) \/ \E s \in State : Callback(r, s, w)
      PROVE  StateInv'
  BY <1>2, StateCallback
<1>3. ASSUME NEW r \in Login, Consume(r) \/ ResolveFails(r) \/ Issue(r) PROVE StateInv'
  <2>1. Bootstrap \in Person
    BY AccountsAssumption
  <2>. QED
    BY <1>3, <2>1, StateConsume, StateEnds, StateIssue
<1>4. ASSUME NEW r \in Login, NEW p \in Person, LookUp(r, p) \/ Denied(r, p) PROVE StateInv'
  BY <1>4, StateLookUp, StateEnds
<1>5. CASE UNCHANGED <<oauth, issued, login>>
  BY <1>5, StateKept
<1>6. ASSUME NEW t \in Edit, CommitUpdate(t) PROVE StateInv'
  <2>1. login' = LoginsAfter /\ UNCHANGED <<oauth, issued>>
    BY <1>6 DEF CommitUpdate
  <2>. QED
    BY <1>0, <1>6, <2>1, UsersStay, StateUsers
<1>7. ASSUME NEW e \in Event, NEW w \in Process, NEW p \in Person, CarryOut(e, w, p) PROVE StateInv'
  <2>1. login' = LoginsAfter /\ UNCHANGED <<oauth, issued>>
    BY <1>7 DEF CarryOut
  <2>. QED
    BY <1>0, <1>7, <2>1, UsersStay, StateUsers
<1>8. CASE Restart
  <2>1. \A r \in Login : login'[r].pc = "idle"
    BY <1>8, RequestFacts DEF Restart
  <2>2. UNCHANGED <<oauth, issued>>
    BY <1>8 DEF Restart
  <2>. QED
    BY <2>1, <2>2, StateKept DEF HasUsed
<1>9. \/ \E s \in State : StartLogin(s) \/ ExpireState(s)
      \/ \E r \in Login, w \in Process : MiniLogin(r, w) \/ \E s \in State : Callback(r, s, w)
      \/ \E r \in Login : Consume(r) \/ ResolveFails(r) \/ Issue(r)
      \/ \E r \in Login, p \in Person : LookUp(r, p) \/ Denied(r, p)
      \/ \E t \in Edit : CommitUpdate(t)
      \/ \E e \in Event, w \in Process, p \in Person : CarryOut(e, w, p)
      \/ Restart
      \/ UNCHANGED <<oauth, issued, login>>
  BY DEF Next, vars, Logout, CreateUser, RevokeUserSessions, Authenticate, CheckUpdate, RefuseUpdate, Deliver,
         Duplicate
<1>. QED
  BY <1>1, <1>2, <1>3, <1>4, <1>5, <1>6, <1>7, <1>8, <1>9

\* A state handed out for one login issues at most one session, however many requests bring it to
\* however many processes at once (auth.py _consume_oauth_state).
THEOREM AccountsOneSessionPerState == Spec => []OneSessionPerState
<1>1. Init => StateInv
  <2> SUFFICES ASSUME Init PROVE StateInv
    OBVIOUS
  <2>1. \A r \in Login : login[r].pc = "idle"
    BY RequestFacts DEF Init
  <2>2. \A s \in State : issued[s] = 0
    BY DEF Init
  <2>3. \A s \in State : issued[s] <= 1
    BY <2>2, SMT
  <2>. QED
    BY <2>1, <2>2, <2>3 DEF StateInv, HasUsed
<1>2. StateInv => OneSessionPerState
  BY DEF StateInv, OneSessionPerState
<1>. QED
  BY BaseInit, BaseNext, StateNext, <1>1, <1>2, PTL DEF Spec

-----------------------------------------------------------------------------
(* Sessions of an active account are current.                              *)

FreshInv ==
  /\ \A u \in User : \A i \in DOMAIN sessions[u] : sessions[u][i].stale => ~users[u].active
  /\ \A r \in Login : login[r].pc = "issue" => (login[r].stale => ~users[login[r].user].active)

\* No account changes; each session was there before, and each login knows what it knew.
LEMMA FreshKept ==
  ASSUME FreshInv, UNCHANGED users,
         \A u \in User : \A i \in DOMAIN sessions'[u] :
           \E j \in DOMAIN sessions[u] : sessions'[u][i].stale = sessions[u][j].stale,
         \A r \in Login : login'[r].pc = "issue" => login'[r] = login[r] \/ login'[r].stale = FALSE
  PROVE  FreshInv'
<1>1. ASSUME NEW u \in User, NEW i \in DOMAIN sessions'[u], sessions'[u][i].stale PROVE ~users'[u].active
  BY <1>1 DEF FreshInv
<1>2. ASSUME NEW r \in Login, login'[r].pc = "issue", login'[r].stale PROVE ~users'[login'[r].user].active
  BY <1>2 DEF FreshInv
<1>. QED
  BY <1>1, <1>2 DEF FreshInv

LEMMA FreshLogins ==
  ASSUME BaseInv, FreshInv, UNCHANGED <<users, sessions>>, NEW r \in Login, NEW l,
         login' = [login EXCEPT ![r] = l], l.pc # "issue"
  PROVE  FreshInv'
<1>1. \A q \in Login : login'[q].pc = "issue" => login'[q] = login[q]
  BY DEF BaseInv, TypeInv
<1>. QED
  BY <1>1, FreshKept

LEMMA FreshAside ==
  ASSUME BaseInv, FreshInv, NEW r \in Login, NEW w \in Process, NEW p \in Person,
         \/ MiniLogin(r, w) \/ \E s \in State : Callback(r, s, w)
         \/ Consume(r) \/ ResolveFails(r) \/ Denied(r, p)
  PROVE  FreshInv'
<1>1. UNCHANGED <<users, sessions>>
  BY DEF MiniLogin, Callback, Consume, ResolveFails, Denied
<1>2. CASE MiniLogin(r, w)
  <2>. DEFINE k == [pc |-> "resolve", state |-> None, process |-> w]
  <2>1. login' = [login EXCEPT ![r] = k] /\ k.pc # "issue"
    BY <1>2 DEF MiniLogin
  <2>. QED
    BY <1>1, <2>1, FreshLogins
<1>3. ASSUME NEW s \in State, Callback(r, s, w) PROVE FreshInv'
  <2>. DEFINE k == [pc |-> "consume", state |-> s, process |-> w]
  <2>1. login' = [login EXCEPT ![r] = k] /\ k.pc # "issue"
    BY <1>3 DEF Callback
  <2>. QED
    BY <1>1, <2>1, FreshLogins
<1>4. CASE Consume(r)
  <2>1. login[r] \in Consuming
    BY <1>4, RequestFacts DEF Consume, BaseInv, TypeInv
  <2>. DEFINE k == [login[r] EXCEPT !.pc = "resolve"]
  <2>2. k.pc # "issue" /\ Idle.pc # "issue"
    BY <2>1, RequestResolves, RequestFacts
  <2>3. login' = [login EXCEPT ![r] = k] \/ login' = [login EXCEPT ![r] = Idle]
    BY <1>4 DEF Consume
  <2>. HIDE DEF k
  <2>. QED
    BY <1>1, <2>2, <2>3, FreshLogins
<1>5. CASE ResolveFails(r) \/ Denied(r, p)
  <2>1. login' = [login EXCEPT ![r] = Idle] /\ Idle.pc # "issue"
    BY <1>5, RequestFacts DEF ResolveFails, Denied
  <2>. QED
    BY <1>1, <2>1, FreshLogins
<1>. QED
  BY <1>2, <1>3, <1>4, <1>5

LEMMA FreshLookUp ==
  ASSUME BaseInv, FreshInv, NEW r \in Login, NEW p \in Person, LookUp(r, p)
  PROVE  FreshInv'
<1>1. PICK u \in Bound(p) :
        /\ login' = [login EXCEPT ![r] = [pc |-> "issue", state |-> login[r].state,
                       process |-> login[r].process, user |-> u, stale |-> FALSE]]
        /\ sessions' = [sessions EXCEPT ![u] = ListOldest(sessions[u], r)]
  BY DEF LookUp
<1>2. u \in User /\ UNCHANGED users
  BY DEF Bound, LookUp
<1>3. sessions[u] \in Seq(Session) /\ \A i \in DOMAIN sessions[u] : sessions[u][i] \in Session
  BY <1>2, ElementOfSeq, LenProperties DEF BaseInv, TypeInv
<1>4. /\ DOMAIN ListOldest(sessions[u], r) = DOMAIN sessions[u]
      /\ \A i \in DOMAIN sessions[u] : ListOldest(sessions[u], r)[i].stale = sessions[u][i].stale
  BY <1>3, SessionDoomed DEF ListOldest
<1>5. \A v \in User : v # u => sessions'[v] = sessions[v]
  BY <1>1 DEF BaseInv, TypeInv
<1>6. sessions'[u] = ListOldest(sessions[u], r)
  BY <1>1, <1>2 DEF BaseInv, TypeInv
<1>7. ASSUME NEW v \in User, NEW i \in DOMAIN sessions'[v]
      PROVE  \E j \in DOMAIN sessions[v] : sessions'[v][i].stale = sessions[v][j].stale
  BY <1>4, <1>5, <1>6
<1>8. \A q \in Login : login'[q] = login[q] \/ login'[q].stale = FALSE
  BY <1>1 DEF BaseInv, TypeInv
<1>. QED
  BY <1>2, <1>7, <1>8, FreshKept

LEMMA FreshIssue ==
  ASSUME BaseInv, FreshInv, NEW r \in Login, Issue(r)
  PROVE  FreshInv'
<1>. DEFINE u == login[r].user
            k == Kept(sessions[u], r)
            x == [doomed |-> {}, stale |-> login[r].stale]
            c == Cardinality(Listed(sessions[u], r))
            n == Len(sessions[u])
<1>1. /\ login[r].pc = "issue" /\ login' = [login EXCEPT ![r] = Idle]
      /\ sessions' = [sessions EXCEPT ![u] = Append(k, x)] /\ UNCHANGED users
  BY DEF Issue
<1>2. u \in User /\ login[r].stale \in BOOLEAN /\ sessions[u] \in Seq(Session)
  BY <1>1, RequestFacts DEF BaseInv, TypeInv
<1>3. x \in Session /\ x.stale = login[r].stale
  BY <1>2 DEF Session
<1>4. /\ k \in Seq(Session) /\ Len(k) = n - c /\ c \in Nat /\ c <= n
      /\ \A i \in 1..(n - c) : k[i] = sessions[u][c + i]
  BY <1>2, KeptFacts
<1>5. /\ Append(k, x) \in Seq(Session) /\ Len(Append(k, x)) = Len(k) + 1
      /\ \A i \in 1..Len(k) : Append(k, x)[i] = k[i]
      /\ Append(k, x)[Len(k) + 1] = x
  BY <1>3, <1>4, AppendProperties
<1>6. n \in Nat /\ DOMAIN sessions[u] = 1..n /\ DOMAIN Append(k, x) = 1..(n - c + 1)
  BY <1>2, <1>4, <1>5, LenProperties
<1>7. sessions'[u] = Append(k, x) /\ \A v \in User : v # u => sessions'[v] = sessions[v]
  BY <1>1, <1>2 DEF BaseInv, TypeInv
<1>. HIDE DEF u, k, x, c, n
<1>8. ASSUME NEW i \in 1..(n - c + 1), i # n - c + 1
      PROVE  sessions'[u][i] = sessions[u][c + i] /\ c + i \in 1..n
  <2>1. i \in 1..(n - c) /\ c + i \in 1..n
    BY <1>4, <1>6, <1>8, SMT
  <2>. QED
    BY <1>4, <1>5, <1>7, <2>1
<1>9. ASSUME NEW v \in User, NEW i \in DOMAIN sessions'[v], sessions'[v][i].stale PROVE ~users'[v].active
  <2>1. CASE v # u
    BY <1>1, <1>7, <1>9, <2>1 DEF FreshInv
  <2>2. CASE v = u /\ i # n - c + 1
    <3>1. i \in 1..(n - c + 1)
      BY <1>6, <1>7, <1>9, <2>2
    <3>2. sessions[u][c + i].stale /\ c + i \in DOMAIN sessions[u]
      BY <1>6, <1>8, <1>9, <2>2, <3>1
    <3>. QED
      BY <1>1, <1>2, <2>2, <3>2 DEF FreshInv
  <2>3. CASE v = u /\ i = n - c + 1
    <3>1. sessions'[u][i] = x
      BY <1>4, <1>5, <1>7, <2>3
    <3>2. login[r].stale
      BY <1>3, <1>9, <2>3, <3>1
    <3>. QED
      BY <1>1, <2>3, <3>2 DEF FreshInv, u
  <2>. QED
    BY <2>1, <2>2, <2>3
<1>10. ASSUME NEW q \in Login, login'[q].pc = "issue", login'[q].stale PROVE ~users'[login'[q].user].active
  <2>1. q # r
    BY <1>1, <1>10, RequestFacts DEF BaseInv, TypeInv
  <2>2. login'[q] = login[q]
    BY <1>1, <2>1 DEF BaseInv, TypeInv
  <2>. QED
    BY <1>1, <1>10, <2>2 DEF FreshInv
<1>. QED
  BY <1>9, <1>10 DEF FreshInv

LEMMA FreshEnd ==
  ASSUME BaseInv, FreshInv, NEW u \in User, Logout(u) \/ RevokeUserSessions(u)
  PROVE  FreshInv'
<1>1. UNCHANGED <<users, login>>
  BY DEF Logout, RevokeUserSessions
<1>2. CASE Logout(u)
  <2>1. PICK i \in DOMAIN sessions[u] : sessions' = [sessions EXCEPT ![u] = RemoveAt(sessions[u], i)]
    BY <1>2 DEF Logout
  <2>. DEFINE s == sessions[u]
              t == RemoveAt(s, i)
  <2>2. s \in Seq(Session) /\ Len(s) \in Nat /\ DOMAIN s = 1..Len(s)
    BY LenProperties DEF BaseInv, TypeInv
  <2>3. /\ t \in Seq(Session) /\ Len(t) = Len(s) - 1
        /\ \A j \in 1..(Len(s) - 1) : t[j] = IF j < i THEN s[j] ELSE s[j + 1]
    BY <2>2, RemoveAtFacts
  <2>4. DOMAIN t = 1..(Len(s) - 1)
    BY <2>3, LenProperties
  <2>5. sessions'[u] = t /\ \A v \in User : v # u => sessions'[v] = sessions[v]
    BY <2>1 DEF BaseInv, TypeInv
  <2>. HIDE DEF s, t
  <2>6. ASSUME NEW j \in DOMAIN t PROVE \E k \in DOMAIN s : t[j].stale = s[k].stale
    <3>1. j \in 1..(Len(s) - 1) /\ j \in DOMAIN s /\ j + 1 \in DOMAIN s
      BY <2>2, <2>4, <2>6, SMT
    <3>2. t[j] = s[j] \/ t[j] = s[j + 1]
      BY <2>3, <3>1
    <3>. QED
      BY <3>1, <3>2
  <2>7. ASSUME NEW v \in User, NEW j \in DOMAIN sessions'[v]
        PROVE  \E k \in DOMAIN sessions[v] : sessions'[v][j].stale = sessions[v][k].stale
    BY <2>5, <2>6, <2>7 DEF s
  <2>. QED
    BY <1>1, <2>7, FreshKept
<1>3. CASE RevokeUserSessions(u)
  <2>1. \A v \in User : sessions'[v] = IF v \in {u} THEN << >> ELSE sessions[v]
    BY <1>3, RevokedFacts DEF RevokeUserSessions, BaseInv
  <2>2. DOMAIN << >> = {}
    OBVIOUS
  <2>3. ASSUME NEW v \in User, NEW j \in DOMAIN sessions'[v]
        PROVE  \E k \in DOMAIN sessions[v] : sessions'[v][j].stale = sessions[v][k].stale
    BY <2>1, <2>2, <2>3
  <2>. QED
    BY <1>1, <2>3, FreshKept
<1>. QED
  BY <1>2, <1>3

\* The accounts that change lose their sessions, and their logins learn of it.
LEMMA FreshUsers ==
  ASSUME BaseInv, FreshInv, BaseInv', login' = LoginsAfter,
         \A u \in User : users[u] # None => users'[u] # None,
         \A u \in User : sessions'[u] = << >> \/ (users'[u] = users[u] /\ sessions'[u] = sessions[u])
  PROVE  FreshInv'
<1>0. DOMAIN << >> = {}
  OBVIOUS
<1>1. ASSUME NEW u \in User, NEW i \in DOMAIN sessions'[u], sessions'[u][i].stale PROVE ~users'[u].active
  <2>1. users'[u] = users[u] /\ sessions'[u] = sessions[u]
    BY <1>0, <1>1
  <2>. QED
    BY <1>1, <2>1 DEF FreshInv
<1>2. ASSUME NEW r \in Login, login'[r].pc = "issue", login'[r].stale PROVE ~users'[login'[r].user].active
  <2>. DEFINE u == login[r].user
  <2>1. users' \in [User -> {None} \cup UserRow]
    BY DEF BaseInv, TypeInv
  <2>2. /\ SameRequest(login'[r], login[r])
        /\ login[r].pc = "issue" =>
             login'[r].stale = IF users'[u].active # users[u].active THEN ~users'[u].active ELSE login[r].stale
    BY <2>1, LoginsAfterFacts DEF BaseInv
  <2>3. login[r].pc = "issue" /\ login'[r].user = u
    BY <1>2, <2>2 DEF SameRequest
  <2>4. CASE users'[u].active # users[u].active
    BY <1>2, <2>2, <2>3, <2>4
  <2>5. CASE users'[u].active = users[u].active
    BY <1>2, <2>2, <2>3, <2>5 DEF FreshInv
  <2>. QED
    BY <2>4, <2>5
<1>. QED
  BY <1>1, <1>2 DEF FreshInv

LEMMA EmptyMarked ==
  ASSUME NEW rows \in [User -> Seq(Session)], NEW u \in User, rows[u] = << >>
  PROVE  Marked(rows)[u] = << >>
<1>1. Marked(rows)[u] \in Seq(Session) /\ Len(Marked(rows)[u]) = 0
  BY MarkedFacts
<1>. QED
  BY <1>1, EmptySeq

LEMMA FreshCommit ==
  ASSUME BaseInv, FreshInv, BaseInv', NEW t \in Edit, CommitUpdate(t)
  PROVE  FreshInv'
<1>. DEFINE u == edit[t].user
            row == IF edit[t].writes THEN Changed(users[u], edit[t].change) ELSE users[u]
<1>1. /\ edit[t].pc = "checked" /\ login' = LoginsAfter
      /\ users' = [users EXCEPT ![u] = row]
      /\ sessions' = Marked(IF edit[t].change \in SecurityFields THEN Revoked({u}) ELSE sessions)
  BY DEF CommitUpdate
<1>2. u \in User /\ edit[t].change \in Change
  BY <1>1, UpdateFacts DEF BaseInv, TypeInv
<1>. HIDE DEF row
<1>3. sessions' = Marked(Revoked({u}))
  BY <1>1, <1>2 DEF SecurityFields
<1>4. /\ Revoked({u}) \in [User -> Seq(Session)]
      /\ \A v \in User : Revoked({u})[v] = IF v \in {u} THEN << >> ELSE sessions[v]
  BY RevokedFacts DEF BaseInv
<1>5. sessions'[u] = << >>
  BY <1>2, <1>3, <1>4, EmptyMarked
<1>6. ASSUME NEW v \in User, v # u PROVE users'[v] = users[v] /\ sessions'[v] = sessions[v]
  <2>1. users'[v] = users[v]
    BY <1>1, <1>6 DEF BaseInv, TypeInv
  <2>. QED
    BY <1>3, <1>4, <1>6, <2>1, MarkedFacts
<1>7. \A v \in User : sessions'[v] = << >> \/ (users'[v] = users[v] /\ sessions'[v] = sessions[v])
  BY <1>5, <1>6
<1>. QED
  BY <1>1, <1>7, UsersStay, FreshUsers

LEMMA FreshCarryOut ==
  ASSUME BaseInv, FreshInv, BaseInv', NEW e \in Event, NEW w \in Process, NEW p \in Person, CarryOut(e, w, p)
  PROVE  FreshInv'
<1>1. /\ users' = [u \in User |-> IF u \in Bound(p) THEN [users[u] EXCEPT !.active = FALSE] ELSE users[u]]
      /\ sessions' = Marked(Revoked(Bound(p))) /\ login' = LoginsAfter
  BY DEF CarryOut
<1>2. /\ Revoked(Bound(p)) \in [User -> Seq(Session)]
      /\ \A v \in User : Revoked(Bound(p))[v] = IF v \in Bound(p) THEN << >> ELSE sessions[v]
  BY RevokedFacts DEF BaseInv
<1>3. ASSUME NEW v \in User
      PROVE  sessions'[v] = << >> \/ (users'[v] = users[v] /\ sessions'[v] = sessions[v])
  <2>1. CASE v \in Bound(p)
    BY <1>1, <1>2, <2>1, EmptyMarked
  <2>2. CASE v \notin Bound(p)
    <3>1. users'[v] = users[v]
      BY <1>1, <2>2
    <3>. QED
      BY <1>1, <1>2, <2>2, <3>1, MarkedFacts
  <2>. QED
    BY <2>1, <2>2
<1>. QED
  BY <1>1, <1>3, UsersStay, FreshUsers

LEMMA FreshCreate ==
  ASSUME BaseInv, FreshInv, NEW u \in User, NEW role \in Role, NEW p \in Person, CreateUser(u, role, p)
  PROVE  FreshInv'
<1>1. users[u] = None /\ UNCHANGED <<sessions, login>> /\ \A v \in User : v # u => users'[v] = users[v]
  BY DEF CreateUser, Exists, BaseInv, TypeInv
<1>2. DOMAIN sessions[u] = {}
  <2>1. sessions[u] = << >>
    BY <1>1 DEF BaseInv, LiveInv
  <2>. QED
    BY <2>1
<1>3. \A r \in Login : login[r].pc = "issue" => login[r].user # u /\ login[r].user \in User
  BY <1>1, RequestFacts DEF BaseInv, TypeInv, LiveInv
<1>. QED
  BY <1>1, <1>2, <1>3 DEF FreshInv

LEMMA FreshRestart ==
  ASSUME BaseInv, FreshInv, Restart
  PROVE  FreshInv'
<1>1. sessions' = [u \in User |-> [i \in DOMAIN sessions[u] |-> [sessions[u][i] EXCEPT !.doomed = {}]]]
  BY DEF Restart
<1>2. \A u \in User : /\ DOMAIN sessions'[u] = DOMAIN sessions[u]
                      /\ \A i \in DOMAIN sessions[u] : sessions'[u][i].stale = sessions[u][i].stale
  BY <1>1, ResetFacts DEF BaseInv, TypeInv
<1>3. \A u \in User : users'[u] = users[u] \/ users[u] = None
  BY DEF Restart, BaseInv, TypeInv, Exists
<1>4. ASSUME NEW u \in User, NEW i \in DOMAIN sessions'[u], sessions'[u][i].stale PROVE ~users'[u].active
  <2>1. i \in DOMAIN sessions[u] /\ sessions[u][i].stale
    BY <1>2, <1>4
  <2>2. users[u] # None
    <3>1. DOMAIN << >> = {}
      OBVIOUS
    <3>. QED
      BY <2>1, <3>1 DEF BaseInv, LiveInv
  <2>. QED
    BY <1>3, <2>1, <2>2 DEF FreshInv
<1>5. \A r \in Login : login'[r].pc = "idle"
  BY RequestFacts DEF Restart
<1>. QED
  BY <1>4, <1>5 DEF FreshInv

LEMMA FreshNext == BaseInv /\ FreshInv /\ [Next]_vars => FreshInv'
<1> SUFFICES ASSUME BaseInv, FreshInv, [Next]_vars PROVE FreshInv'
  OBVIOUS
<1>0. BaseInv'
  BY BaseNext
<1>1. ASSUME NEW r \in Login, NEW w \in Process, MiniLogin(r, w) \/ \E s \in State : Callback(r, s, w)
      PROVE  FreshInv'
  BY <1>1, AccountsAssumption, FreshAside
<1>2. ASSUME NEW r \in Login, Consume(r) \/ ResolveFails(r) PROVE FreshInv'
  <2>1. login[r].process \in Process
    BY <1>2, RequestFacts DEF Consume, ResolveFails, BaseInv, TypeInv
  <2>. QED
    BY <1>2, <2>1, AccountsAssumption, FreshAside
<1>3. ASSUME NEW r \in Login, Issue(r) PROVE FreshInv'
  BY <1>3, FreshIssue
<1>4. ASSUME NEW r \in Login, NEW p \in Person, LookUp(r, p) \/ Denied(r, p) PROVE FreshInv'
  <2>1. login[r].process \in Process
    BY <1>4, RequestFacts DEF LookUp, Denied, BaseInv, TypeInv
  <2>. QED
    BY <1>4, <2>1, FreshLookUp, FreshAside
<1>5. CASE UNCHANGED <<users, sessions, login>>
  BY <1>5 DEF FreshInv
<1>6. ASSUME NEW u \in User, Logout(u) \/ RevokeUserSessions(u) PROVE FreshInv'
  BY <1>6, FreshEnd
<1>7. ASSUME NEW u \in User, NEW role \in Role, NEW p \in Person, CreateUser(u, role, p) PROVE FreshInv'
  BY <1>7, FreshCreate
<1>8. ASSUME NEW t \in Edit, CommitUpdate(t) PROVE FreshInv'
  BY <1>0, <1>8, FreshCommit
<1>9. ASSUME NEW e \in Event, NEW w \in Process, NEW p \in Person, CarryOut(e, w, p) PROVE FreshInv'
  BY <1>0, <1>9, FreshCarryOut
<1>10. CASE Restart
  BY <1>10, FreshRestart
<1>11. \/ \E r \in Login, w \in Process : MiniLogin(r, w) \/ \E s \in State : Callback(r, s, w)
       \/ \E r \in Login : Consume(r) \/ ResolveFails(r) \/ Issue(r)
       \/ \E r \in Login, p \in Person : LookUp(r, p) \/ Denied(r, p)
       \/ \E u \in User : Logout(u) \/ RevokeUserSessions(u)
       \/ \E u \in User, role \in Role, p \in Person : CreateUser(u, role, p)
       \/ \E t \in Edit : CommitUpdate(t)
       \/ \E e \in Event, w \in Process, p \in Person : CarryOut(e, w, p)
       \/ Restart
       \/ UNCHANGED <<users, sessions, login>>
  BY DEF Next, vars, StartLogin, ExpireState, Authenticate, CheckUpdate, RefuseUpdate, Deliver, Duplicate
<1>. QED
  BY <1>1, <1>2, <1>3, <1>4, <1>5, <1>6, <1>7, <1>8, <1>9, <1>10, <1>11

\* No session of an active account is from before its last change of role, member or activity, and
\* none comes from a login that was under way when the account was disabled (api.py update_user,
\* wecom_events.py directory_event, auth.py _issue_session).
THEOREM AccountsSessionsCurrent == Spec => []SessionsCurrent
<1>1. Init => FreshInv
  <2> SUFFICES ASSUME Init PROVE FreshInv
    OBVIOUS
  <2>1. \A r \in Login : login[r].pc = "idle"
    BY RequestFacts DEF Init
  <2>2. \A u \in User : sessions[u] = << >>
    BY DEF Init
  <2>3. DOMAIN << >> = {}
    OBVIOUS
  <2>. QED
    BY <2>1, <2>2, <2>3 DEF FreshInv
<1>2. FreshInv => SessionsCurrent
  BY DEF FreshInv, SessionsCurrent
<1>. QED
  BY BaseInit, BaseNext, FreshNext, <1>1, <1>2, PTL DEF Spec

-----------------------------------------------------------------------------
(* An administrator remains.                                               *)

\* What an update that may remove an administrator, and is not overtaken, relies on.
Spares(l, admins) ==
  l.pc = "checked" /\ l.overtaken = FALSE /\ l.change \in {"disable", "demote"} /\ l.user \in admins
    => admins \ {l.user} # {}

AdminInv ==
  /\ excused \/ Administrators # {}
  /\ \A t \in Edit : Spares(edit[t], Administrators)

LEMMA AdminCheck ==
  ASSUME BaseInv, AdminInv, NEW t \in Edit, NEW u \in User, NEW c \in Change, CheckUpdate(t, u, c)
  PROVE  AdminInv'
<1>. DEFINE l == [pc |-> "checked", user |-> u, change |-> c,
                  writes |-> Changed(users[u], c) # users[u], overtaken |-> FALSE]
<1>1. edit' = [edit EXCEPT ![t] = IF Permitted(t, u, c) THEN l ELSE Idle] /\ UNCHANGED <<users, excused>>
  BY DEF CheckUpdate
<1>2. Administrators' = Administrators
  BY <1>1 DEF Administrators, Exists
<1>3. Permitted(t, u, c) => Spares(l, Administrators)
  BY DEF Permitted, KeepsAdmin, RemovesAdmin, Administrators, Spares
<1>4. Spares(Idle, Administrators)
  BY IdleUpdate DEF Spares
<1>. HIDE DEF l
<1>5. ASSUME NEW x \in Edit PROVE Spares(edit'[x], Administrators')
  BY <1>1, <1>2, <1>3, <1>4 DEF AdminInv, BaseInv, TypeInv
<1>. QED
  BY <1>1, <1>2, <1>5 DEF AdminInv

LEMMA AdminAside ==
  ASSUME BaseInv, AdminInv, UNCHANGED <<users, excused>>,
         \A t \in Edit : edit'[t] = edit[t] \/ edit'[t].pc # "checked"
  PROVE  AdminInv'
<1>1. Administrators' = Administrators
  BY DEF Administrators, Exists
<1>2. ASSUME NEW x \in Edit PROVE Spares(edit'[x], Administrators')
  BY <1>1 DEF AdminInv, Spares
<1>. QED
  BY <1>1, <1>2 DEF AdminInv

LEMMA AdminCreate ==
  ASSUME BaseInv, AdminInv, NEW u \in User, NEW role \in Role, NEW p \in Person, CreateUser(u, role, p)
  PROVE  AdminInv'
<1>1. users[u] = None /\ UNCHANGED <<edit, excused>> /\ \A v \in User : v # u => users'[v] = users[v]
  BY DEF CreateUser, Exists, BaseInv, TypeInv
<1>2. Administrators \subseteq Administrators' /\ Administrators' \subseteq Administrators \cup {u}
  BY <1>1 DEF Administrators, Exists
<1>3. ASSUME NEW x \in Edit PROVE Spares(edit'[x], Administrators')
  <2>1. edit[x].pc = "checked" => edit[x].user # u
    BY <1>1 DEF BaseInv, LiveInv
  <2>2. Spares(edit[x], Administrators)
    BY DEF AdminInv
  <2>. QED
    BY <1>1, <1>2, <2>1, <2>2 DEF Spares
<1>4. excused' \/ Administrators' # {}
  BY <1>1, <1>2 DEF AdminInv
<1>. QED
  BY <1>3, <1>4 DEF AdminInv

\* Whoever else is under way learns that the administrators changed.
LEMMA AdminOvertaken ==
  ASSUME BaseInv, AdminInv, NEW rest \in [Edit -> Updates],
         \A t \in Edit : rest[t].pc = "checked" => rest[t] = edit[t],
         edit' = EditsAfter(rest), NEW x \in Edit
  PROVE  Spares(edit'[x], Administrators')
<1>1. /\ SameUpdate(edit'[x], rest[x])
      /\ rest[x].pc = "checked" /\ Administrators' # Administrators => edit'[x].overtaken = TRUE
      /\ Administrators' = Administrators => edit'[x] = rest[x]
  BY EditsAfterFacts
<1>2. CASE Administrators' # Administrators
  BY <1>1, <1>2 DEF SameUpdate, Spares
<1>3. CASE Administrators' = Administrators
  <2>1. Spares(rest[x], Administrators)
    BY DEF AdminInv, Spares
  <2>. QED
    BY <1>1, <1>3, <2>1
<1>. QED
  BY <1>2, <1>3

LEMMA AdminCommit ==
  ASSUME BaseInv, AdminInv, NEW t \in Edit, CommitUpdate(t)
  PROVE  AdminInv'
<1>. DEFINE u == edit[t].user
            c == edit[t].change
            row == IF edit[t].writes THEN Changed(users[u], c) ELSE users[u]
            rest == [edit EXCEPT ![t] = Idle]
<1>1. /\ edit[t].pc = "checked" /\ edit' = EditsAfter(rest)
      /\ users' = [users EXCEPT ![u] = row]
      /\ excused' = (excused \/ (edit[t].overtaken /\ Administrators' = {}))
  BY DEF CommitUpdate
<1>2. u \in User /\ c \in Change /\ edit[t].overtaken \in BOOLEAN /\ users[u] \in UserRow
  BY <1>1, UpdateFacts DEF BaseInv, TypeInv, LiveInv
<1>3. rest \in [Edit -> Updates] /\ \A x \in Edit : rest[x].pc = "checked" => rest[x] = edit[x]
  BY IdleUpdate DEF BaseInv, TypeInv
<1>4. /\ row \in UserRow
      /\ c # "disable" /\ users[u].active => row.active
      /\ c # "demote" /\ users[u].role = "admin" => row.role = "admin"
  BY <1>2, ChangedFacts
<1>. HIDE DEF row, rest
<1>5. users'[u] = row /\ row # None /\ \A v \in User : v # u => users'[v] = users[v]
  <2>1. row # None
    BY <1>4, Kinds
  <2>. QED
    BY <1>1, <1>2, <2>1 DEF BaseInv, TypeInv
<1>6. \A x \in Edit : Spares(edit'[x], Administrators')
  BY <1>1, <1>3, AdminOvertaken
<1>7. Administrators \ {u} \subseteq Administrators'
  BY <1>5 DEF Administrators, Exists
<1>8. ASSUME Administrators' = {}, edit[t].overtaken = FALSE PROVE Administrators = {}
  <2>1. Administrators \subseteq {u}
    BY <1>7, <1>8
  <2>2. u \notin Administrators
    <3>. SUFFICES ASSUME u \in Administrators PROVE FALSE
      OBVIOUS
    <3>1. c \notin {"disable", "demote"}
      BY <1>1, <1>8, <2>1 DEF AdminInv, Spares
    <3>2. users[u].active /\ users[u].role = "admin"
      BY DEF Administrators
    <3>3. row.active /\ row.role = "admin"
      BY <1>4, <3>1, <3>2
    <3>4. u \in Administrators'
      BY <1>2, <1>5, <3>3 DEF Administrators, Exists
    <3>. QED
      BY <1>8, <3>4
  <2>. QED
    BY <2>1, <2>2
<1>9. excused' \/ Administrators' # {}
  BY <1>1, <1>2, <1>8 DEF AdminInv
<1>. QED
  BY <1>6, <1>9 DEF AdminInv

LEMMA AdminCarryOut ==
  ASSUME BaseInv, AdminInv, NEW e \in Event, NEW w \in Process, NEW p \in Person, CarryOut(e, w, p)
  PROVE  AdminInv'
<1>1. edit' = EditsAfter(edit) /\ excused' = (excused \/ (Administrators # {} /\ Administrators' = {}))
  BY DEF CarryOut
<1>2. \A x \in Edit : Spares(edit'[x], Administrators')
  BY <1>1, AdminOvertaken DEF BaseInv, TypeInv
<1>3. excused' \/ Administrators' # {}
  BY <1>1 DEF AdminInv
<1>. QED
  BY <1>2, <1>3 DEF AdminInv

LEMMA AdminRestart ==
  ASSUME BaseInv, AdminInv, Restart
  PROVE  AdminInv'
<1>1. UNCHANGED excused /\ \A t \in Edit : edit'[t].pc = "idle"
  BY IdleUpdate DEF Restart
<1>2. \A u \in User : users'[u] = users[u] \/ users[u] = None
  BY DEF Restart, BaseInv, TypeInv, Exists
<1>3. Administrators \subseteq Administrators'
  BY <1>2 DEF Administrators, Exists
<1>. QED
  BY <1>1, <1>3 DEF AdminInv, Spares

LEMMA AdminNext == BaseInv /\ AdminInv /\ [Next]_vars => AdminInv'
<1> SUFFICES ASSUME BaseInv, AdminInv, [Next]_vars PROVE AdminInv'
  OBVIOUS
<1>1. CASE UNCHANGED <<users, excused, edit>>
  BY <1>1, AdminAside
<1>2. ASSUME NEW u \in User, NEW role \in Role, NEW p \in Person, CreateUser(u, role, p) PROVE AdminInv'
  BY <1>2, AdminCreate
<1>3. ASSUME NEW t \in Edit, NEW a \in User, Authenticate(t, a) PROVE AdminInv'
  <2>. DEFINE k == [pc |-> "authenticated", by |-> a, first |-> users[a].person = Bootstrap]
  <2>1. edit' = [edit EXCEPT ![t] = k] /\ k.pc # "checked" /\ UNCHANGED <<users, excused>>
    BY <1>3 DEF Authenticate
  <2>. HIDE DEF k
  <2>2. \A x \in Edit : edit'[x] = edit[x] \/ edit'[x].pc # "checked"
    BY <2>1 DEF BaseInv, TypeInv
  <2>. QED
    BY <2>1, <2>2, AdminAside
<1>4. ASSUME NEW t \in Edit, NEW u \in User, NEW c \in Change, CheckUpdate(t, u, c) PROVE AdminInv'
  BY <1>4, AdminCheck
<1>5. ASSUME NEW t \in Edit, CommitUpdate(t) PROVE AdminInv'
  BY <1>5, AdminCommit
<1>6. ASSUME NEW t \in Edit, RefuseUpdate(t) PROVE AdminInv'
  <2>1. edit' = [edit EXCEPT ![t] = Idle] /\ UNCHANGED <<users, excused>>
    BY <1>6 DEF RefuseUpdate
  <2>2. \A x \in Edit : edit'[x] = edit[x] \/ edit'[x].pc # "checked"
    BY <2>1, IdleUpdate DEF BaseInv, TypeInv
  <2>. QED
    BY <2>1, <2>2, AdminAside
<1>7. ASSUME NEW e \in Event, NEW w \in Process, NEW p \in Person, CarryOut(e, w, p) PROVE AdminInv'
  BY <1>7, AdminCarryOut
<1>8. CASE Restart
  BY <1>8, AdminRestart
<1>9. \/ UNCHANGED <<users, excused, edit>>
      \/ \E u \in User, role \in Role, p \in Person : CreateUser(u, role, p)
      \/ \E t \in Edit, a \in User : Authenticate(t, a)
      \/ \E t \in Edit, u \in User, c \in Change : CheckUpdate(t, u, c)
      \/ \E t \in Edit : CommitUpdate(t) \/ RefuseUpdate(t)
      \/ \E e \in Event, w \in Process, p \in Person : CarryOut(e, w, p)
      \/ Restart
  BY DEF Next, vars, StartLogin, ExpireState, MiniLogin, Callback, Consume, ResolveFails, Issue, LookUp, Denied,
         Logout, RevokeUserSessions, Deliver, Duplicate
<1>. QED
  BY <1>1, <1>2, <1>3, <1>4, <1>5, <1>6, <1>7, <1>8, <1>9

\* An active administrator remains, unless the directory disabled the last one or an update removed one
\* that was checked before the administrators changed (api.py update_user).
THEOREM AccountsAdminRemains == Spec => []AdminRemains
<1>1. Init => AdminInv
  <2> SUFFICES ASSUME Init PROVE AdminInv
    OBVIOUS
  <2>1. PICK u \in User : users = [x \in User |-> IF x = u THEN NewUser("admin", Bootstrap) ELSE None]
    BY DEF Init
  <2>2. users[u] = NewUser("admin", Bootstrap) /\ users[u].role = "admin" /\ users[u].active
    BY <2>1 DEF NewUser
  <2>3. users[u] # None
    BY <2>2, NewUserType, AccountsAssumption, Kinds DEF Role
  <2>4. u \in Administrators
    BY <2>2, <2>3 DEF Administrators, Exists
  <2>5. \A t \in Edit : edit[t].pc = "idle"
    BY IdleUpdate DEF Init
  <2>. QED
    BY <2>4, <2>5 DEF AdminInv, Spares
<1>2. AdminInv => AdminRemains
  BY DEF AdminInv, AdminRemains
<1>. QED
  BY BaseInit, BaseNext, AdminNext, <1>1, <1>2, PTL DEF Spec

-----------------------------------------------------------------------------
(* The cap.  A login that waits to issue its session will leave those sessions of the account that   *)
(* are not on its list, and add one.  The more of them there are, the fewer processes can have such  *)
(* a login waiting: each session beyond the cap was issued by a login that waits no more.            *)

LeftOf(s, r) == Len(s) - Cardinality(Listed(s, r))

\* The list of a login holds the oldest sessions.
Oldest(s) == \A r \in Login : \E n \in 0..Len(s) : Listed(s, r) = 1..n

\* In process w a login of the account waits that will leave j more than the cap allows it to.
Awaits(u, w, j) ==
  /\ loop[w] \in Login /\ login[loop[w]].pc = "issue" /\ login[loop[w]].user = u
  /\ LeftOf(sessions[u], loop[w]) >= MaxSessions - 1 + j

Waiting(u, j) == {w \in Process : Awaits(u, w, j)}

CapInv ==
  /\ \A u \in User : Oldest(sessions[u])
  /\ \A u \in User, j \in Nat : Waiting(u, j) # {} => Cardinality(Waiting(u, j)) + j <= Cardinality(Process)
  /\ \A u \in User : Len(sessions[u]) <= MaxSessions + Cardinality(Process) - 1

LEMMA LeftType ==
  ASSUME NEW s \in Seq(Session), NEW r
  PROVE  LeftOf(s, r) \in Nat /\ LeftOf(s, r) <= Len(s) /\ Len(s) \in Nat
<1>1. Len(s) \in Nat
  BY LenProperties
<1>2. Cardinality(Listed(s, r)) \in Nat /\ Cardinality(Listed(s, r)) <= Len(s)
  BY KeptFacts
<1>. QED
  BY <1>1, <1>2, SMT DEF LeftOf

LEMMA LeftPrefix ==
  ASSUME NEW s \in Seq(Session), NEW r, NEW n \in 0..Len(s), Listed(s, r) = 1..n
  PROVE  Cardinality(Listed(s, r)) = n /\ LeftOf(s, r) = Len(s) - n
<1>1. Len(s) \in Nat
  BY LenProperties
<1>2. 1 \in Int /\ n \in Int /\ n \in Nat
  BY <1>1
<1>3. Cardinality(1..n) = IF 1 > n THEN 0 ELSE n - 1 + 1
  BY <1>2, FS_Interval
<1>4. Cardinality(1..n) = n
  BY <1>2, <1>3, SMT
<1>. QED
  BY <1>4 DEF LeftOf

\* A sequence whose lists are the first n of another one's.
LEMMA ListedIs ==
  ASSUME NEW s \in Seq(Session), NEW r, NEW n \in 0..Len(s),
         \A i \in 1..Len(s) : r \in s[i].doomed <=> i <= n
  PROVE  Listed(s, r) = 1..n
<1>1. Len(s) \in Nat /\ DOMAIN s = 1..Len(s)
  BY LenProperties
<1>2. \A i \in 1..n : i \in 1..Len(s) /\ i <= n
  BY <1>1, SMT
<1>3. \A i \in 1..Len(s) : i <= n => i \in 1..n
  BY <1>1, SMT
<1>. QED
  BY <1>1, <1>2, <1>3 DEF Listed

\* And the other way round.
LEMMA ListedBy ==
  ASSUME NEW s \in Seq(Session), NEW r, NEW n \in 0..Len(s), Listed(s, r) = 1..n, NEW i \in 1..Len(s)
  PROVE  r \in s[i].doomed <=> i <= n
<1>1. Len(s) \in Nat /\ DOMAIN s = 1..Len(s)
  BY LenProperties
<1>2. i \in 1..n <=> i <= n
  BY <1>1, SMT
<1>3. i \in Listed(s, r) <=> r \in s[i].doomed
  BY <1>1 DEF Listed
<1>. QED
  BY <1>2, <1>3

\* A login's session is issued.
LEMMA IssueLeaves ==
  ASSUME NEW s \in Seq(Session), Oldest(s), NEW r \in Login, NEW x \in Session, x.doomed = {}
  PROVE  LET t == Append(Kept(s, r), x)
         IN  /\ t \in Seq(Session) /\ Oldest(t) /\ Len(t) = LeftOf(s, r) + 1
             /\ \A q \in Login : LeftOf(t, q) <= LeftOf(s, q) + 1 /\ LeftOf(t, q) <= LeftOf(s, r) + 1
<1>. DEFINE L == Len(s)
            c == Cardinality(Listed(s, r))
            t == Append(Kept(s, r), x)
<1>1. L \in Nat /\ c \in Nat /\ c <= L
  BY LenProperties, KeptFacts
<1>2. PICK m \in 0..L : Listed(s, r) = 1..m
  BY DEF Oldest
<1>3. c = m /\ LeftOf(s, r) = L - c
  BY <1>2, LeftPrefix
<1>4. /\ Kept(s, r) \in Seq(Session) /\ Len(Kept(s, r)) = L - c
      /\ \A i \in 1..(L - c) : Kept(s, r)[i] = s[c + i]
  BY KeptFacts
<1>5. /\ t \in Seq(Session) /\ Len(t) = L - c + 1
      /\ \A i \in 1..(L - c) : t[i] = Kept(s, r)[i]
      /\ t[L - c + 1] = x
  BY <1>4, AppendProperties
<1>. HIDE DEF L, c, t
<1>6. \A i \in 1..(L - c) : t[i] = s[c + i]
  BY <1>4, <1>5
<1>7. ASSUME NEW q \in Login
      PROVE  /\ \E n \in 0..Len(t) : Listed(t, q) = 1..n
             /\ LeftOf(t, q) <= LeftOf(s, q) + 1 /\ LeftOf(t, q) <= LeftOf(s, r) + 1
  <2>1. PICK k \in 0..L : Listed(s, q) = 1..k
    BY DEF Oldest, L
  <2>2. LeftOf(s, q) = L - k
    BY <2>1, LeftPrefix DEF L
  <2>. DEFINE n == IF k > c THEN k - c ELSE 0
  <2>3. n \in 0..Len(t) /\ n \in Nat /\ n <= L - c /\ k \in Nat /\ k <= L /\ n >= k - c
    BY <1>1, <1>5, <2>1, SMT
  <2>4. ASSUME NEW i \in 1..Len(t) PROVE q \in t[i].doomed <=> i <= n
    <3>1. CASE i = L - c + 1
      <4>1. t[i].doomed = {} /\ ~(i <= n)
        BY <1>1, <1>5, <2>3, <3>1, SMT
      <4>. QED
        BY <4>1
    <3>2. CASE i # L - c + 1
      <4>1. i \in 1..(L - c) /\ c + i \in 1..L
        BY <1>1, <1>5, <3>2, SMT
      <4>2. q \in s[c + i].doomed <=> c + i <= k
        BY <2>1, <4>1, ListedBy DEF L
      <4>3. c + i <= k <=> i <= n
        BY <1>1, <2>1, <4>1, SMT
      <4>. QED
        BY <1>6, <4>1, <4>2, <4>3
    <3>. QED
      BY <3>1, <3>2
  <2>. HIDE DEF n
  <2>5. Listed(t, q) = 1..n
    BY <1>5, <2>3, <2>4, ListedIs
  <2>6. LeftOf(t, q) = L - c + 1 - n
    <3>1. LeftOf(t, q) = Len(t) - n
      BY <1>5, <2>3, <2>5, LeftPrefix
    <3>. QED
      BY <1>1, <1>5, <2>3, <3>1, SMT
  <2>7. L - c + 1 - n <= L - k + 1 /\ L - c + 1 - n <= L - c + 1
    BY <1>1, <2>3, SMT
  <2>. QED
    BY <1>3, <2>2, <2>3, <2>5, <2>6, <2>7
<1>. QED
  BY <1>3, <1>5, <1>7 DEF Oldest, t

\* A session ends.
LEMMA EndLeaves ==
  ASSUME NEW s \in Seq(Session), Oldest(s), NEW i \in DOMAIN s
  PROVE  LET t == RemoveAt(s, i)
         IN  /\ t \in Seq(Session) /\ Oldest(t) /\ Len(t) <= Len(s)
             /\ \A q \in Login : LeftOf(t, q) <= LeftOf(s, q)
<1>. DEFINE L == Len(s)
            t == RemoveAt(s, i)
<1>1. L \in Nat /\ i \in 1..L
  BY LenProperties
<1>2. /\ t \in Seq(Session) /\ Len(t) = L - 1
      /\ \A j \in 1..(L - 1) : t[j] = IF j < i THEN s[j] ELSE s[j + 1]
  BY RemoveAtFacts
<1>. HIDE DEF L, t
<1>3. ASSUME NEW q \in Login
      PROVE  (\E n \in 0..Len(t) : Listed(t, q) = 1..n) /\ LeftOf(t, q) <= LeftOf(s, q)
  <2>1. PICK k \in 0..L : Listed(s, q) = 1..k
    BY DEF Oldest, L
  <2>2. LeftOf(s, q) = L - k
    BY <2>1, LeftPrefix DEF L
  <2>. DEFINE n == IF i <= k THEN k - 1 ELSE k
  <2>3. n \in 0..Len(t) /\ n \in Nat /\ k \in Nat /\ n >= k - 1 /\ L - 1 - n <= L - k
    BY <1>1, <1>2, <2>1, SMT
  <2>4. ASSUME NEW j \in 1..Len(t) PROVE q \in t[j].doomed <=> j <= n
    <3>1. j \in 1..(L - 1) /\ j \in 1..L /\ j + 1 \in 1..L
      BY <1>1, <1>2, SMT
    <3>2. /\ q \in s[j].doomed <=> j <= k
          /\ q \in s[j + 1].doomed <=> j + 1 <= k
      BY <2>1, <3>1, ListedBy DEF L
    <3>3. CASE j < i
      <4>1. j <= k <=> j <= n
        BY <1>1, <2>1, <3>1, <3>3, SMT
      <4>. QED
        BY <1>2, <3>1, <3>2, <3>3, <4>1
    <3>4. CASE ~(j < i)
      <4>1. j + 1 <= k <=> j <= n
        BY <1>1, <2>1, <3>1, <3>4, SMT
      <4>. QED
        BY <1>2, <3>1, <3>2, <3>4, <4>1
    <3>. QED
      BY <3>3, <3>4
  <2>. HIDE DEF n
  <2>5. Listed(t, q) = 1..n
    BY <1>2, <2>3, <2>4, ListedIs
  <2>6. LeftOf(t, q) = L - 1 - n
    BY <1>2, <2>3, <2>5, LeftPrefix
  <2>. QED
    BY <2>2, <2>3, <2>5, <2>6
<1>4. Len(t) <= L
  BY <1>1, <1>2, SMT
<1>. QED
  BY <1>2, <1>3, <1>4 DEF Oldest, t, L

\* A list is extended by the login that looks the account up.
LEMMA LookUpLeaves ==
  ASSUME NEW s \in Seq(Session), Oldest(s), NEW r \in Login
  PROVE  LET t == ListOldest(s, r)
         IN  /\ t \in Seq(Session) /\ Oldest(t) /\ Len(t) = Len(s)
             /\ LeftOf(t, r) <= MaxSessions - 1
             /\ \A q \in Login : q # r => LeftOf(t, q) = LeftOf(s, q)
<1>. DEFINE L == Len(s)
            t == ListOldest(s, r)
            over == IF L >= MaxSessions - 1 THEN L - (MaxSessions - 1) ELSE 0
<1>0. MaxSessions \in Nat \ {0}
  BY AccountsAssumption
<1>1. L \in Nat /\ DOMAIN s = 1..L /\ \A i \in 1..L : s[i] \in Session
  BY LenProperties, ElementOfSeq
<1>2. \A i \in DOMAIN s : t[i] = IF i \in OverLimit(L) THEN [s[i] EXCEPT !.doomed = @ \cup {r}] ELSE s[i]
  BY DEF ListOldest
<1>3. t = [i \in DOMAIN s |-> t[i]]
  BY DEF ListOldest
<1>. HIDE DEF t
<1>4. ASSUME NEW i \in 1..L PROVE t[i] \in Session
  <2>1. s[i] \in Session /\ [s[i] EXCEPT !.doomed = @ \cup {r}] \in Session
    BY <1>1, SessionDoomed
  <2>2. t[i] = [s[i] EXCEPT !.doomed = @ \cup {r}] \/ t[i] = s[i]
    BY <1>1, <1>2
  <2>. QED
    BY <2>1, <2>2
<1>5. t \in Seq(Session) /\ Len(t) = L /\ DOMAIN t = 1..L
  BY <1>1, <1>3, <1>4, SeqMapped
<1>6. \A i \in 1..L : i \in OverLimit(L) <=> i <= over
  BY <1>0, <1>1, SMT DEF OverLimit
<1>7. over \in 0..L /\ over \in Nat /\ L - over <= MaxSessions - 1
  BY <1>0, <1>1, SMT
<1>. HIDE DEF L, over
<1>8. ASSUME NEW i \in 1..L, NEW q \in Login
      PROVE  q \in t[i].doomed <=> q \in s[i].doomed \/ (q = r /\ i <= over)
  <2>1. CASE i \in OverLimit(L)
    <3>1. t[i].doomed = s[i].doomed \cup {r}
      BY <1>1, <1>2, <2>1, SessionDoomed
    <3>. QED
      BY <1>6, <2>1, <3>1
  <2>2. CASE i \notin OverLimit(L)
    <3>1. t[i] = s[i]
      BY <1>1, <1>2, <2>2
    <3>. QED
      BY <1>6, <2>2, <3>1
  <2>. QED
    BY <2>1, <2>2
<1>9. ASSUME NEW q \in Login
      PROVE  /\ \E n \in 0..Len(t) : Listed(t, q) = 1..n
             /\ q = r => LeftOf(t, q) <= MaxSessions - 1
             /\ q # r => LeftOf(t, q) = LeftOf(s, q)
  <2>1. PICK k \in 0..L : Listed(s, q) = 1..k
    BY DEF Oldest, L
  <2>2. LeftOf(s, q) = L - k
    BY <2>1, LeftPrefix DEF L
  <2>. DEFINE n == IF q = r /\ over > k THEN over ELSE k
  <2>3. n \in 0..Len(t) /\ n \in 0..L /\ n \in Nat
    BY <1>1, <1>5, <1>7, <2>1
  <2>4. ASSUME NEW i \in 1..Len(t) PROVE q \in t[i].doomed <=> i <= n
    <3>1. i \in 1..L
      BY <1>5
    <3>2. q \in s[i].doomed <=> i <= k
      BY <2>1, <3>1, ListedBy DEF L
    <3>3. i <= k \/ (q = r /\ i <= over) <=> i <= n
      <4>1. CASE q = r
        BY <1>1, <1>7, <2>1, <3>1, <4>1, SMT
      <4>2. CASE q # r
        BY <4>2
      <4>. QED
        BY <4>1, <4>2
    <3>. QED
      BY <1>8, <3>1, <3>2, <3>3
  <2>5. q = r => n >= over
    BY <1>1, <1>7, <2>1, SMT
  <2>6. q # r => n = k
    OBVIOUS
  <2>. HIDE DEF n
  <2>7. Listed(t, q) = 1..n
    BY <1>5, <2>3, <2>4, ListedIs
  <2>8. LeftOf(t, q) = L - n
    <3>1. LeftOf(t, q) = Len(t) - n
      BY <1>5, <2>3, <2>7, LeftPrefix
    <3>. QED
      BY <1>5, <3>1
  <2>9. n >= over => L - n <= MaxSessions - 1
    BY <1>0, <1>1, <1>7, <2>3, SMT
  <2>. QED
    BY <2>2, <2>3, <2>5, <2>6, <2>7, <2>8, <2>9
<1>. QED
  BY <1>5, <1>9 DEF Oldest, t, L

\* Sessions whose lists do not change leave as many as they did; a sequence without lists is in order.
LEMMA SameLeaves ==
  ASSUME NEW s \in Seq(Session), NEW t \in Seq(Session), Len(t) = Len(s),
         \A i \in DOMAIN s : t[i].doomed = s[i].doomed
  PROVE  (Oldest(s) => Oldest(t)) /\ \A q : LeftOf(t, q) = LeftOf(s, q)
<1>1. DOMAIN t = DOMAIN s
  BY LenProperties
<1>2. \A q : Listed(t, q) = Listed(s, q)
  BY <1>1 DEF Listed
<1>. QED
  BY <1>2 DEF Oldest, LeftOf

LEMMA NoLists ==
  ASSUME NEW t \in Seq(Session), \A i \in DOMAIN t : t[i].doomed = {}
  PROVE  Oldest(t)
<1>1. Len(t) \in Nat /\ DOMAIN t = 1..Len(t)
  BY LenProperties
<1>2. 0 \in 0..Len(t) /\ 1..0 = {}
  BY <1>1, SMT
<1>3. \A q : Listed(t, q) = {}
  BY DEF Listed
<1>. QED
  BY <1>2, <1>3 DEF Oldest

LEMMA EmptyLeaves ==
  /\ Oldest(<< >>) /\ Len(<< >>) = 0
  /\ \A q : LeftOf(<< >>, q) = 0
<1>1. << >> \in Seq(Session) /\ Len(<< >>) = 0 /\ DOMAIN << >> = {}
  BY EmptySeq
<1>2. Oldest(<< >>)
  BY <1>1, NoLists
<1>3. \A q : Listed(<< >>, q) = {}
  BY <1>1 DEF Listed
<1>4. \A q : LeftOf(<< >>, q) = 0 - 0
  BY <1>1, <1>3, FS_EmptySet DEF LeftOf
<1>. QED
  BY <1>1, <1>2, <1>4

LEMMA ProcessSets ==
  ASSUME NEW W \in SUBSET Process
  PROVE  /\ IsFiniteSet(W) /\ Cardinality(W) \in Nat /\ Cardinality(Process) \in Nat
         /\ Cardinality(W) <= Cardinality(Process)
BY AccountsAssumption, FS_Subset, FS_CardinalityType

\* What at level 0 waits is a set of processes, and no level gains one.
LEMMA CapShrinks ==
  ASSUME CapInv, \A u \in User : Oldest(sessions'[u]),
         \A u \in User : Len(sessions'[u]) <= MaxSessions + Cardinality(Process) - 1,
         \A u \in User, w \in Process, j \in Nat : j # 0 /\ Awaits(u, w, j)' => Awaits(u, w, j)
  PROVE  CapInv'
<1>1. ASSUME NEW u \in User, NEW j \in Nat, Waiting(u, j)' # {}
      PROVE  Cardinality(Waiting(u, j)') + j <= Cardinality(Process)
  <2>. DEFINE W == Waiting(u, j)
  <2>1. W' \in SUBSET Process /\ W \in SUBSET Process
    BY DEF Waiting
  <2>2. CASE j = 0
    <3>. HIDE DEF W
    <3>1. Cardinality(W') \in Nat /\ Cardinality(Process) \in Nat /\ Cardinality(W') <= Cardinality(Process)
      BY <2>1, ProcessSets
    <3>2. Cardinality(W') + j <= Cardinality(Process)
      BY <2>2, <3>1, SMT
    <3>. QED
      BY <3>2 DEF W
  <2>3. CASE j # 0
    <3>1. W' \subseteq W
      BY <2>3 DEF Waiting
    <3>2. W # {} /\ Cardinality(W) + j <= Cardinality(Process)
      BY <1>1, <3>1 DEF CapInv
    <3>. HIDE DEF W
    <3>3. IsFiniteSet(W) /\ Cardinality(W) \in Nat /\ Cardinality(W') \in Nat /\ Cardinality(Process) \in Nat
      BY <2>1, ProcessSets
    <3>4. Cardinality(W') <= Cardinality(W)
      BY <3>1, <3>3, FS_Subset
    <3>5. Cardinality(W') + j <= Cardinality(Process)
      BY <3>2, <3>3, <3>4, SMT
    <3>. QED
      BY <3>5 DEF W
  <2>. QED
    BY <2>2, <2>3
<1>. QED
  BY <1>1 DEF CapInv

\* Sessions end and no login comes to wait.
LEMMA CapFewer ==
  ASSUME BaseInv, BaseInv', CapInv,
         \A u \in User : /\ Oldest(sessions'[u]) /\ Len(sessions'[u]) <= Len(sessions[u])
                         /\ \A r \in Login : LeftOf(sessions'[u], r) <= LeftOf(sessions[u], r),
         \A w \in Process : loop'[w] \in Login /\ login'[loop'[w]].pc = "issue" =>
                              /\ loop[w] = loop'[w] /\ login[loop[w]].pc = "issue"
                              /\ login'[loop[w]].user = login[loop[w]].user
  PROVE  CapInv'
<1>0. MaxSessions \in Nat /\ Cardinality(Process) \in Nat
  BY AccountsAssumption, FS_CardinalityType
<1>1. ASSUME NEW u \in User, NEW w \in Process, NEW j \in Nat, Awaits(u, w, j)' PROVE Awaits(u, w, j)
  <2>. DEFINE r == loop[w]
  <2>1. r \in Login /\ loop'[w] = r /\ login[r].pc = "issue" /\ login[r].user = u
        /\ LeftOf(sessions'[u], r) >= MaxSessions - 1 + j
    BY <1>1 DEF Awaits
  <2>2. LeftOf(sessions'[u], r) \in Nat /\ LeftOf(sessions[u], r) \in Nat
    BY <2>1, LeftType DEF BaseInv, TypeInv
  <2>3. LeftOf(sessions'[u], r) <= LeftOf(sessions[u], r)
    BY <2>1
  <2>4. LeftOf(sessions[u], r) >= MaxSessions - 1 + j
    BY <1>0, <2>1, <2>2, <2>3, SMT
  <2>. QED
    BY <2>1, <2>4 DEF Awaits
<1>2. ASSUME NEW u \in User PROVE Len(sessions'[u]) <= MaxSessions + Cardinality(Process) - 1
  <2>1. Len(sessions'[u]) \in Nat /\ Len(sessions[u]) \in Nat
    BY LenProperties DEF BaseInv, TypeInv
  <2>2. Len(sessions[u]) <= MaxSessions + Cardinality(Process) - 1 /\ Len(sessions'[u]) <= Len(sessions[u])
    BY DEF CapInv
  <2>. QED
    BY <1>0, <2>1, <2>2, SMT
<1>. QED
  BY <1>1, <1>2, CapShrinks

LEMMA SameFewer ==
  ASSUME TypeInv, CapInv, NEW u \in User, sessions'[u] = sessions[u]
  PROVE  /\ Oldest(sessions'[u]) /\ Len(sessions'[u]) <= Len(sessions[u])
         /\ \A r \in Login : LeftOf(sessions'[u], r) <= LeftOf(sessions[u], r)
<1>1. Len(sessions[u]) \in Nat /\ \A r \in Login : LeftOf(sessions[u], r) \in Nat
  BY LeftType, LenProperties DEF TypeInv
<1>2. Len(sessions[u]) <= Len(sessions[u]) /\ \A r \in Login : LeftOf(sessions[u], r) <= LeftOf(sessions[u], r)
  BY <1>1, SMT
<1>. QED
  BY <1>2 DEF CapInv

LEMMA NoneFewer ==
  ASSUME TypeInv, CapInv, NEW u \in User, sessions'[u] = << >>
  PROVE  /\ Oldest(sessions'[u]) /\ Len(sessions'[u]) <= Len(sessions[u])
         /\ \A r \in Login : LeftOf(sessions'[u], r) <= LeftOf(sessions[u], r)
<1>1. Len(sessions[u]) \in Nat /\ \A r \in Login : LeftOf(sessions[u], r) \in Nat
  BY LeftType, LenProperties DEF TypeInv
<1>2. 0 <= Len(sessions[u]) /\ \A r \in Login : 0 <= LeftOf(sessions[u], r)
  BY <1>1, SMT
<1>. QED
  BY <1>2, EmptyLeaves

LEMMA CapEnd ==
  ASSUME BaseInv, BaseInv', CapInv, NEW u \in User, Logout(u) \/ RevokeUserSessions(u)
  PROVE  CapInv'
<1>1. UNCHANGED <<login, loop>>
  BY DEF Logout, RevokeUserSessions
<1>2. CASE Logout(u)
  <2>1. PICK i \in DOMAIN sessions[u] : sessions' = [sessions EXCEPT ![u] = RemoveAt(sessions[u], i)]
    BY <1>2 DEF Logout
  <2>2. sessions'[u] = RemoveAt(sessions[u], i) /\ \A v \in User : v # u => sessions'[v] = sessions[v]
    BY <2>1 DEF BaseInv, TypeInv
  <2>3. sessions[u] \in Seq(Session) /\ Oldest(sessions[u])
    BY DEF BaseInv, TypeInv, CapInv
  <2>4. /\ Oldest(sessions'[u]) /\ Len(sessions'[u]) <= Len(sessions[u])
        /\ \A r \in Login : LeftOf(sessions'[u], r) <= LeftOf(sessions[u], r)
    BY <2>2, <2>3, EndLeaves
  <2>5. \A v \in User : /\ Oldest(sessions'[v]) /\ Len(sessions'[v]) <= Len(sessions[v])
                        /\ \A r \in Login : LeftOf(sessions'[v], r) <= LeftOf(sessions[v], r)
    BY <2>2, <2>4, SameFewer DEF BaseInv
  <2>. QED
    BY <1>1, <2>5, CapFewer
<1>3. CASE RevokeUserSessions(u)
  <2>1. \A v \in User : sessions'[v] = IF v \in {u} THEN << >> ELSE sessions[v]
    BY <1>3, RevokedFacts DEF RevokeUserSessions, BaseInv
  <2>2. \A v \in User : /\ Oldest(sessions'[v]) /\ Len(sessions'[v]) <= Len(sessions[v])
                        /\ \A r \in Login : LeftOf(sessions'[v], r) <= LeftOf(sessions[v], r)
    BY <2>1, NoneFewer, SameFewer DEF BaseInv
  <2>. QED
    BY <1>1, <2>2, CapFewer
<1>. QED
  BY <1>2, <1>3

LEMMA CapAside ==
  ASSUME BaseInv, BaseInv', CapInv, UNCHANGED sessions,
         \A w \in Process : loop'[w] = loop[w] \/ loop'[w] \notin Login \/ login'[loop'[w]].pc # "issue",
         \A r \in Login : login'[r] = login[r] \/ login'[r].pc # "issue"
  PROVE  CapInv'
<1>1. \A v \in User : /\ Oldest(sessions'[v]) /\ Len(sessions'[v]) <= Len(sessions[v])
                      /\ \A r \in Login : LeftOf(sessions'[v], r) <= LeftOf(sessions[v], r)
  BY SameFewer DEF BaseInv
<1>2. \A w \in Process : loop'[w] \in Login /\ login'[loop'[w]].pc = "issue" =>
                           /\ loop[w] = loop'[w] /\ login[loop[w]].pc = "issue"
                           /\ login'[loop[w]].user = login[loop[w]].user
  OBVIOUS
<1>. QED
  BY <1>1, <1>2, CapFewer

LEMMA CapUsers ==
  ASSUME BaseInv, BaseInv', CapInv, login' = LoginsAfter,
         \A u \in User : users[u] # None => users'[u] # None,
         \A w \in Process : loop'[w] = loop[w] \/ loop'[w] \notin Login,
         \A u \in User : sessions'[u] = << >> \/ sessions'[u] = sessions[u]
  PROVE  CapInv'
<1>1. \A v \in User : /\ Oldest(sessions'[v]) /\ Len(sessions'[v]) <= Len(sessions[v])
                      /\ \A r \in Login : LeftOf(sessions'[v], r) <= LeftOf(sessions[v], r)
  BY SameFewer, NoneFewer DEF BaseInv
<1>2. users' \in [User -> {None} \cup UserRow]
  BY DEF BaseInv, TypeInv
<1>3. \A r \in Login : SameRequest(login'[r], login[r])
  BY <1>2, LoginsAfterFacts DEF BaseInv
<1>4. \A w \in Process : loop'[w] \in Login /\ login'[loop'[w]].pc = "issue" =>
                           /\ loop[w] = loop'[w] /\ login[loop[w]].pc = "issue"
                           /\ login'[loop[w]].user = login[loop[w]].user
  BY <1>3 DEF SameRequest
<1>. QED
  BY <1>1, <1>4, CapFewer

LEMMA CapLookUp ==
  ASSUME BaseInv, BaseInv', CapInv, NEW r \in Login, NEW p \in Person, LookUp(r, p)
  PROVE  CapInv'
<1>. DEFINE y == login[r].process
<1>1. PICK u \in Bound(p) :
        /\ login' = [login EXCEPT ![r] = [pc |-> "issue", state |-> login[r].state,
                       process |-> login[r].process, user |-> u, stale |-> FALSE]]
        /\ sessions' = [sessions EXCEPT ![u] = ListOldest(sessions[u], r)]
  BY DEF LookUp
<1>2. /\ u \in User /\ login[r].pc = "resolve" /\ loop' = [loop EXCEPT ![y] = r]
      /\ y \in Process
  BY RequestFacts DEF Bound, LookUp, BaseInv, TypeInv
<1>3. /\ login'[r].user = u /\ \A q \in Login : q # r => login'[q] = login[q]
      /\ loop'[y] = r /\ \A x \in Process : x # y => loop'[x] = loop[x]
      /\ sessions'[u] = ListOldest(sessions[u], r) /\ \A v \in User : v # u => sessions'[v] = sessions[v]
  BY <1>1, <1>2 DEF BaseInv, TypeInv
<1>4. sessions[u] \in Seq(Session) /\ Oldest(sessions[u])
  BY <1>2 DEF BaseInv, TypeInv, CapInv
<1>5. /\ Oldest(sessions'[u]) /\ Len(sessions'[u]) = Len(sessions[u])
      /\ LeftOf(sessions'[u], r) <= MaxSessions - 1
      /\ \A q \in Login : q # r => LeftOf(sessions'[u], q) = LeftOf(sessions[u], q)
  BY <1>3, <1>4, LookUpLeaves
<1>6. ASSUME NEW v \in User, NEW x \in Process, NEW j \in Nat, j # 0, Awaits(v, x, j)' PROVE Awaits(v, x, j)
  <2>1. CASE x = y
    <3>1. v = u /\ LeftOf(sessions'[u], r) >= MaxSessions - 1 + j
      BY <1>3, <1>6, <2>1 DEF Awaits
    <3>2. LeftOf(sessions'[u], r) \in Nat /\ MaxSessions \in Nat
      BY <1>2, LeftType, AccountsAssumption DEF BaseInv, TypeInv
    <3>3. FALSE
      BY <1>5, <1>6, <3>1, <3>2, SMT
    <3>. QED
      BY <3>3
  <2>2. CASE x # y
    <3>1. loop'[x] = loop[x] /\ loop[x] \in Login
      BY <1>3, <1>6, <2>2 DEF Awaits
    <3>2. loop[x] # r
      BY <1>2, <3>1 DEF BaseInv, LoopInv, Holds
    <3>3. LeftOf(sessions'[v], loop[x]) = LeftOf(sessions[v], loop[x])
      BY <1>3, <1>5, <3>1, <3>2
    <3>. QED
      BY <1>3, <1>6, <3>1, <3>2, <3>3 DEF Awaits
  <2>. QED
    BY <2>1, <2>2
<1>7. \A v \in User : /\ Oldest(sessions'[v])
                      /\ Len(sessions'[v]) <= MaxSessions + Cardinality(Process) - 1
  BY <1>3, <1>5 DEF CapInv
<1>. QED
  BY <1>6, <1>7, CapShrinks

\* Whoever waits above a level when a session is issued waited one level below, and one waits no more.
LEMMA CapIssue ==
  ASSUME BaseInv, BaseInv', CapInv, NEW r \in Login, Issue(r)
  PROVE  CapInv'
<1>. DEFINE u == login[r].user
            y == login[r].process
            x == [doomed |-> {}, stale |-> login[r].stale]
            t == Append(Kept(sessions[u], r), x)
            P == Cardinality(Process)
            left == LeftOf(sessions[u], r)
<1>0. MaxSessions \in Nat \ {0} /\ P \in Nat
  BY AccountsAssumption, FS_CardinalityType
<1>1. /\ login[r].pc = "issue" /\ login' = [login EXCEPT ![r] = Idle]
      /\ sessions' = [sessions EXCEPT ![u] = t]
      /\ loop' = [loop EXCEPT ![y] = None]
  BY DEF Issue
<1>2. u \in User /\ y \in Process /\ login[r].stale \in BOOLEAN /\ loop[y] = r
  BY <1>1, RequestFacts DEF BaseInv, TypeInv, LoopInv, Holds
<1>3. x \in Session /\ x.doomed = {} /\ sessions[u] \in Seq(Session) /\ Oldest(sessions[u])
  BY <1>2 DEF Session, BaseInv, TypeInv, CapInv
<1>4. /\ t \in Seq(Session) /\ Oldest(t) /\ Len(t) = left + 1
      /\ \A q \in Login : LeftOf(t, q) <= LeftOf(sessions[u], q) + 1 /\ LeftOf(t, q) <= left + 1
  BY <1>3, IssueLeaves
<1>5. left \in Nat /\ \A q \in Login : LeftOf(sessions[u], q) \in Nat /\ LeftOf(t, q) \in Nat
  BY <1>3, <1>4, LeftType
<1>. HIDE DEF t, x, P
<1>6. /\ \A q \in Login : q # r => login'[q] = login[q]
      /\ loop'[y] = None /\ \A z \in Process : z # y => loop'[z] = loop[z]
      /\ sessions'[u] = t /\ \A v \in User : v # u => sessions'[v] = sessions[v]
  BY <1>1, <1>2 DEF BaseInv, TypeInv
<1>7. ASSUME NEW v \in User, NEW z \in Process, NEW j \in Nat, Awaits(v, z, j)'
      PROVE  /\ z # y /\ loop[z] \in Login /\ loop'[z] = loop[z] /\ login'[loop[z]] = login[loop[z]]
             /\ login[loop[z]].pc = "issue" /\ login[loop[z]].user = v
             /\ LeftOf(sessions'[v], loop[z]) >= MaxSessions - 1 + j
  <2>1. z # y
    BY <1>6, <1>7, Kinds DEF Awaits
  <2>2. loop'[z] = loop[z] /\ loop[z] \in Login
    BY <1>6, <1>7, <2>1 DEF Awaits
  <2>3. loop[z] # r
    BY <2>1, <2>2 DEF BaseInv, LoopInv
  <2>. QED
    BY <1>6, <1>7, <2>1, <2>2, <2>3 DEF Awaits
<1>8. ASSUME NEW j \in Nat, left >= MaxSessions - 1 + j
      PROVE  /\ y \in Waiting(u, j) /\ Cardinality(Waiting(u, j)) \in Nat
             /\ Cardinality(Waiting(u, j)) + j <= P
  <2>1. y \in Waiting(u, j)
    BY <1>1, <1>2, <1>8 DEF Waiting, Awaits
  <2>2. Waiting(u, j) \in SUBSET Process
    BY DEF Waiting
  <2>. QED
    BY <1>2, <2>1, <2>2, ProcessSets DEF CapInv, P
<1>9. ASSUME NEW v \in User, NEW j \in Nat, Waiting(v, j)' # {}
      PROVE  Cardinality(Waiting(v, j)') + j <= P
  <2>. DEFINE W == Waiting(v, j)
  <2>0. W' \in SUBSET Process /\ W \in SUBSET Process
    BY DEF Waiting
  <2>1. /\ Cardinality(W') \in Nat /\ Cardinality(W') <= P
        /\ IsFiniteSet(W) /\ Cardinality(W) \in Nat
    BY <2>0, ProcessSets DEF P
  <2>2. CASE j = 0
    <3>. HIDE DEF W
    <3>1. Cardinality(W') + j <= P
      BY <1>0, <2>1, <2>2, SMT
    <3>. QED
      BY <3>1 DEF W
  <2>3. CASE j # 0 /\ v # u
    <3>1. W' \subseteq W
      <4>1. ASSUME NEW z \in Process, Awaits(v, z, j)' PROVE Awaits(v, z, j)
        BY <1>6, <1>7, <2>3, <4>1 DEF Awaits
      <4>. QED
        BY <4>1 DEF Waiting
    <3>2. W # {} /\ Cardinality(W) + j <= P
      BY <1>9, <3>1 DEF CapInv, P
    <3>. HIDE DEF W
    <3>3. Cardinality(W') <= Cardinality(W)
      BY <2>1, <3>1, FS_Subset
    <3>4. Cardinality(W') + j <= P
      BY <1>0, <2>1, <3>2, <3>3, SMT
    <3>. QED
      BY <3>4 DEF W
  <2>4. CASE j # 0 /\ v = u
    <3>. DEFINE i == j - 1
                V == Waiting(u, i)
    <3>0. i \in Nat /\ j = i + 1
      BY <2>4, SMT
    <3>1. ASSUME NEW z \in Process, Awaits(v, z, j)'
          PROVE  z # y /\ Awaits(u, z, i) /\ left >= MaxSessions - 1 + i
      <4>. DEFINE q == loop[z]
      <4>1. /\ z # y /\ q \in Login /\ login[q].pc = "issue" /\ login[q].user = u
            /\ LeftOf(t, q) >= MaxSessions - 1 + j
        <5>1. /\ z # y /\ q \in Login /\ login[q].pc = "issue" /\ login[q].user = v
              /\ LeftOf(sessions'[v], q) >= MaxSessions - 1 + j
          BY <1>7, <3>1
        <5>2. sessions'[v] = t
          BY <1>6, <2>4
        <5>. QED
          BY <2>4, <5>1, <5>2
      <4>2. LeftOf(t, q) <= LeftOf(sessions[u], q) + 1 /\ LeftOf(t, q) <= left + 1
        BY <1>4, <4>1
      <4>3. LeftOf(t, q) \in Nat /\ LeftOf(sessions[u], q) \in Nat /\ left \in Nat
        BY <1>5, <4>1
      <4>4. LeftOf(sessions[u], q) >= MaxSessions - 1 + i /\ left >= MaxSessions - 1 + i
        BY <1>0, <3>0, <4>1, <4>2, <4>3, SMT
      <4>. QED
        BY <4>1, <4>4 DEF Awaits
    <3>2. W' \subseteq V \ {y}
      <4>. SUFFICES ASSUME NEW z \in W' PROVE z \in V /\ z # y
        OBVIOUS
      <4>1. z \in Process /\ Awaits(v, z, j)'
        BY DEF Waiting
      <4>. QED
        BY <3>1, <4>1 DEF Waiting
    <3>3. left >= MaxSessions - 1 + i
      <4>1. PICK z \in Process : Awaits(v, z, j)'
        BY <1>9 DEF Waiting
      <4>. QED
        BY <3>1, <4>1
    <3>4. y \in V /\ Cardinality(V) \in Nat /\ Cardinality(V) + i <= P
      BY <1>8, <3>0, <3>3
    <3>5. V \in SUBSET Process
      BY DEF Waiting
    <3>. HIDE DEF V, W
    <3>6. IsFiniteSet(V) /\ IsFiniteSet(V \ {y}) /\ Cardinality(V \ {y}) = Cardinality(V) - 1
      BY <3>4, <3>5, ProcessSets, FS_RemoveElement
    <3>7. Cardinality(W') <= Cardinality(V \ {y})
      BY <3>2, <3>6, FS_Subset
    <3>8. Cardinality(W') + j <= P
      BY <1>0, <2>1, <3>0, <3>4, <3>6, <3>7, SMT
    <3>. QED
      BY <3>8 DEF W
  <2>. QED
    BY <2>2, <2>3, <2>4
<1>10. Len(t) <= MaxSessions + P - 1
  <2>1. CASE left < MaxSessions - 1
    BY <1>0, <1>4, <1>5, <2>1, SMT
  <2>2. CASE left >= MaxSessions - 1
    <3>. DEFINE j == left - (MaxSessions - 1)
    <3>1. j \in Nat /\ left >= MaxSessions - 1 + j /\ left = MaxSessions - 1 + j
      BY <1>0, <1>5, <2>2, SMT
    <3>2. y \in Waiting(u, j) /\ Cardinality(Waiting(u, j)) \in Nat /\ Cardinality(Waiting(u, j)) + j <= P
      BY <1>8, <3>1
    <3>3. Cardinality(Waiting(u, j)) # 0
      <4>1. Waiting(u, j) \in SUBSET Process
        BY DEF Waiting
      <4>2. IsFiniteSet(Waiting(u, j)) /\ Waiting(u, j) # {}
        BY <3>2, <4>1, ProcessSets
      <4>. QED
        BY <4>2, FS_EmptySet
    <3>. HIDE DEF j
    <3>. QED
      BY <1>0, <1>4, <1>5, <3>1, <3>2, <3>3, SMT
  <2>. QED
    BY <1>0, <1>5, <2>1, <2>2, SMT
<1>11. \A v \in User : Oldest(sessions'[v]) /\ Len(sessions'[v]) <= MaxSessions + P - 1
  BY <1>4, <1>6, <1>10 DEF CapInv, P
<1>. QED
  BY <1>9, <1>11 DEF CapInv, P

LEMMA CapRestart ==
  ASSUME BaseInv, BaseInv', CapInv, Restart
  PROVE  CapInv'
<1>1. sessions' = [u \in User |-> [i \in DOMAIN sessions[u] |-> [sessions[u][i] EXCEPT !.doomed = {}]]]
  BY DEF Restart
<1>2. ASSUME NEW u \in User
      PROVE  Oldest(sessions'[u]) /\ Len(sessions'[u]) <= MaxSessions + Cardinality(Process) - 1
  <2>1. /\ sessions'[u] \in Seq(Session) /\ Len(sessions'[u]) = Len(sessions[u])
        /\ \A i \in DOMAIN sessions'[u] : sessions'[u][i].doomed = {}
    BY <1>1, ResetFacts DEF BaseInv, TypeInv
  <2>. QED
    BY <2>1, NoLists DEF CapInv
<1>3. \A r \in Login : login'[r].pc = "idle"
  BY RequestFacts DEF Restart
<1>4. \A u \in User, w \in Process, j \in Nat : ~(Awaits(u, w, j)')
  BY <1>3 DEF Awaits
<1>. QED
  BY <1>2, <1>4, CapShrinks

LEMMA CapNext == BaseInv /\ CapInv /\ [Next]_vars => CapInv'
<1> SUFFICES ASSUME BaseInv, CapInv, [Next]_vars PROVE CapInv'
  OBVIOUS
<1>0. BaseInv'
  BY BaseNext
<1>1. CASE UNCHANGED <<sessions, login, loop>>
  BY <1>0, <1>1, CapAside
<1>2. ASSUME NEW r \in Login, NEW w \in Process, MiniLogin(r, w) \/ \E s \in State : Callback(r, s, w)
      PROVE  CapInv'
  <2>1. UNCHANGED sessions /\ \A q \in Login : q # r => login'[q] = login[q]
    BY <1>2 DEF MiniLogin, Callback, BaseInv, TypeInv
  <2>2. login'[r].pc # "issue"
    <3>1. CASE MiniLogin(r, w)
      <4>1. login'[r] = [pc |-> "resolve", state |-> None, process |-> w]
        BY <3>1 DEF MiniLogin, BaseInv, TypeInv
      <4>. QED
        BY <4>1
    <3>2. ASSUME NEW s \in State, Callback(r, s, w) PROVE login'[r].pc # "issue"
      <4>1. login'[r] = [pc |-> "consume", state |-> s, process |-> w]
        BY <3>2 DEF Callback, BaseInv, TypeInv
      <4>. QED
        BY <4>1
    <3>. QED
      BY <1>2, <3>1, <3>2
  <2>3. loop' = loop \/ loop' = [loop EXCEPT ![w] = r]
    BY <1>2 DEF MiniLogin, Callback
  <2>4. \A x \in Process : loop'[x] = loop[x] \/ loop'[x] = r
    BY <2>3 DEF BaseInv, TypeInv
  <2>. QED
    BY <1>0, <2>1, <2>2, <2>4, CapAside
<1>3. ASSUME NEW r \in Login, NEW p \in Person, Consume(r) \/ ResolveFails(r) \/ Denied(r, p) PROVE CapInv'
  <2>1. UNCHANGED sessions /\ \A q \in Login : q # r => login'[q] = login[q]
    BY <1>3 DEF Consume, ResolveFails, Denied, BaseInv, TypeInv
  <2>2. login'[r].pc # "issue"
    <3>1. login[r].pc = "consume" => login[r] \in Consuming
      BY RequestFacts DEF BaseInv, TypeInv
    <3>2. login'[r] = Idle \/ (login[r].pc = "consume" /\ login'[r] = [login[r] EXCEPT !.pc = "resolve"])
      BY <1>3 DEF Consume, ResolveFails, Denied, BaseInv, TypeInv
    <3>. QED
      BY <3>1, <3>2, RequestFacts, RequestResolves
  <2>3. loop' = loop \/ loop' = [loop EXCEPT ![login[r].process] = None]
    BY <1>3 DEF Consume, ResolveFails, Denied
  <2>4. \A x \in Process : loop'[x] = loop[x] \/ loop'[x] \notin Login
    BY <2>3, Kinds DEF BaseInv, TypeInv
  <2>. QED
    BY <1>0, <2>1, <2>2, <2>4, CapAside
<1>4. ASSUME NEW r \in Login, NEW p \in Person, LookUp(r, p) PROVE CapInv'
  BY <1>0, <1>4, CapLookUp
<1>5. ASSUME NEW r \in Login, Issue(r) PROVE CapInv'
  BY <1>0, <1>5, CapIssue
<1>6. ASSUME NEW u \in User, Logout(u) \/ RevokeUserSessions(u) PROVE CapInv'
  BY <1>0, <1>6, CapEnd
<1>7. ASSUME NEW t \in Edit, CommitUpdate(t) PROVE CapInv'
  <2>. DEFINE u == edit[t].user
  <2>1. /\ edit[t].pc = "checked" /\ login' = LoginsAfter /\ UNCHANGED loop
        /\ \A v \in User : v # u => users'[v] = users[v]
        /\ sessions' = Marked(IF edit[t].change \in SecurityFields THEN Revoked({u}) ELSE sessions)
    BY <1>7 DEF CommitUpdate, BaseInv, TypeInv
  <2>2. edit[t].change \in Change /\ u \in User
    BY <2>1, UpdateFacts DEF BaseInv, TypeInv
  <2>3. /\ Revoked({u}) \in [User -> Seq(Session)]
        /\ \A v \in User : Revoked({u})[v] = IF v \in {u} THEN << >> ELSE sessions[v]
    BY RevokedFacts DEF BaseInv
  <2>4. sessions' = Marked(Revoked({u}))
    BY <2>1, <2>2 DEF SecurityFields
  <2>5. ASSUME NEW v \in User PROVE sessions'[v] = << >> \/ sessions'[v] = sessions[v]
    <3>1. CASE v = u
      BY <2>3, <2>4, <3>1, EmptyMarked
    <3>2. CASE v # u
      <4>1. users'[v] = users[v]
        BY <2>1, <3>2
      <4>. QED
        BY <2>3, <2>4, <3>2, <4>1, MarkedFacts
    <3>. QED
      BY <3>1, <3>2
  <2>. QED
    BY <1>0, <1>7, <2>1, <2>5, UsersStay, CapUsers
<1>8. ASSUME NEW e \in Event, NEW w \in Process, NEW p \in Person, CarryOut(e, w, p) PROVE CapInv'
  <2>1. /\ users' = [u \in User |-> IF u \in Bound(p) THEN [users[u] EXCEPT !.active = FALSE] ELSE users[u]]
        /\ sessions' = Marked(Revoked(Bound(p))) /\ login' = LoginsAfter
        /\ loop' = [loop EXCEPT ![w] = None]
    BY <1>8 DEF CarryOut
  <2>2. /\ Revoked(Bound(p)) \in [User -> Seq(Session)]
        /\ \A v \in User : Revoked(Bound(p))[v] = IF v \in Bound(p) THEN << >> ELSE sessions[v]
    BY RevokedFacts DEF BaseInv
  <2>3. ASSUME NEW v \in User PROVE sessions'[v] = << >> \/ sessions'[v] = sessions[v]
    <3>1. CASE v \in Bound(p)
      BY <2>1, <2>2, <3>1, EmptyMarked
    <3>2. CASE v \notin Bound(p)
      <4>1. users'[v] = users[v]
        BY <2>1, <3>2
      <4>. QED
        BY <2>1, <2>2, <3>2, <4>1, MarkedFacts
    <3>. QED
      BY <3>1, <3>2
  <2>4. \A x \in Process : loop'[x] = loop[x] \/ loop'[x] \notin Login
    BY <2>1, Kinds DEF BaseInv, TypeInv
  <2>. QED
    BY <1>0, <1>8, <2>1, <2>3, <2>4, UsersStay, CapUsers
<1>9. ASSUME NEW e \in Event, NEW w \in Process, Deliver(e, w) \/ Duplicate(e, w) PROVE CapInv'
  <2>1. UNCHANGED <<sessions, login>> /\ (loop' = [loop EXCEPT ![w] = e] \/ loop' = [loop EXCEPT ![w] = None])
    BY <1>9 DEF Deliver, Duplicate
  <2>2. \A x \in Process : loop'[x] = loop[x] \/ loop'[x] \notin Login
    BY <2>1, Kinds DEF BaseInv, TypeInv
  <2>. QED
    BY <1>0, <2>1, <2>2, CapAside
<1>10. CASE Restart
  BY <1>0, <1>10, CapRestart
<1>11. \/ UNCHANGED <<sessions, login, loop>>
       \/ \E r \in Login, w \in Process : MiniLogin(r, w) \/ \E s \in State : Callback(r, s, w)
       \/ \E r \in Login : Consume(r) \/ ResolveFails(r) \/ Issue(r)
       \/ \E r \in Login, p \in Person : LookUp(r, p) \/ Denied(r, p)
       \/ \E u \in User : Logout(u) \/ RevokeUserSessions(u)
       \/ \E t \in Edit : CommitUpdate(t)
       \/ \E e \in Event, w \in Process : \/ Deliver(e, w) \/ Duplicate(e, w)
                                          \/ \E p \in Person : CarryOut(e, w, p)
       \/ Restart
  BY DEF Next, vars, StartLogin, ExpireState, Authenticate, CheckUpdate, RefuseUpdate, CreateUser
<1>12. Bootstrap \in Person
  BY AccountsAssumption
<1>. QED
  BY <1>1, <1>2, <1>3, <1>4, <1>5, <1>6, <1>7, <1>8, <1>9, <1>10, <1>11, <1>12

\* An account has at most as many live sessions as the cap and one more for every further server
\* process, however often logins in several of them overlap (auth.py _issue_session).
THEOREM AccountsSessionCap == Spec => []SessionCap
<1>1. Init => CapInv
  <2> SUFFICES ASSUME Init PROVE CapInv
    OBVIOUS
  <2>1. MaxSessions \in Nat \ {0} /\ Cardinality(Process) \in Nat
    BY AccountsAssumption, FS_CardinalityType
  <2>2. \A u \in User : sessions[u] = << >>
    BY DEF Init
  <2>3. \A r \in Login : login[r].pc = "idle"
    BY RequestFacts DEF Init
  <2>4. 0 <= MaxSessions + Cardinality(Process) - 1
    BY <2>1, SMT
  <2>5. \A u \in User, j \in Nat : Waiting(u, j) = {}
    BY <2>3 DEF Waiting, Awaits
  <2>. QED
    BY <2>2, <2>4, <2>5, EmptyLeaves DEF CapInv
<1>2. CapInv => SessionCap
  BY DEF CapInv, SessionCap
<1>. QED
  BY BaseInit, BaseNext, CapNext, <1>1, <1>2, PTL DEF Spec
=============================================================================
