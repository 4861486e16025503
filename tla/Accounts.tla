------------------------------ MODULE Accounts ------------------------------
(***************************************************************************)
(* Accounts and their sessions.  A login is a coroutine: between two       *)
(* awaits it has the event loop of its process to itself, but the          *)
(* endpoints that administrators use run in threads, and a second process  *)
(* has a loop of its own.  The directory service reports changes of        *)
(* members, each of them perhaps several times.                            *)
(***************************************************************************)
EXTENDS Naturals, Sequences, FiniteSets, SequencesExt

CONSTANTS
  User,         \* account rows
  Person,       \* members of the company, by their WeCom UserId
  Bootstrap,    \* bootstrap_admin_wecom_userid
  State,        \* OAuth states that may be handed out
  Login,        \* login requests under way at once
  Process,      \* server processes, each with an event loop
  Edit,         \* threads that serve update_user
  Event,        \* changes the directory reports
  MaxSessions,  \* max_sessions_per_user
  MaxBusy,      \* bound: requests under way at once
  None

ASSUME AccountsAssumption ==
  /\ Bootstrap \in Person
  /\ MaxSessions \in Nat \ {0} /\ MaxBusy \in Nat
  /\ None \notin User \cup Person \cup State \cup Login \cup Process \cup Event
  /\ None \notin [active : BOOLEAN, role : {"admin", "member"}, person : Person]
  /\ Login \cap Event = {} /\ IsFiniteSet(Process)

VARIABLES
  users,     \* User rows
  sessions,  \* each account's WebSession rows that are not revoked, oldest first
  oauth,     \* OAuthState rows
  issued,    \* history: the sessions issued for each of them
  login,     \* login requests
  loop,      \* the login or the directory change that has the event loop of a process
  edit,      \* update_user requests
  hits,      \* how often a change the directory reported was carried out
  receipts,  \* WecomEventReceipt rows
  excused    \* history: the last administrator went in a way the code does not prevent

vars == <<users, sessions, oauth, issued, login, loop, edit, hits, receipts, excused>>

(* Whether the account is an administrator's; what it may do otherwise is Access's. *)
Role == {"admin", "member"}

(* One field of UserUpdate: is_active, role or a new wecom_userid. *)
Change == {"disable", "enable", "promote", "demote"} \cup Person

Idle == [pc |-> "idle"]

Busy == {r \in Login : login[r].pc # "idle"} \cup {t \in Edit : edit[t].pc # "idle"}
          \cup {w \in Process : loop[w] \in Event}

Exists(u) == users[u] # None
Bound(p) == {u \in User : Exists(u) /\ users[u].person = p}

(* The UserId is nobody else's: users.wecom_userid is unique. *)
FreeOfActive(p, u) == \A v \in Bound(p) \ {u} : ~users[v].active

Free(p, u) == Bound(p) \subseteq {u}

Administrators == {u \in User : Exists(u) /\ users[u].role = "admin" /\ users[u].active}

NewUser(role, p) == [active |-> TRUE, role |-> role, person |-> p]

(* History.  A session is stale when it was there before the last security change of its   *)
(* account, or its login was when the account was disabled; a login that outlives both the *)
(* disabling and the enabling counts as a new one.  An update is overtaken when the        *)
(* administrators change after its checks. *)
Marked(rows) ==
  [u \in User |-> IF users'[u] = users[u] THEN rows[u]
                  ELSE [i \in DOMAIN rows[u] |-> [rows[u][i] EXCEPT !.stale = TRUE]]]

LoginsAfter ==
  [r \in Login |-> IF login[r].pc = "issue" /\ users'[login[r].user].active # users[login[r].user].active
                   THEN [login[r] EXCEPT !.stale = ~users'[login[r].user].active] ELSE login[r]]

EditsAfter(rest) ==
  [t \in Edit |-> IF rest[t].pc = "checked" /\ Administrators' # Administrators
                  THEN [rest[t] EXCEPT !.overtaken = TRUE] ELSE rest[t]]

(***************************************************************************)
(* Login                                                                   *)
(***************************************************************************)

(* wecom_start and wecom_qr_start hand out a fresh state.  A "spent" one was used, has *)
(* expired, or its row was deleted by a later start. *)
StartLogin(s) ==
  /\ oauth[s] = "none"
  /\ oauth' = [oauth EXCEPT ![s] = "open"]
  /\ UNCHANGED <<users, sessions, issued, login, loop, edit, hits, receipts, excused>>

ExpireState(s) ==
  /\ oauth[s] = "open"
  /\ oauth' = [oauth EXCEPT ![s] = "spent"]
  /\ UNCHANGED <<users, sessions, issued, login, loop, edit, hits, receipts, excused>>

(* _consume_oauth_state: it reads the state ... *)
Callback(r, s, w) ==
  /\ login[r].pc = "idle" /\ loop[w] = None /\ Cardinality(Busy) < MaxBusy
  /\ oauth[s] = "open"
  /\ login' = [login EXCEPT ![r] = [pc |-> "consume", state |-> s, process |-> w]]
  /\ loop' = [loop EXCEPT ![w] = r]
  /\ UNCHANGED <<users, sessions, oauth, issued, edit, hits, receipts, excused>>

(* ... and marks it used, unless another request did. *)
ConsumableFound(s) == TRUE

Consumable(s) == oauth[s] = "open"

Consume(r) ==
  /\ login[r].pc = "consume"
  /\ LET s == login[r].state
     IN IF Consumable(s)
        THEN /\ oauth' = [oauth EXCEPT ![s] = "spent"]
             /\ login' = [login EXCEPT ![r].pc = "resolve"]
        ELSE /\ login' = [login EXCEPT ![r] = Idle]
             /\ UNCHANGED oauth
  /\ loop' = [loop EXCEPT ![login[r].process] = None]
  /\ UNCHANGED <<users, sessions, issued, edit, hits, receipts, excused>>

(* wecom_miniprogram_login needs no state. *)
MiniLogin(r, w) ==
  /\ login[r].pc = "idle" /\ Cardinality(Busy) < MaxBusy
  /\ login' = [login EXCEPT ![r] = [pc |-> "resolve", state |-> None, process |-> w]]
  /\ UNCHANGED <<users, sessions, oauth, issued, loop, edit, hits, receipts, excused>>

(* The messaging service names the person, or fails: then the login is over. *)
ResolveFails(r) ==
  /\ login[r].pc = "resolve"
  /\ login' = [login EXCEPT ![r] = Idle]
  /\ UNCHANGED <<users, sessions, oauth, issued, loop, edit, hits, receipts, excused>>

(* The account is looked up and, in _issue_session, its sessions: all but the newest *)
(* MaxSessions - 1 of them are to go. *)
OverLimitLate(n) == {i \in 1..n : n - i >= MaxSessions}

OverLimit(n) == {i \in 1..n : n - i >= MaxSessions - 1}

ListOldest(rows, r) ==
  [i \in DOMAIN rows |->
     IF i \in OverLimit(Len(rows)) THEN [rows[i] EXCEPT !.doomed = @ \cup {r}] ELSE rows[i]]

LookUp(r, p) ==
  /\ login[r].pc = "resolve" /\ loop[login[r].process] = None
  /\ \E u \in Bound(p) :
       /\ users[u].active
       /\ login' = [login EXCEPT ![r] = [pc |-> "issue", state |-> @.state, process |-> @.process,
                                         user |-> u, stale |-> FALSE]]
       /\ sessions' = [sessions EXCEPT ![u] = ListOldest(@, r)]
  /\ loop' = [loop EXCEPT ![login[r].process] = r]
  /\ UNCHANGED <<users, oauth, issued, edit, hits, receipts, excused>>

Denied(r, p) ==
  /\ login[r].pc = "resolve" /\ loop[login[r].process] = None
  /\ \A u \in Bound(p) : ~users[u].active
  /\ login' = [login EXCEPT ![r] = Idle]
  /\ UNCHANGED <<users, sessions, oauth, issued, loop, edit, hits, receipts, excused>>

(* Its list holds the oldest sessions of the account; what was issued since comes after them. *)
Listed(rows, r) == {i \in DOMAIN rows : r \in rows[i].doomed}

Kept(rows, r) == SubSeq(rows, Cardinality(Listed(rows, r)) + 1, Len(rows))

Issue(r) ==
  /\ login[r].pc = "issue"
  /\ LET l == login[r]
     IN /\ sessions' = [sessions EXCEPT ![l.user] =
              Append(Kept(@, r), [doomed |-> {}, stale |-> l.stale])]
        /\ issued' = [s \in State |-> IF s = l.state THEN issued[s] + 1 ELSE issued[s]]
  /\ login' = [login EXCEPT ![r] = Idle]
  /\ loop' = [loop EXCEPT ![login[r].process] = None]
  /\ UNCHANGED <<users, oauth, edit, hits, receipts, excused>>

(* A session ends with logout or with its time. *)
Logout(u) ==
  /\ \E i \in DOMAIN sessions[u] : sessions' = [sessions EXCEPT ![u] = RemoveAt(@, i)]
  /\ UNCHANGED <<users, oauth, issued, login, loop, edit, hits, receipts, excused>>

(***************************************************************************)
(* Administration.  current_auth and require_admin: a live session of an   *)
(* active administrator.                                                   *)
(***************************************************************************)
Revoked(us) == [u \in User |-> IF u \in us THEN << >> ELSE sessions[u]]

Authorized == {a \in Administrators : sessions[a] # << >>}

CreateUser(u, role, p) ==
  /\ Authorized # {}
  /\ ~Exists(u) /\ Free(p, u)
  /\ users' = [users EXCEPT ![u] = NewUser(role, p)]
  /\ UNCHANGED <<sessions, oauth, issued, login, loop, edit, hits, receipts, excused>>

RevokeUserSessions(u) ==
  /\ Exists(u) /\ Authorized \ {u} # {}
  /\ sessions[u] # << >>
  /\ sessions' = Revoked({u})
  /\ UNCHANGED <<users, oauth, issued, login, loop, edit, hits, receipts, excused>>

Authenticate(t, a) ==
  /\ edit[t].pc = "idle" /\ a \in Authorized /\ Cardinality(Busy) < MaxBusy
  /\ edit' = [edit EXCEPT ![t] = [pc |-> "authenticated", by |-> a, first |-> users[a].person = Bootstrap]]
  /\ UNCHANGED <<users, sessions, oauth, issued, login, loop, hits, receipts, excused>>

(***************************************************************************)
(* The checks of update_user.                                              *)
(***************************************************************************)
RoleOf(c) == IF c = "promote" THEN "admin" ELSE "member"
ChangesRole(u, c) == c \in {"promote", "demote"} /\ users[u].role # RoleOf(c)
RemovesAdmin(u, c) == c \in {"disable", "demote"} /\ users[u].role = "admin"

NoLastCheck(u, c) == TRUE

KeepsAdmin(u, c) == RemovesAdmin(u, c) => Administrators \ {u} # {}

Permitted(t, u, c) ==
  /\ u = edit[t].by => c \in {"enable", "promote"}
  /\ ChangesRole(u, c) => edit[t].first
  /\ KeepsAdmin(u, c)
  /\ c \in Person => Free(c, u)

(* The column that a field of the request sets. *)
Changed(row, c) ==
  CASE c = "disable" -> [row EXCEPT !.active = FALSE]
    [] c = "enable"  -> [row EXCEPT !.active = TRUE]
    [] c \in {"promote", "demote"} -> [row EXCEPT !.role = RoleOf(c)]
    [] OTHER -> [row EXCEPT !.person = c]

CheckUpdate(t, u, c) ==
  /\ edit[t].pc = "authenticated" /\ Exists(u)
  /\ edit' = [edit EXCEPT ![t] = IF Permitted(t, u, c)
                                 THEN [pc |-> "checked", user |-> u, change |-> c,
                                       writes |-> Changed(users[u], c) # users[u],
                                       overtaken |-> FALSE]
                                 ELSE Idle]
  /\ UNCHANGED <<users, sessions, oauth, issued, login, loop, hits, receipts, excused>>

(* It is written when it differs from what was read.  The row stays locked from the flush  *)
(* before the sessions are read until the commit, so that no login of the account commits  *)
(* in between. *)
DisablingFields == Change \ {"enable"}

SecurityFields == Change

CommitUpdate(t) ==
  /\ edit[t].pc = "checked"
  /\ LET u == edit[t].user
         c == edit[t].change
         row == IF edit[t].writes THEN Changed(users[u], c) ELSE users[u]
         left == IF c \in SecurityFields THEN Revoked({u}) ELSE sessions
     IN /\ Free(row.person, u)
        /\ users' = [users EXCEPT ![u] = row]
        /\ sessions' = Marked(left)
        /\ login' = LoginsAfter
        /\ excused' = (excused \/ (edit[t].overtaken /\ Administrators' = {}))
        /\ edit' = EditsAfter([edit EXCEPT ![t] = Idle])
  /\ UNCHANGED <<oauth, issued, loop, hits, receipts>>

(* Somebody took the UserId in the meantime: the database refuses. *)
RefuseUpdate(t) ==
  /\ edit[t].pc = "checked"
  /\ edit[t].change \in Person /\ ~Free(edit[t].change, edit[t].user)
  /\ edit' = [edit EXCEPT ![t] = Idle]
  /\ UNCHANGED <<users, sessions, oauth, issued, login, loop, hits, receipts, excused>>

(***************************************************************************)
(* directory_event: a member was deleted, created anew, disabled or left.  *)
(* It looks for the receipt of the change, then writes it and carries the  *)
(* change out in one transaction.                                          *)
(***************************************************************************)
Deliver(e, w) ==
  /\ loop[w] = None /\ Cardinality(Busy) < MaxBusy
  /\ e \notin receipts
  /\ loop' = [loop EXCEPT ![w] = e]
  /\ UNCHANGED <<users, sessions, oauth, issued, login, edit, hits, receipts, excused>>

(* The key of the receipt tells the same change in another process. *)
AnyDelivery(e) == TRUE

NewDelivery(e) == e \notin receipts

CarryOut(e, w, p) ==
  /\ loop[w] = e /\ NewDelivery(e)
  /\ receipts' = receipts \cup {e}
  /\ hits' = [hits EXCEPT ![e] = @ + 1]
  /\ users' = [u \in User |-> IF u \in Bound(p) THEN [users[u] EXCEPT !.active = FALSE] ELSE users[u]]
  /\ sessions' = Marked(Revoked(Bound(p)))
  /\ login' = LoginsAfter
  /\ edit' = EditsAfter(edit)
  /\ excused' = (excused \/ (Administrators # {} /\ Administrators' = {}))
  /\ loop' = [loop EXCEPT ![w] = None]
  /\ UNCHANGED <<oauth, issued>>

Duplicate(e, w) ==
  /\ loop[w] = e /\ ~NewDelivery(e)
  /\ loop' = [loop EXCEPT ![w] = None]
  /\ UNCHANGED <<users, sessions, oauth, issued, login, edit, hits, receipts, excused>>

(* The server stops between two statements and starts: bootstrap_admin. *)
Restart ==
  /\ login' = [r \in Login |-> Idle]
  /\ loop' = [w \in Process |-> None]
  /\ edit' = [t \in Edit |-> Idle]
  /\ IF Bound(Bootstrap) # {} THEN UNCHANGED users
     ELSE \E u \in User : ~Exists(u) /\ users' = [users EXCEPT ![u] = NewUser("admin", Bootstrap)]
  /\ sessions' = [u \in User |-> [i \in DOMAIN sessions[u] |-> [sessions[u][i] EXCEPT !.doomed = {}]]]
  /\ UNCHANGED <<oauth, issued, hits, receipts, excused>>

-----------------------------------------------------------------------------
Init ==
  /\ \E u \in User : users = [x \in User |-> IF x = u THEN NewUser("admin", Bootstrap) ELSE None]
  /\ sessions = [u \in User |-> << >>]
  /\ oauth = [s \in State |-> "none"]
  /\ issued = [s \in State |-> 0]
  /\ login = [r \in Login |-> Idle]
  /\ loop = [w \in Process |-> None]
  /\ edit = [t \in Edit |-> Idle]
  /\ hits = [e \in Event |-> 0]
  /\ receipts = {}
  /\ excused = FALSE

Next ==
  \/ \E s \in State : StartLogin(s) \/ ExpireState(s)
  \/ \E r \in Login, w \in Process : MiniLogin(r, w) \/ \E s \in State : Callback(r, s, w)
  \/ \E r \in Login : Consume(r) \/ ResolveFails(r) \/ Issue(r)
  \/ \E r \in Login, p \in Person : LookUp(r, p) \/ Denied(r, p)
  \/ \E u \in User : Logout(u)
  \/ \E u \in User, role \in Role, p \in Person : CreateUser(u, role, p)
  \/ \E u \in User : RevokeUserSessions(u)
  \/ \E t \in Edit, a \in User : Authenticate(t, a)
  \/ \E t \in Edit, u \in User, c \in Change : CheckUpdate(t, u, c)
  \/ \E t \in Edit : CommitUpdate(t) \/ RefuseUpdate(t)
  \/ \E e \in Event, w \in Process : \/ Deliver(e, w) \/ Duplicate(e, w)
                                     \/ \E p \in Person : CarryOut(e, w, p)
  \/ Restart

Spec == Init /\ [][Next]_vars

-----------------------------------------------------------------------------
TypeOK ==
  /\ users \in [User -> {None} \cup [active : BOOLEAN, role : Role, person : Person]]
  /\ \A u, v \in User : Exists(u) /\ Exists(v) /\ users[u].person = users[v].person => u = v
  /\ sessions \in [User -> Seq([doomed : SUBSET Login, stale : BOOLEAN])]
  /\ oauth \in [State -> {"none", "open", "spent"}]
  /\ issued \in [State -> Nat]
  /\ \A r \in Login : login[r].pc \in {"idle", "consume", "resolve", "issue"}
  /\ \A w \in Process : loop[w] \in Login => login[loop[w]].process = w
  /\ \A t \in Edit : edit[t].pc \in {"idle", "authenticated", "checked"}
  /\ hits \in [Event -> Nat] /\ receipts \subseteq Event
  /\ excused \in BOOLEAN

(* An account has at most MaxSessions live sessions; logins in several processes, each   *)
(* of which counts before the others commit, add one for every further process, and no   *)
(* more however often they meet. *)
SessionCap == \A u \in User : Len(sessions[u]) <= MaxSessions + Cardinality(Process) - 1

(* A state handed out for one login issues at most one session, also when two requests   *)
(* bring it to two processes at the same time. *)
OneSessionPerState == \A s \in State : issued[s] <= 1

(* Whoever may use a session had the account as it is: no session of an active account   *)
(* is from before its last change of role, member or activity, and none comes from a     *)
(* login that was under way when the account was disabled - it may be committed after    *)
(* that, but enabling the account revokes it. *)
SessionsCurrent ==
  \A u \in User : \A i \in DOMAIN sessions[u] : users[u].active => ~sessions[u][i].stale

(* An active administrator remains, unless the directory disabled one or two updates     *)
(* overlapped: then each may have checked against the other's administrator. *)
AdminRemains == excused \/ Administrators # {}

(* A change of the directory is carried out once, however often it is delivered, also to *)
(* two processes at once: what an administrator restored afterwards stays restored. *)
AppliedOnce == \A e \in Event : hits[e] <= 1
=============================================================================
