------------------------------- MODULE Access -------------------------------
(***************************************************************************)
(* Access rules: which resources an account may see, operate and manage,   *)
(* and how administrators and scoped managers change the rules of others.  *)
(* A manager reads an account's rules and version, then sends what they    *)
(* shall be; the request reads again, checks, and commits.                 *)
(***************************************************************************)
EXTENDS Naturals

CONSTANTS
  User,         \* accounts whose rules are changed
  Node, Container, Service,
  EnvironmentOf,  \* of each node
  NodeOf,         \* of each container
  ProjectOf,      \* the Compose project of each container
  Offer,        \* bound: the rules that requests ask for, at most one in a request
  Edit,         \* requests under way at once
  MaxChanges,   \* bound: changes of rules and roles
  None

Scope ==
  [type : {"all"}]
    \cup [type : {"environment"}, environment : {EnvironmentOf[n] : n \in Node}]
    \cup [type : {"node"}, node : Node]
    \cup {[type |-> "project", node |-> NodeOf[c], project |-> ProjectOf[c]] : c \in Container}
    \cup {[type |-> "container", node |-> NodeOf[c], container |-> c] : c \in Container}
    \cup [type : {"service"}, service : Service]

(* can_view, can_logs, can_operate and can_manage: each of them implies those before it. *)
Level == {"view", "logs", "operate", "manage"}

(* A rule on a service never gives its logs. *)
Rule == {r \in [scope : Scope, level : Level] : r.scope.type = "service" => r.level # "logs"}

(* AccessRule rows: a change of an account's rules inserts new ones. *)
Row == [scope : Scope, level : Level, change : 1..MaxChanges]

ASSUME AccessAssumption ==
  /\ NodeOf \in [Container -> Node]
  /\ DOMAIN EnvironmentOf = Node /\ DOMAIN ProjectOf = Container
  /\ Offer \subseteq Rule
  /\ MaxChanges \in Nat
  /\ None \notin Nat /\ "admin" \notin User

VARIABLES
  role,        \* the role of each account
  restricted,  \* resource_restricted
  rules,       \* AccessRule rows of each account
  version,     \* access_version
  edit,        \* requests
  changes,     \* changes so far
  granted,     \* history: the rules administrators ever gave
  collided,    \* history: accounts whose version was written by a request that had read an older one
  lost         \* history: accounts whose rules an update with a version replaced unseen

vars == <<role, restricted, rules, version, edit, changes, granted, collided, lost>>

Idle == [pc |-> "idle"]

(***************************************************************************)
(* What a rule allows                                                      *)
(***************************************************************************)
Rank(l) == CASE l = "view" -> 0 [] l = "logs" -> 1 [] l = "operate" -> 2 [] l = "manage" -> 3

PermissionGranted(r, permission) == Rank(r.level) >= Rank(permission)

RuleMatches(s, c) ==
  CASE s.type = "all"         -> TRUE
    [] s.type = "environment" -> s.environment = EnvironmentOf[NodeOf[c]]
    [] s.type = "node"        -> s.node = NodeOf[c]
    [] s.type = "project"     -> s.node = NodeOf[c] /\ s.project = ProjectOf[c]
    [] s.type = "container"   -> s.container = c
    [] s.type = "service"     -> FALSE

CanAccess(u, c, permission) ==
  \/ role[u] = "admin"
  \/ /\ permission \in {"operate", "manage"} => role[u] = "operator"
     /\ permission = "manage" => restricted[u]
     /\ restricted[u] => \E r \in rules[u] : PermissionGranted(r, permission) /\ RuleMatches(r.scope, c)

CanAccessService(u, s, permission) ==
  \/ role[u] = "admin"
  \/ /\ permission \in {"operate", "manage"} => role[u] = "operator"
     /\ IF ~restricted[u] THEN permission # "manage"
        ELSE \E r \in rules[u] : /\ r.scope = [type |-> "service", service |-> s]
                                 /\ PermissionGranted(r, permission)

(***************************************************************************)
(* Which scopes a management rule covers                                   *)
(***************************************************************************)
NodeScoped(s) == s.type \in {"node", "project", "container"}

ContainsByName(m, s) ==
  CASE m.type = "all" -> TRUE
    [] m.type = "environment" ->
         \/ s = m
         \/ NodeScoped(s) /\ EnvironmentOf[s.node] = m.environment
    [] m.type = "node" -> NodeScoped(s) /\ s.node = m.node
    [] m.type = "project" ->
         \/ s = m
         \/ s.type = "container" /\ ProjectOf[s.container] = m.project
    [] m.type = "container" -> s = m
    [] m.type = "service" -> FALSE

Contains(m, s) ==
  CASE m.type = "all" -> TRUE
    [] m.type = "environment" ->
         \/ s = m
         \/ NodeScoped(s) /\ EnvironmentOf[s.node] = m.environment
    [] m.type = "node" -> NodeScoped(s) /\ s.node = m.node
    [] m.type = "project" ->
         \/ s = m
         \/ s.type = "container" /\ s.node = m.node /\ ProjectOf[s.container] = m.project
    [] m.type = "container" -> s = m
    [] m.type = "service" -> FALSE

ManagementRules(u) ==
  IF role[u] = "operator" /\ restricted[u] THEN {r.scope : r \in {x \in rules[u] : x.level = "manage"}}
  ELSE {}

CanManageScope(by, may, s) ==
  by = "admin" \/ (s.type # "service" /\ \E m \in may : Contains(m, s))

(***************************************************************************)
(* Requests                                                                *)
(***************************************************************************)
Manager == {"admin"} \cup {u \in User : ManagementRules(u) # {}}

MayEdit(by, u) ==
  by # "admin" => role[u] # "admin" /\ u # by /\ restricted[u]

(* get_user_access: what the manager has seen. *)
Load(t, by, u) ==
  /\ edit[t].pc = "idle" /\ by \in Manager /\ MayEdit(by, u)
  /\ edit' = [edit EXCEPT ![t] = [pc |-> "loaded", by |-> by, user |-> u, version |-> version[u],
                                  missed |-> FALSE]]
  /\ UNCHANGED <<role, restricted, rules, version, changes, granted, collided, lost>>

(* _validate_rule, and what _prepare_access_change refuses. *)
Valid(u, r) ==
  /\ r.level = "manage" => role[u] = "operator"
  /\ r.scope.type = "service" => r.level # "logs" /\ (r.level = "operate" => role[u] = "operator")

(* update_user_access up to its checks.  `expected` is the version that was seen, or None. *)
Prepare(t, wanted, keeps, expected) ==
  /\ edit[t].pc = "loaded"
  /\ LET by == edit[t].by
         u == edit[t].user
         may == IF by = "admin" THEN {} ELSE ManagementRules(by)
     IN /\ by \in Manager /\ MayEdit(by, u)
        /\ keeps => role[u] # "admin"
        /\ by # "admin" => keeps
        /\ ~keeps => wanted = {}
        /\ expected # None => version[u] = expected
        /\ \A r \in wanted : Valid(u, r) /\ CanManageScope(by, may, r.scope)
        /\ edit' = [edit EXCEPT ![t] =
             [pc |-> "prepared", by |-> by, user |-> u, missed |-> expected # None /\ edit[t].missed,
              expected |-> expected, version |-> version[u], restricted |-> restricted[u],
              wanted |-> wanted, keeps |-> keeps,
              gone |-> {[scope |-> r.scope, change |-> r.change] :
                          r \in {x \in rules[u] : CanManageScope(by, may, x.scope)}}]]
  /\ UNCHANGED <<role, restricted, rules, version, changes, granted, collided, lost>>

Refuse(t) ==
  /\ edit[t].pc = "loaded"
  /\ edit' = [edit EXCEPT ![t] = Idle]
  /\ UNCHANGED <<role, restricted, rules, version, changes, granted, collided, lost>>

(* History: requests for the account u that do not know of the change made now; one that *)
(* names no version asks for nothing to be kept. *)
Overtaken(rest, u) ==
  [t \in Edit |->
    IF /\ rest[t].pc = "loaded" \/ (rest[t].pc = "prepared" /\ rest[t].expected # None)
       /\ rest[t].user = u /\ rules'[u] # rules[u]
    THEN [rest[t] EXCEPT !.missed = TRUE] ELSE rest[t]]

(* The statement that raises the version finds it as expected and locks the row. *)
Unchecked(e) == TRUE

VersionMatches(e) == e.expected # None => version[e.user] = e.expected

Inserted(e) == {[scope |-> r.scope, level |-> r.level, change |-> changes + 1] : r \in e.wanted}

Replaced(u, e) ==
  IF e.by = "admin" THEN Inserted(e)
  ELSE {r \in rules[u] : [scope |-> r.scope, change |-> r.change] \notin e.gone} \cup Inserted(e)

(* The session writes an attribute back only if it differs from what was read, and reads *)
(* the account again once a version has matched. *)
RestrictedAfter(u, e) ==
  IF e.by = "admin" /\ (e.expected # None \/ e.keeps # e.restricted) THEN e.keeps ELSE restricted[u]

CommitAccess(t) ==
  /\ edit[t].pc = "prepared"
  /\ LET e == edit[t]
         u == e.user
     IN /\ VersionMatches(e) /\ changes < MaxChanges
        /\ version' = [version EXCEPT ![u] = IF e.expected # None THEN @ + 1 ELSE e.version + 1]
        /\ rules' = [rules EXCEPT ![u] = Replaced(u, e)]
        /\ restricted' = [restricted EXCEPT ![u] = RestrictedAfter(u, e)]
        /\ granted' = IF e.by = "admin" THEN granted \cup e.wanted ELSE granted
        /\ lost' = IF e.missed /\ u \notin collided THEN lost \cup {u} ELSE lost
        /\ collided' = IF e.expected = None /\ e.version # version[u] THEN collided \cup {u} ELSE collided
        /\ edit' = Overtaken([edit EXCEPT ![t] = Idle], u)
  /\ changes' = changes + 1
  /\ UNCHANGED role

ConflictingAccess(t) ==
  /\ edit[t].pc = "prepared" /\ ~VersionMatches(edit[t])
  /\ edit' = [edit EXCEPT ![t] = Idle]
  /\ UNCHANGED <<role, restricted, rules, version, changes, granted, collided, lost>>

(* revoke_user_management reads the account, later writes a version one higher. *)
BeginRevoke(t, u) ==
  /\ edit[t].pc = "idle"
  /\ edit' = [edit EXCEPT ![t] = [pc |-> "revoking", user |-> u, version |-> version[u]]]
  /\ UNCHANGED <<role, restricted, rules, version, changes, granted, collided, lost>>

WithoutManagement(s) ==
  {IF r.level = "manage" THEN [r EXCEPT !.level = "operate"] ELSE r : r \in s}

CommitRevoke(t) ==
  /\ edit[t].pc = "revoking"
  /\ LET u == edit[t].user
     IN /\ changes < MaxChanges
        /\ version' = [version EXCEPT ![u] = edit[t].version + 1]
        /\ rules' = [rules EXCEPT ![u] = WithoutManagement(@)]
        /\ collided' = IF edit[t].version # version[u] THEN collided \cup {u} ELSE collided
        /\ edit' = Overtaken([edit EXCEPT ![t] = Idle], u)
  /\ changes' = changes + 1
  /\ UNCHANGED <<role, restricted, granted, lost>>

(* A viewer keeps the rules above viewing, which then allow nothing, or loses them. *)
ClearedToLogs(s) ==
  {IF r.level \in {"operate", "manage"} THEN [r EXCEPT !.level = "logs"] ELSE r : r \in s}

Cleared(s) ==
  {IF r.level \in {"operate", "manage"}
   THEN [r EXCEPT !.level = IF r.scope.type = "service" THEN "view" ELSE "logs"] ELSE r : r \in s}

(* update_user with a role, which may be the one the account has: the version stays. *)
SetRole(u, new, clear) ==
  /\ changes < MaxChanges
  /\ role' = [role EXCEPT ![u] = new]
  /\ rules' = [rules EXCEPT ![u] = IF new = "admin" THEN {}
                                   ELSE IF new = "viewer" /\ clear THEN Cleared(@) ELSE @]
  /\ restricted' = [restricted EXCEPT ![u] = IF new = "admin" THEN FALSE
                                             ELSE IF role[u] = "admin" THEN TRUE ELSE @]
  /\ changes' = changes + 1
  /\ UNCHANGED <<version, edit, granted, collided, lost>>

-----------------------------------------------------------------------------
Init ==
  /\ role = [u \in User |-> "operator"]
  /\ restricted = [u \in User |-> TRUE]
  /\ rules = [u \in User |-> {}]
  /\ version = [u \in User |-> 1]
  /\ edit = [t \in Edit |-> Idle]
  /\ changes = 0
  /\ granted = {}
  /\ collided = {}
  /\ lost = {}

Next ==
  \/ \E t \in Edit, by \in {"admin"} \cup User, u \in User : Load(t, by, u)
  \/ \E t \in Edit, wanted \in {{}} \cup {{r} : r \in Offer}, keeps \in BOOLEAN :
       edit[t].pc = "loaded" /\ \E expected \in {edit[t].version, None} : Prepare(t, wanted, keeps, expected)
  \/ \E t \in Edit : Refuse(t) \/ CommitAccess(t) \/ ConflictingAccess(t) \/ CommitRevoke(t)
  \/ \E t \in Edit, u \in User : BeginRevoke(t, u)
  \/ \E u \in User, new \in {"admin", "operator", "viewer"}, clear \in BOOLEAN : SetRole(u, new, clear)

Spec == Init /\ [][Next]_vars

-----------------------------------------------------------------------------
TypeOK ==
  /\ role \in [User -> {"admin", "operator", "viewer"}]
  /\ restricted \in [User -> BOOLEAN]
  /\ \A u \in User : \A r \in rules[u] :
       r \in Row /\ [scope |-> r.scope, level |-> r.level] \in Rule
  /\ version \in [User -> 1..(MaxChanges + 1)]
  /\ \A t \in Edit : edit[t].pc \in {"idle", "loaded", "prepared", "revoking"}
  /\ changes \in 0..MaxChanges
  /\ granted \subseteq Rule /\ collided \subseteq User /\ lost \subseteq User

(* Management cannot grow by passing it on: whatever a chain of managers granted one     *)
(* another, a container that somebody manages lies within a rule an administrator gave   *)
(* for management, and a service somebody operates was given by an administrator. *)
DelegationBounded ==
  \A u \in User : role[u] # "admin" =>
    /\ \A c \in Container : CanAccess(u, c, "manage") =>
         \E r \in granted : r.level = "manage" /\ RuleMatches(r.scope, c)
    /\ \A s \in Service : restricted[u] /\ CanAccessService(u, s, "operate") =>
         \E r \in granted : r.scope = [type |-> "service", service |-> s]

(* What a scoped manager may rewrite is what the manager may manage: the rules it can    *)
(* add or remove concern no container outside, by the test that decides who may use a    *)
(* container, and no service. *)
Confined ==
  [][\A t \in Edit : edit[t].pc = "loaded" /\ edit'[t].pc = "prepared" /\ edit[t].by # "admin" =>
       \A s \in {r.scope : r \in edit'[t].gone \cup edit'[t].wanted} :
         /\ s.type # "service"
         /\ \A c \in Container : RuleMatches(s, c) => CanAccess(edit[t].by, c, "manage")]_vars

(* An update that names a version replaces only what its author has seen, whatever other *)
(* updates, with a version or without one, and revocations are under way, unless one of  *)
(* them wrote a version for this account that it had read before another one.  (A change *)
(* of role raises no version, so an update may undo what it did to the rules.) *)
NoLostUpdate == lost = {}

=============================================================================
