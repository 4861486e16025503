---------------------------- MODULE Access_proofs ----------------------------
(***************************************************************************)
(* Theorems about access rules, for any number of accounts, resources,     *)
(* offered rules and requests under way.                                   *)
(***************************************************************************)
EXTENDS Access, TLAPS

-----------------------------------------------------------------------------
(* Types.                                                                  *)

Version == 1..(changes + 1)

Loaded == [pc : {"loaded"}, by : User \cup {"admin"}, user : User, version : Version,
           missed : BOOLEAN]
Prepared == [pc : {"prepared"}, by : User \cup {"admin"}, user : User, missed : BOOLEAN,
             expected : Version \cup {None}, version : Version, restricted : BOOLEAN,
             wanted : SUBSET Rule, keeps : BOOLEAN, gone : SUBSET [scope : Scope, change : Nat]]
Revoking == [pc : {"revoking"}, user : User, version : Version]

\* A row is a rule an account may have.
GoodRow(r) == r \in Row /\ [scope |-> r.scope, level |-> r.level] \in Rule

TypeInv ==
  /\ role \in [User -> {"admin", "operator", "viewer"}]
  /\ restricted \in [User -> BOOLEAN]
  /\ DOMAIN rules = User /\ \A u \in User : \A r \in rules[u] : GoodRow(r)
  /\ changes \in 0..MaxChanges
  /\ version \in [User -> Version]
  /\ edit \in [Edit -> {Idle} \cup Loaded \cup Prepared \cup Revoking]
  /\ granted \subseteq Rule /\ collided \subseteq User /\ lost \subseteq User

LEMMA TypeInvImplies == TypeInv => TypeOK
<1> SUFFICES ASSUME TypeInv PROVE TypeOK
  OBVIOUS
<1>1. version \in [User -> 1..(MaxChanges + 1)]
  BY AccessAssumption, SMT DEF TypeInv, Version
<1>2. \A t \in Edit : edit[t].pc \in {"idle", "loaded", "prepared", "revoking"}
  BY SMT DEF TypeInv, Idle, Loaded, Prepared, Revoking
<1>. QED
  BY <1>1, <1>2 DEF TypeInv, TypeOK, GoodRow

LEMMA Nested == ASSUME NEW m \in Nat, NEW n \in Nat, m <= n PROVE 1..(m + 1) \subseteq 1..(n + 1)
OBVIOUS

\* Versions that were possible stay possible.
LEMMA EditStays ==
  ASSUME TypeInv, changes' \in Nat, changes <= changes'
  PROVE  /\ Version \subseteq Version'
         /\ Loaded \subseteq Loaded' /\ Prepared \subseteq Prepared' /\ Revoking \subseteq Revoking'
<1>0. changes \in Nat
  BY AccessAssumption DEF TypeInv
<1>1. Version \subseteq Version'
  BY <1>0, Nested DEF Version
<1>. QED
  BY <1>1, SMT DEF Loaded, Prepared, Revoking

LEMMA TypeInit == Init => TypeInv
BY AccessAssumption, SMT DEF Init, TypeInv, Version, Idle

LEMMA RowFacts ==
  ASSUME NEW r, GoodRow(r)
  PROVE  r.scope \in Scope /\ r.level \in Level /\ r.change \in Nat
<1>1. r \in [scope : Scope, level : Level, change : 1..MaxChanges]
  BY Zenon DEF GoodRow, Row
<1>2. r.scope \in Scope /\ r.level \in Level /\ r.change \in 1..MaxChanges
  BY <1>1, Zenon
<1>. QED
  BY <1>2, AccessAssumption

LEMMA ManagementType ==
  ASSUME TypeInv, NEW u \in User PROVE ManagementRules(u) \subseteq Scope
<1>1. \A r \in rules[u] : r.scope \in Scope
  BY RowFacts, Zenon DEF TypeInv
<1>. QED
  BY <1>1, Zenon DEF ManagementRules

\* A request that ends leaves the others as they are.
LEMMA IdleType ==
  ASSUME TypeInv, UNCHANGED <<role, restricted, rules, version, changes, granted, collided, lost>>,
         edit' \in [Edit -> {Idle} \cup Loaded \cup Prepared \cup Revoking]
  PROVE  TypeInv'
BY SMT DEF TypeInv, Version, Loaded, Prepared, Revoking, Idle

LEMMA LoadType ==
  ASSUME TypeInv, NEW t \in Edit, NEW by \in {"admin"} \cup User, NEW u \in User, Load(t, by, u)
  PROVE  TypeInv'
<1>1. [pc |-> "loaded", by |-> by, user |-> u, version |-> version[u], missed |-> FALSE] \in Loaded
  BY DEF TypeInv, Loaded
<1>. QED
  BY <1>1, IdleType DEF Load, TypeInv

LEMMA PrepareType ==
  ASSUME TypeInv, NEW t \in Edit, NEW wanted \in {{}} \cup {{r} : r \in Offer}, NEW keeps \in BOOLEAN,
         edit[t].pc = "loaded",
         NEW expected \in {edit[t].version, None}, Prepare(t, wanted, keeps, expected)
  PROVE  TypeInv' /\ edit[t] \in Loaded /\ edit'[t] \in Prepared /\ edit'[t].by = edit[t].by
<1>1. edit[t] \in Loaded
  BY SMT DEF TypeInv, Idle, Loaded, Prepared, Revoking
<1>2. wanted \subseteq Rule
  BY AccessAssumption
<1> DEFINE u == edit[t].user
           by == edit[t].by
           may == IF by = "admin" THEN {} ELSE ManagementRules(by)
           gone == {[scope |-> r.scope, change |-> r.change] :
                      r \in {x \in rules[u] : CanManageScope(by, may, x.scope)}}
           new == [pc |-> "prepared", by |-> by, user |-> u, missed |-> expected # None /\ edit[t].missed,
                   expected |-> expected, version |-> version[u], restricted |-> restricted[u],
                   wanted |-> wanted, keeps |-> keeps, gone |-> gone]
<1>3. u \in User /\ by \in User \cup {"admin"} /\ edit[t].version \in Version /\ edit[t].missed \in BOOLEAN
  BY <1>1 DEF Loaded
<1>4. gone \subseteq [scope : Scope, change : Nat]
  <2>1. \A r \in rules[u] : [scope |-> r.scope, change |-> r.change] \in [scope : Scope, change : Nat]
    BY <1>3, RowFacts, Zenon DEF TypeInv
  <2> HIDE DEF u, by, may
  <2>. QED
    BY <2>1, Zenon
<1>5. edit' = [edit EXCEPT ![t] = new]
      /\ UNCHANGED <<role, restricted, rules, version, changes, granted, collided, lost>>
  BY DEF Prepare
<1>6. new \in Prepared
  <2> HIDE DEF gone, u, by
  <2>1. version[u] \in Version /\ restricted[u] \in BOOLEAN /\ expected \in Version \cup {None}
    BY <1>3 DEF TypeInv
  <2>2. (expected # None /\ edit[t].missed) \in BOOLEAN
    BY <1>3
  <2>. QED
    BY <1>2, <1>3, <1>4, <2>1, <2>2 DEF Prepared
<1>7. new.by = by
  <2> HIDE DEF gone, u, by
  <2>. QED
    OBVIOUS
<1> HIDE DEF new
<1>. QED
  BY <1>1, <1>5, <1>6, <1>7, IdleType DEF TypeInv

\* The rows a commit writes, and what SetRole and a revocation make of the rows.
LEMMA InsertedGood ==
  ASSUME NEW e \in Prepared, changes \in Nat, changes < MaxChanges, NEW r \in Inserted(e)
  PROVE  GoodRow(r)
<1>1. PICK x \in e.wanted : r = [scope |-> x.scope, level |-> x.level, change |-> changes + 1]
  BY DEF Inserted
<1>2. e.wanted \subseteq Rule
  BY DEF Prepared
<1>3. x \in [scope : Scope, level : Level] /\ x \in Rule
  BY <1>1, <1>2, Zenon DEF Rule
<1>4. x = [scope |-> x.scope, level |-> x.level] /\ x.scope \in Scope /\ x.level \in Level
  BY <1>3, Zenon
<1>5. changes + 1 \in 1..MaxChanges
  BY AccessAssumption
<1>6. r \in Row /\ r.scope = x.scope /\ r.level = x.level
  BY <1>1, <1>4, <1>5 DEF Row
<1>. QED
  BY <1>3, <1>4, <1>6 DEF GoodRow

LEMMA LevelGood ==
  ASSUME NEW r, GoodRow(r), NEW l \in Level, r.scope.type = "service" => l # "logs"
  PROVE  GoodRow([r EXCEPT !.level = l])
<1>1. r \in [scope : Scope, level : Level, change : 1..MaxChanges]
  BY Zenon DEF GoodRow, Row
<1> DEFINE q == [r EXCEPT !.level = l]
<1>2. q \in [scope : Scope, level : Level, change : 1..MaxChanges]
      /\ q.scope = r.scope /\ q.level = l /\ r.scope \in Scope
  BY <1>1
<1> HIDE DEF q
<1>3. [scope |-> q.scope, level |-> q.level] \in Rule
  BY <1>2 DEF Rule
<1>. QED
  BY <1>2, <1>3, Zenon DEF GoodRow, Row, q

LEMMA LoweredGood ==
  ASSUME NEW s, \A r \in s : GoodRow(r)
  PROVE  /\ \A r \in WithoutManagement(s) : GoodRow(r)
         /\ \A r \in Cleared(s) : GoodRow(r)
<1>1. ASSUME NEW r \in WithoutManagement(s) PROVE GoodRow(r)
  <2>1. PICK x \in s : r = IF x.level = "manage" THEN [x EXCEPT !.level = "operate"] ELSE x
    BY <1>1, Zenon DEF WithoutManagement
  <2>2. GoodRow([x EXCEPT !.level = "operate"])
    BY LevelGood DEF Level
  <2>. QED
    BY <2>1, <2>2
<1>2. ASSUME NEW r \in Cleared(s) PROVE GoodRow(r)
  <2>1. PICK x \in s : r = IF x.level \in {"operate", "manage"}
                           THEN [x EXCEPT !.level = IF x.scope.type = "service" THEN "view" ELSE "logs"]
                           ELSE x
    BY <1>2, Zenon DEF Cleared
  <2>2. GoodRow([x EXCEPT !.level = IF x.scope.type = "service" THEN "view" ELSE "logs"])
    BY LevelGood DEF Level
  <2>. QED
    BY <2>1, <2>2
<1>. QED
  BY <1>1, <1>2

\* The requests, when one of them ends with a change of the rules of u.
LEMMA OvertakenType ==
  ASSUME TypeInv, changes' \in Nat, changes <= changes', NEW t \in Edit, NEW u,
         edit' = Overtaken([edit EXCEPT ![t] = Idle], u)
  PROVE  edit' \in [Edit -> ({Idle} \cup Loaded \cup Prepared \cup Revoking)']
<1> DEFINE rest == [edit EXCEPT ![t] = Idle]
<1>1. rest \in [Edit -> {Idle} \cup Loaded \cup Prepared \cup Revoking]
  BY DEF TypeInv
<1>2. ASSUME NEW x \in Loaded \cup Prepared PROVE [x EXCEPT !.missed = TRUE] \in Loaded \cup Prepared
  <2>1. x \in Loaded => [x EXCEPT !.missed = TRUE] \in Loaded
    BY Zenon DEF Loaded
  <2>2. x \in Prepared => [x EXCEPT !.missed = TRUE] \in Prepared
    BY Zenon DEF Prepared
  <2>. QED
    BY <2>1, <2>2
<1>3. ASSUME NEW x \in Edit
      PROVE  edit'[x] \in {Idle} \cup Loaded \cup Prepared \cup Revoking
  <2>1. edit'[x] = rest[x]
        \/ (rest[x].pc \in {"loaded", "prepared"} /\ edit'[x] = [rest[x] EXCEPT !.missed = TRUE])
    BY SMT DEF Overtaken
  <2>2. rest[x].pc \in {"loaded", "prepared"} => rest[x] \in Loaded \cup Prepared
    BY <1>1, SMT DEF Idle, Revoking
  <2> HIDE DEF rest
  <2>. QED
    BY <1>1, <1>2, <2>1, <2>2
<1>4. edit' = [x \in Edit |-> edit'[x]]
  BY DEF Overtaken
<1>. QED
  BY <1>3, <1>4, EditStays DEF Idle

LEMMA CommitAccessType == ASSUME TypeInv, NEW t \in Edit, CommitAccess(t) PROVE TypeInv'
<1> DEFINE e == edit[t]
           u == edit[t].user
<1>1. e \in Prepared /\ u \in User
  <2>1. e \in Prepared
    BY SMT DEF CommitAccess, TypeInv, Idle, Loaded, Prepared, Revoking
  <2>. QED
    BY <2>1 DEF Prepared
<1>2. changes \in Nat /\ changes < MaxChanges /\ changes' = changes + 1
  BY AccessAssumption DEF CommitAccess, TypeInv
<1>3. changes' \in 0..MaxChanges
  BY <1>2, AccessAssumption
<1>4. version' \in [User -> Version']
  <2>1. version[u] \in 1..(changes + 1) /\ e.version \in 1..(changes + 1)
    BY <1>1 DEF TypeInv, Version, Prepared
  <2>2. version[u] + 1 \in 1..(changes' + 1) /\ e.version + 1 \in 1..(changes' + 1)
    BY <1>2, <2>1
  <2>3. version \in [User -> 1..(changes' + 1)]
    BY <1>2, Nested DEF TypeInv, Version
  <2>. QED
    BY <1>1, <2>2, <2>3 DEF CommitAccess, Version
<1>5. DOMAIN rules' = User /\ \A v \in User : \A r \in rules'[v] : GoodRow(r)
  <2>1. \A r \in Inserted(e) : GoodRow(r)
    BY <1>1, <1>2, InsertedGood
  <2>2. \A r \in rules[u] : GoodRow(r)
    BY <1>1 DEF TypeInv
  <2>3. \A r \in Replaced(u, e) : GoodRow(r)
    BY <2>1, <2>2, Zenon DEF Replaced
  <2>4. rules' = [rules EXCEPT ![u] = Replaced(u, e)]
    BY DEF CommitAccess
  <2> HIDE DEF u, e
  <2>. QED
    BY <1>1, <2>3, <2>4 DEF TypeInv
<1>6. restricted' \in [User -> BOOLEAN]
  BY <1>1, SMT DEF CommitAccess, TypeInv, RestrictedAfter, Prepared
<1>7. edit' \in [Edit -> ({Idle} \cup Loaded \cup Prepared \cup Revoking)']
  <2>1. edit' = Overtaken([edit EXCEPT ![t] = Idle], u)
    BY DEF CommitAccess
  <2>2. changes' \in Nat /\ changes <= changes'
    BY <1>2
  <2> HIDE DEF u
  <2>. QED
    BY <2>1, <2>2, OvertakenType
<1>8. granted' \subseteq Rule
  BY <1>1 DEF CommitAccess, TypeInv, Prepared
<1>9. collided' \subseteq User /\ lost' \subseteq User
  BY <1>1 DEF CommitAccess, TypeInv
<1>10. role' \in [User -> {"admin", "operator", "viewer"}]
  BY DEF CommitAccess, TypeInv
<1>. QED
  BY <1>3, <1>4, <1>5, <1>6, <1>7, <1>8, <1>9, <1>10 DEF TypeInv

LEMMA CommitRevokeType == ASSUME TypeInv, NEW t \in Edit, CommitRevoke(t) PROVE TypeInv'
<1> DEFINE u == edit[t].user
<1>1. edit[t] \in Revoking /\ u \in User
  <2>1. edit[t] \in Revoking
    BY SMT DEF CommitRevoke, TypeInv, Idle, Loaded, Prepared, Revoking
  <2>. QED
    BY <2>1 DEF Revoking
<1>2. changes \in Nat /\ changes < MaxChanges /\ changes' = changes + 1
  BY AccessAssumption DEF CommitRevoke, TypeInv
<1>3. changes' \in 0..MaxChanges
  BY <1>2, AccessAssumption
<1>4. version' \in [User -> Version']
  <2>1. edit[t].version \in 1..(changes + 1)
    BY <1>1 DEF TypeInv, Version, Revoking
  <2>2. edit[t].version + 1 \in 1..(changes' + 1)
    BY <1>2, <2>1
  <2>3. version \in [User -> 1..(changes' + 1)]
    BY <1>2, Nested DEF TypeInv, Version
  <2>. QED
    BY <1>1, <2>2, <2>3 DEF CommitRevoke, Version
<1>5. DOMAIN rules' = User /\ \A v \in User : \A r \in rules'[v] : GoodRow(r)
  <2>1. \A r \in WithoutManagement(rules[u]) : GoodRow(r)
    BY <1>1, LoweredGood DEF TypeInv
  <2>2. rules' = [rules EXCEPT ![u] = WithoutManagement(rules[u])]
    BY DEF CommitRevoke
  <2> HIDE DEF u
  <2>. QED
    BY <1>1, <2>1, <2>2 DEF TypeInv
<1>6. edit' \in [Edit -> ({Idle} \cup Loaded \cup Prepared \cup Revoking)']
  <2>1. edit' = Overtaken([edit EXCEPT ![t] = Idle], u)
    BY DEF CommitRevoke
  <2>2. changes' \in Nat /\ changes <= changes'
    BY <1>2
  <2> HIDE DEF u
  <2>. QED
    BY <2>1, <2>2, OvertakenType
<1>7. collided' \subseteq User
  BY <1>1 DEF CommitRevoke, TypeInv
<1>. QED
  BY <1>3, <1>4, <1>5, <1>6, <1>7 DEF TypeInv, CommitRevoke

LEMMA SetRoleType ==
  ASSUME TypeInv, NEW u \in User, NEW new \in {"admin", "operator", "viewer"}, NEW clear \in BOOLEAN,
         SetRole(u, new, clear)
  PROVE  TypeInv'
<1>1. changes \in Nat /\ changes < MaxChanges /\ changes' = changes + 1
  BY AccessAssumption DEF SetRole, TypeInv
<1>2. changes' \in 0..MaxChanges
  BY <1>1, AccessAssumption
<1>3. version' \in [User -> Version'] /\ edit' \in [Edit -> ({Idle} \cup Loaded \cup Prepared \cup Revoking)']
  BY <1>1, EditStays DEF SetRole, TypeInv, Idle
<1>4. DOMAIN rules' = User /\ \A v \in User : \A r \in rules'[v] : GoodRow(r)
  <2>1. \A r \in rules[u] : GoodRow(r)
    BY DEF TypeInv
  <2>2. \A r \in Cleared(rules[u]) : GoodRow(r)
    BY <2>1, LoweredGood
  <2>3. PICK s : rules' = [rules EXCEPT ![u] = s] /\ s \in {{}, Cleared(rules[u]), rules[u]}
    BY Zenon DEF SetRole
  <2>. QED
    BY <2>1, <2>2, <2>3 DEF TypeInv
<1>5. role' \in [User -> {"admin", "operator", "viewer"}] /\ restricted' \in [User -> BOOLEAN]
  <2>1. role' \in [User -> {"admin", "operator", "viewer"}]
    BY Zenon DEF SetRole, TypeInv
  <2>2. PICK b \in BOOLEAN : restricted' = [restricted EXCEPT ![u] = b]
    BY Zenon DEF SetRole, TypeInv
  <2>. QED
    BY <2>1, <2>2 DEF TypeInv
<1>. QED
  BY <1>2, <1>3, <1>4, <1>5 DEF TypeInv, SetRole

LEMMA TypeNext == ASSUME TypeInv, [Next]_vars PROVE TypeInv'
<1>1. ASSUME NEW t \in Edit, NEW by \in {"admin"} \cup User, NEW u \in User, Load(t, by, u) PROVE TypeInv'
  BY <1>1, LoadType
<1>2. ASSUME NEW t \in Edit, NEW wanted \in {{}} \cup {{r} : r \in Offer}, NEW keeps \in BOOLEAN,
             edit[t].pc = "loaded", NEW expected \in {edit[t].version, None},
             Prepare(t, wanted, keeps, expected)
      PROVE  TypeInv'
  BY <1>2, PrepareType
<1>3. ASSUME NEW t \in Edit, Refuse(t) \/ ConflictingAccess(t) PROVE TypeInv'
  BY <1>3, IdleType DEF Refuse, ConflictingAccess, TypeInv
<1>4. ASSUME NEW t \in Edit, CommitAccess(t) \/ CommitRevoke(t) PROVE TypeInv'
  BY <1>4, CommitAccessType, CommitRevokeType
<1>5. ASSUME NEW t \in Edit, NEW u \in User, BeginRevoke(t, u) PROVE TypeInv'
  <2>1. [pc |-> "revoking", user |-> u, version |-> version[u]] \in Revoking
    BY DEF TypeInv, Revoking
  <2>. QED
    BY <1>5, <2>1, IdleType DEF BeginRevoke, TypeInv
<1>6. ASSUME NEW u \in User, NEW new \in {"admin", "operator", "viewer"}, NEW clear \in BOOLEAN,
             SetRole(u, new, clear)
      PROVE  TypeInv'
  BY <1>6, SetRoleType
<1>7. CASE UNCHANGED vars
  BY <1>7, IdleType DEF vars, TypeInv
<1>. QED
  BY <1>1, <1>2, <1>3, <1>4, <1>5, <1>6, <1>7, Zenon DEF Next

(* The variables keep to their values: versions never run past the number of changes,    *)
(* and every row is a rule an account may have. *)
THEOREM AccessTypeCorrect == Spec => []TypeOK
<1>1. TypeInv /\ [Next]_vars => TypeInv'
  BY TypeNext
<1>. QED
  BY TypeInit, <1>1, TypeInvImplies, PTL DEF Spec

-----------------------------------------------------------------------------
(* Scopes.                                                                 *)

\* The kinds of scopes with their fields.
LEMMA ScopeFacts ==
  ASSUME NEW s \in Scope
  PROVE  \/ s.type = "all"
         \/ s.type = "environment"
         \/ s.type = "node"
         \/ s.type = "project" /\ \E c \in Container : s.node = NodeOf[c] /\ s.project = ProjectOf[c]
         \/ s.type = "container" /\ \E c \in Container : s.node = NodeOf[c] /\ s.container = c
         \/ s.type = "service"
<1>1. CASE s \in [type : {"all"}]
  BY <1>1
<1>2. CASE s \in [type : {"environment"}, environment : {EnvironmentOf[n] : n \in Node}]
  BY <1>2
<1>3. CASE s \in [type : {"node"}, node : Node]
  BY <1>3
<1>4. CASE s \in {[type |-> "project", node |-> NodeOf[c], project |-> ProjectOf[c]] : c \in Container}
  BY <1>4
<1>5. CASE s \in {[type |-> "container", node |-> NodeOf[c], container |-> c] : c \in Container}
  BY <1>5
<1>6. CASE s \in [type : {"service"}, service : Service]
  BY <1>6
<1>. QED
  BY <1>1, <1>2, <1>3, <1>4, <1>5, <1>6, Zenon DEF Scope

\* What each kind of scope allows.
LEMMA MatchFacts ==
  ASSUME NEW s, NEW c
  PROVE  /\ s.type = "all" => RuleMatches(s, c)
         /\ s.type = "environment" => (RuleMatches(s, c) <=> s.environment = EnvironmentOf[NodeOf[c]])
         /\ s.type = "node" => (RuleMatches(s, c) <=> s.node = NodeOf[c])
         /\ s.type = "project" => (RuleMatches(s, c) <=> s.node = NodeOf[c] /\ s.project = ProjectOf[c])
         /\ s.type = "container" => (RuleMatches(s, c) <=> s.container = c)
         /\ s.type = "service" => ~RuleMatches(s, c)
BY Zenon DEF RuleMatches

(* The test of the delegation agrees with the test of the access: a scope that another   *)
(* one contains allows no container which that one does not. *)
LEMMA ContainsSound ==
  ASSUME NEW m \in Scope, NEW s \in Scope, Contains(m, s),
         NEW c \in Container, RuleMatches(s, c)
  PROVE  RuleMatches(m, c)
<1>1. s.type # "service"
  BY MatchFacts
<1>2. s.type = "container" => s.container = c
  BY MatchFacts
<1>3. NodeScoped(s) => s.node = NodeOf[c]
  BY <1>2, ScopeFacts, MatchFacts DEF NodeScoped
<1>4. CASE s = m
  BY <1>4
<1>5. CASE m.type = "all"
  BY <1>5, MatchFacts
<1>6. CASE m.type = "environment" /\ s # m
  <2>1. NodeScoped(s) /\ EnvironmentOf[s.node] = m.environment
    BY <1>6, SMT DEF Contains
  <2>. QED
    BY <1>3, <1>6, <2>1, MatchFacts
<1>7. CASE m.type = "node" /\ s # m
  <2>1. NodeScoped(s) /\ s.node = m.node
    BY <1>7, SMT DEF Contains
  <2>. QED
    BY <1>3, <1>7, <2>1, MatchFacts
<1>8. CASE m.type = "project" /\ s # m
  <2>1. s.type = "container" /\ s.node = m.node /\ ProjectOf[s.container] = m.project
    BY <1>8, SMT DEF Contains
  <2>. QED
    BY <1>2, <1>3, <1>8, <2>1, MatchFacts DEF NodeScoped
<1>9. CASE m.type = "container" /\ s # m
  BY <1>9, SMT DEF Contains
<1>10. CASE m.type = "service"
  BY <1>10, SMT DEF Contains
<1>. QED
  BY ScopeFacts, <1>4, <1>5, <1>6, <1>7, <1>8, <1>9, <1>10, Zenon

\* Whoever may manage a scope may manage every container in it.
LEMMA ManagedScope ==
  ASSUME TypeInv, NEW by \in User, NEW s \in Scope, CanManageScope(by, ManagementRules(by), s)
  PROVE  /\ s.type # "service"
         /\ \A c \in Container : RuleMatches(s, c) =>
              /\ CanAccess(by, c, "manage")
              /\ \E x \in rules[by] : x.level = "manage" /\ RuleMatches(x.scope, c)
<1>0. by # "admin"
  BY AccessAssumption
<1>1. PICK m \in ManagementRules(by) : Contains(m, s) /\ s.type # "service"
  BY <1>0 DEF CanManageScope
<1>2. m \in Scope
  BY ManagementType
<1>3. /\ role[by] = "operator" /\ restricted[by]
      /\ \E x \in rules[by] : x.level = "manage" /\ x.scope = m
  BY Zenon DEF ManagementRules
<1>4. ASSUME NEW c \in Container, RuleMatches(s, c)
      PROVE  /\ CanAccess(by, c, "manage")
             /\ \E x \in rules[by] : x.level = "manage" /\ RuleMatches(x.scope, c)
  <2>1. RuleMatches(m, c)
    BY <1>1, <1>2, <1>4, ContainsSound
  <2>2. PICK x \in rules[by] : x.level = "manage" /\ RuleMatches(x.scope, c)
    BY <1>3, <2>1
  <2>3. PermissionGranted(x, "manage")
    BY <2>2, SMT DEF PermissionGranted, Rank
  <2>. QED
    BY <1>3, <2>2, <2>3, Zenon DEF CanAccess
<1>. QED
  BY <1>1, <1>4

\* The requests after a change of the rules of u, one by one.
LEMMA OvertakenFacts ==
  ASSUME TypeInv, NEW t \in Edit, NEW u, edit' = Overtaken([edit EXCEPT ![t] = Idle], u), NEW x \in Edit
  PROVE  \/ x = t /\ edit'[x] = Idle
         \/ x # t /\ edit'[x] = edit[x]
         \/ /\ x # t /\ edit[x] \in Loaded \cup Prepared
            /\ edit[x].user = u /\ (edit[x].pc = "prepared" => edit[x].expected # None)
            /\ edit'[x] = [edit[x] EXCEPT !.missed = TRUE]
<1> DEFINE rest == [edit EXCEPT ![t] = Idle]
<1>1. edit \in [Edit -> {Idle} \cup Loaded \cup Prepared \cup Revoking]
  BY DEF TypeInv
<1>2. edit'[x] = IF /\ rest[x].pc = "loaded" \/ (rest[x].pc = "prepared" /\ rest[x].expected # None)
                    /\ rest[x].user = u /\ rules'[u] # rules[u]
                 THEN [rest[x] EXCEPT !.missed = TRUE] ELSE rest[x]
  BY Zenon DEF Overtaken
<1>3. x = t => rest[x] = Idle
  BY <1>1
<1>4. x # t => rest[x] = edit[x]
  BY <1>1
<1> HIDE DEF rest
<1>5. CASE x = t
  <2>1. rest[x].pc = "idle"
    BY <1>3, <1>5 DEF Idle
  <2>. QED
    BY <1>2, <1>3, <1>5, <2>1
<1>6. CASE x # t
  <2>1. edit[x].pc \in {"loaded", "prepared"} => edit[x] \in Loaded \cup Prepared
    BY <1>1, SMT DEF Idle, Revoking
  <2>2. edit[x].pc = "loaded" => edit[x].pc # "prepared"
    OBVIOUS
  <2>. QED
    BY <1>2, <1>4, <1>6, <2>1, <2>2, Zenon
<1>. QED
  BY <1>5, <1>6

\* Missing a change alters nothing else of a request.
LEMMA MissedFacts ==
  /\ \A x \in Loaded : LET y == [x EXCEPT !.missed = TRUE] IN
       y.pc = "loaded" /\ y.by = x.by /\ y.user = x.user /\ y.version = x.version /\ y.missed = TRUE
  /\ \A x \in Prepared : LET y == [x EXCEPT !.missed = TRUE] IN
       /\ y.pc = "prepared" /\ y.by = x.by /\ y.user = x.user /\ y.version = x.version /\ y.missed = TRUE
       /\ y.expected = x.expected /\ y.wanted = x.wanted
<1>1. ASSUME NEW x \in Loaded
      PROVE  LET y == [x EXCEPT !.missed = TRUE] IN
               y.pc = "loaded" /\ y.by = x.by /\ y.user = x.user /\ y.version = x.version /\ y.missed = TRUE
  BY SMT DEF Loaded
<1>2. ASSUME NEW x \in Prepared
      PROVE  LET y == [x EXCEPT !.missed = TRUE] IN
               /\ y.pc = "prepared" /\ y.by = x.by /\ y.user = x.user /\ y.version = x.version
               /\ y.missed = TRUE /\ y.expected = x.expected /\ y.wanted = x.wanted
  BY SMT DEF Prepared
<1>. QED
  BY <1>1, <1>2, Zenon

\* Only Prepare makes a request prepared.
LEMMA OnlyPrepare ==
  ASSUME TypeInv, [Next]_vars, NEW t \in Edit, edit[t].pc = "loaded", edit'[t].pc = "prepared"
  PROVE  \E wanted \in {{}} \cup {{r} : r \in Offer}, keeps \in BOOLEAN, expected \in {edit[t].version, None} :
           Prepare(t, wanted, keeps, expected)
<1> USE DEF TypeInv
<1>0. edit \in [Edit -> {Idle} \cup Loaded \cup Prepared \cup Revoking]
  OBVIOUS
<1>1. ASSUME NEW o \in Edit, NEW e, e.pc \in {"idle", "loaded", "revoking"},
             edit' = [edit EXCEPT ![o] = e]
      PROVE  FALSE
  BY <1>0, <1>1
<1>2. ASSUME NEW o \in Edit, NEW by \in {"admin"} \cup User, NEW u \in User, Load(o, by, u)
      PROVE  FALSE
  <2> DEFINE e == [pc |-> "loaded", by |-> by, user |-> u, version |-> version[u], missed |-> FALSE]
  <2>1. edit' = [edit EXCEPT ![o] = e]
    BY <1>2 DEF Load
  <2>2. e.pc = "loaded"
    OBVIOUS
  <2> HIDE DEF e
  <2>. QED
    BY <1>1, <2>1, <2>2
<1>3. ASSUME NEW o \in Edit, Refuse(o) \/ ConflictingAccess(o) PROVE FALSE
  BY <1>1, <1>3 DEF Refuse, ConflictingAccess, Idle
<1>4. ASSUME NEW o \in Edit, CommitAccess(o) \/ CommitRevoke(o) PROVE FALSE
  <2>1. PICK u : edit' = Overtaken([edit EXCEPT ![o] = Idle], u)
    BY <1>4, Zenon DEF CommitAccess, CommitRevoke
  <2>2. edit'[t] = Idle \/ edit'[t] = edit[t]
        \/ (edit[t] \in Loaded \cup Prepared /\ edit'[t] = [edit[t] EXCEPT !.missed = TRUE])
    BY <2>1, OvertakenFacts, Zenon
  <2>3. edit'[t].pc \in {"idle", edit[t].pc}
    <3>1. CASE edit'[t] = Idle
      BY <3>1 DEF Idle
    <3>2. CASE edit[t] \in Loaded \cup Prepared /\ edit'[t] = [edit[t] EXCEPT !.missed = TRUE]
      BY <3>2, MissedFacts DEF Loaded, Prepared
    <3>. QED
      BY <2>2, <3>1, <3>2
  <2>. QED
    BY <2>3
<1>5. ASSUME NEW o \in Edit, NEW u \in User, BeginRevoke(o, u) PROVE FALSE
  <2> DEFINE e == [pc |-> "revoking", user |-> u, version |-> version[u]]
  <2>1. edit' = [edit EXCEPT ![o] = e] /\ e.pc = "revoking"
    BY <1>5 DEF BeginRevoke
  <2> HIDE DEF e
  <2>. QED
    BY <1>1, <2>1
<1>6. ASSUME NEW u \in User, NEW new \in {"admin", "operator", "viewer"}, NEW clear \in BOOLEAN,
             SetRole(u, new, clear)
      PROVE  FALSE
  BY <1>6 DEF SetRole
<1>7. CASE UNCHANGED vars
  BY <1>7 DEF vars
<1>8. ASSUME NEW o \in Edit, NEW wanted \in {{}} \cup {{r} : r \in Offer}, NEW keeps \in BOOLEAN,
             edit[o].pc = "loaded", NEW expected \in {edit[o].version, None},
             Prepare(o, wanted, keeps, expected), o # t
      PROVE  FALSE
  <2>1. PICK e : edit' = [edit EXCEPT ![o] = e]
    BY <1>8 DEF Prepare
  <2>. QED
    BY <1>8, <2>1
<1>. QED
  BY <1>2, <1>3, <1>4, <1>5, <1>6, <1>7, <1>8, Zenon DEF Next

\* What a manager other than an administrator prepares.
LEMMA PreparedByManager ==
  ASSUME TypeInv, NEW t \in Edit, NEW wanted \in {{}} \cup {{r} : r \in Offer}, NEW keeps \in BOOLEAN,
         edit[t].pc = "loaded", NEW expected \in {edit[t].version, None},
         Prepare(t, wanted, keeps, expected), edit[t].by # "admin"
  PROVE  /\ edit[t].by \in User /\ edit[t].user \in User
         /\ edit'[t].wanted = wanted /\ edit'[t].by = edit[t].by
         /\ \A x \in wanted : x.scope \in Scope
                              /\ CanManageScope(edit[t].by, ManagementRules(edit[t].by), x.scope)
         /\ \A r \in edit'[t].gone : r.scope \in Scope
                                     /\ CanManageScope(edit[t].by, ManagementRules(edit[t].by), r.scope)
<1> DEFINE by == edit[t].by
           u == edit[t].user
           may == IF by = "admin" THEN {} ELSE ManagementRules(by)
           gone == {[scope |-> r.scope, change |-> r.change] :
                      r \in {x \in rules[u] : CanManageScope(by, may, x.scope)}}
           new == [pc |-> "prepared", by |-> by, user |-> u, missed |-> expected # None /\ edit[t].missed,
                   expected |-> expected, version |-> version[u], restricted |-> restricted[u],
                   wanted |-> wanted, keeps |-> keeps, gone |-> gone]
<1>1. edit[t] \in Loaded
  BY PrepareType
<1>2. by \in User /\ u \in User
  BY <1>1 DEF Loaded
<1>3. edit' = [edit EXCEPT ![t] = new] /\ \A x \in wanted : CanManageScope(by, may, x.scope)
  BY DEF Prepare
<1>4. may = ManagementRules(by)
  OBVIOUS
<1>5. \A x \in wanted : x.scope \in Scope
  BY AccessAssumption, SMT DEF Rule
<1>6. ASSUME NEW r \in gone PROVE r.scope \in Scope /\ CanManageScope(by, may, r.scope)
  <2> HIDE DEF by, u, may
  <2>1. PICK x \in rules[u] : CanManageScope(by, may, x.scope) /\ r = [scope |-> x.scope, change |-> x.change]
    BY <1>6, Zenon
  <2>2. x.scope \in Scope
    BY <1>2, RowFacts, Zenon DEF TypeInv
  <2>3. r.scope = x.scope
    BY <2>1
  <2>. QED
    BY <2>1, <2>2, <2>3
<1> HIDE DEF gone, may
<1>7. new.gone = gone /\ new.wanted = wanted /\ new.by = by
  OBVIOUS
<1> HIDE DEF new
<1>8. edit'[t] = new
  BY <1>3 DEF TypeInv
<1>. QED
  BY <1>2, <1>3, <1>4, <1>5, <1>6, <1>7, <1>8, Zenon

(* A manager's request touches only what the manager may manage (_prepare_access_change):*)
(* no container outside of it, and no service. *)
THEOREM AccessConfined == Spec => Confined
<1> DEFINE Small == \A t \in Edit : edit[t].pc = "loaded" /\ edit'[t].pc = "prepared" /\ edit[t].by # "admin" =>
                      \A s \in {r.scope : r \in edit'[t].gone \cup edit'[t].wanted} :
                        /\ s.type # "service"
                        /\ \A c \in Container : RuleMatches(s, c) => CanAccess(edit[t].by, c, "manage")
<1>1. TypeInv /\ [Next]_vars => TypeInv'
  BY TypeNext
<1>2. ASSUME TypeInv, [Next]_vars PROVE Small
  <2> SUFFICES ASSUME NEW t \in Edit, edit[t].pc = "loaded", edit'[t].pc = "prepared", edit[t].by # "admin",
                      NEW r \in edit'[t].gone \cup edit'[t].wanted
               PROVE  /\ r.scope.type # "service"
                      /\ \A c \in Container : RuleMatches(r.scope, c) => CanAccess(edit[t].by, c, "manage")
    OBVIOUS
  <2>1. PICK wanted \in {{}} \cup {{q} : q \in Offer}, keeps \in BOOLEAN, expected \in {edit[t].version, None} :
           Prepare(t, wanted, keeps, expected)
    BY <1>2, OnlyPrepare
  <2>2. /\ edit[t].by \in User /\ r.scope \in Scope
        /\ CanManageScope(edit[t].by, ManagementRules(edit[t].by), r.scope)
    BY <1>2, <2>1, PreparedByManager
  <2>. QED
    BY <1>2, <2>2, ManagedScope
<1>. QED
  BY TypeInit, <1>1, <1>2, PTL DEF Spec, Confined

-----------------------------------------------------------------------------
(* Delegation.                                                             *)

\* What an administrator gave covers what the rule r manages, or the service it names.
Backed(r) ==
  /\ r.level = "manage" =>
       \A c \in Container : RuleMatches(r.scope, c) =>
         \E g \in granted : g.level = "manage" /\ RuleMatches(g.scope, c)
  /\ r.scope.type = "service" => \E g \in granted : g.scope = r.scope

\* So it is for every rule in force and for every rule that a manager is about to give.
DelegationInv ==
  /\ \A u \in User : \A r \in rules[u] : Backed(r)
  /\ \A t \in Edit : edit[t].pc = "prepared" /\ edit[t].by # "admin" =>
       \A r \in edit[t].wanted : Backed(r)

LEMMA BackedFacts ==
  /\ \A r, q : r.scope = q.scope /\ (q.level = "manage" => r.level = "manage") /\ Backed(r) => Backed(q)
  /\ granted \subseteq granted' => \A r : Backed(r) => Backed(r)'
<1>1. \A r, q : r.scope = q.scope /\ (q.level = "manage" => r.level = "manage") /\ Backed(r) => Backed(q)
  BY DEF Backed
<1>2. ASSUME granted \subseteq granted', NEW r, Backed(r) PROVE Backed(r)'
  BY <1>2, Zenon DEF Backed, RuleMatches
<1>. QED
  BY <1>1, <1>2

LEMMA GrantedBacked == ASSUME NEW r \in granted PROVE Backed(r)
BY DEF Backed

\* Rules that are lowered stay covered.
LEMMA LoweredBacked ==
  ASSUME NEW s, \A r \in s : GoodRow(r) /\ Backed(r)
  PROVE  /\ \A r \in WithoutManagement(s) : Backed(r)
         /\ \A r \in Cleared(s) : Backed(r)
<1>0. ASSUME NEW x \in s, NEW l, l # "manage" PROVE Backed([x EXCEPT !.level = l])
  <2> DEFINE q == [x EXCEPT !.level = l]
  <2>1. x \in [scope : Scope, level : Level, change : 1..MaxChanges]
    BY Zenon DEF GoodRow, Row
  <2>2. q.scope = x.scope /\ q.level = l
    BY <2>1
  <2> HIDE DEF q
  <2>3. Backed(q)
    BY <1>0, <2>2, BackedFacts
  <2>. QED
    BY <2>3 DEF q
<1>1. ASSUME NEW r \in WithoutManagement(s) PROVE Backed(r)
  <2>1. PICK x \in s : r = IF x.level = "manage" THEN [x EXCEPT !.level = "operate"] ELSE x
    BY <1>1, Zenon DEF WithoutManagement
  <2>2. Backed([x EXCEPT !.level = "operate"])
    BY <1>0
  <2>. QED
    BY <2>1, <2>2
<1>2. ASSUME NEW r \in Cleared(s) PROVE Backed(r)
  <2>1. PICK x \in s : r = IF x.level \in {"operate", "manage"}
                           THEN [x EXCEPT !.level = IF x.scope.type = "service" THEN "view" ELSE "logs"]
                           ELSE x
    BY <1>2, Zenon DEF Cleared
  <2>2. Backed([x EXCEPT !.level = IF x.scope.type = "service" THEN "view" ELSE "logs"])
    BY <1>0
  <2>. QED
    BY <2>1, <2>2
<1>. QED
  BY <1>1, <1>2

\* Nothing happens to requests that an administrator's or a manager's own one does not begin.
LEMMA RequestsStayBacked ==
  ASSUME TypeInv, DelegationInv, NEW t \in Edit, NEW u,
         edit' = Overtaken([edit EXCEPT ![t] = Idle], u), granted \subseteq granted',
         NEW x \in Edit, edit'[x].pc = "prepared", edit'[x].by # "admin", NEW r \in edit'[x].wanted
  PROVE  Backed(r)'
<1>1. edit'[x] # Idle
  BY DEF Idle
<1>2. edit'[x] = edit[x] \/ (edit[x] \in Loaded \cup Prepared /\ edit'[x] = [edit[x] EXCEPT !.missed = TRUE])
  BY <1>1, OvertakenFacts, Zenon
<1>3. edit[x].pc = "prepared" /\ edit[x].by = edit'[x].by /\ edit[x].wanted = edit'[x].wanted
  <2>1. CASE edit[x] \in Loaded /\ edit'[x] = [edit[x] EXCEPT !.missed = TRUE]
    BY <2>1, MissedFacts
  <2>2. CASE edit[x] \in Prepared /\ edit'[x] = [edit[x] EXCEPT !.missed = TRUE]
    BY <2>2, MissedFacts DEF Prepared
  <2>. QED
    BY <1>2, <2>1, <2>2
<1>. QED
  BY <1>3, BackedFacts DEF DelegationInv

LEMMA CommitAccessBacked ==
  ASSUME TypeInv, DelegationInv, NEW t \in Edit, CommitAccess(t) PROVE DelegationInv'
<1> DEFINE e == edit[t]
           u == edit[t].user
<1>1. e \in Prepared /\ u \in User /\ e.pc = "prepared"
  <2>1. e \in Prepared
    BY SMT DEF CommitAccess, TypeInv, Idle, Loaded, Prepared, Revoking
  <2>. QED
    BY <2>1 DEF Prepared
<1>2. /\ granted \subseteq granted'
      /\ e.by = "admin" => e.wanted \subseteq granted'
  BY DEF CommitAccess
<1>3. ASSUME NEW x \in e.wanted PROVE Backed(x)'
  <2>1. CASE e.by = "admin"
    BY <1>2, <1>3, <2>1, Zenon DEF Backed, RuleMatches
  <2>2. CASE e.by # "admin"
    BY <1>1, <1>2, <1>3, <2>2, BackedFacts DEF DelegationInv
  <2>. QED
    BY <2>1, <2>2
<1>4. ASSUME NEW r \in Inserted(e) PROVE Backed(r)'
  <2>1. PICK x \in e.wanted : r = [scope |-> x.scope, level |-> x.level, change |-> changes + 1]
    BY <1>4 DEF Inserted
  <2>2. r.scope = x.scope /\ r.level = x.level
    BY <2>1
  <2>3. Backed(x)'
    BY <1>3, <2>1
  <2>. QED
    BY <2>2, <2>3 DEF Backed
<1>5. ASSUME NEW v \in User, NEW r \in rules'[v] PROVE Backed(r)'
  <2>1. rules' = [rules EXCEPT ![u] = Replaced(u, e)]
    BY DEF CommitAccess
  <2>2. Replaced(u, e) \subseteq rules[u] \cup Inserted(e)
    BY Zenon DEF Replaced
  <2> HIDE DEF u, e
  <2>3. r \in rules[v] \/ r \in Inserted(e)
    BY <1>1, <1>5, <2>1, <2>2 DEF TypeInv
  <2>. QED
    BY <1>2, <1>4, <2>3, BackedFacts DEF DelegationInv
<1>6. edit' = Overtaken([edit EXCEPT ![t] = Idle], u)
  BY DEF CommitAccess
<1> HIDE DEF u, e
<1>7. ASSUME NEW x \in Edit, edit'[x].pc = "prepared", edit'[x].by # "admin", NEW r \in edit'[x].wanted
      PROVE  Backed(r)'
  BY <1>2, <1>6, <1>7, RequestsStayBacked
<1>. QED
  BY <1>5, <1>7, Zenon DEF DelegationInv

LEMMA CommitRevokeBacked ==
  ASSUME TypeInv, DelegationInv, NEW t \in Edit, CommitRevoke(t) PROVE DelegationInv'
<1> DEFINE u == edit[t].user
<1>1. u \in User
  BY SMT DEF CommitRevoke, TypeInv, Idle, Loaded, Prepared, Revoking
<1>2. granted' = granted /\ edit' = Overtaken([edit EXCEPT ![t] = Idle], u)
      /\ rules' = [rules EXCEPT ![u] = WithoutManagement(rules[u])]
  BY DEF CommitRevoke
<1> HIDE DEF u
<1>3. ASSUME NEW v \in User, NEW r \in rules'[v] PROVE Backed(r)'
  <2>1. r \in rules[v] \/ r \in WithoutManagement(rules[u])
    BY <1>1, <1>2, <1>3 DEF TypeInv
  <2>2. Backed(r)
    BY <1>1, <2>1, LoweredBacked DEF TypeInv, DelegationInv
  <2>. QED
    BY <1>2, <2>2, BackedFacts
<1>4. ASSUME NEW x \in Edit, edit'[x].pc = "prepared", edit'[x].by # "admin", NEW r \in edit'[x].wanted
      PROVE  Backed(r)'
  BY <1>2, <1>4, RequestsStayBacked
<1>. QED
  BY <1>3, <1>4, Zenon DEF DelegationInv

LEMMA SetRoleBacked ==
  ASSUME TypeInv, DelegationInv, NEW u \in User, NEW new \in {"admin", "operator", "viewer"},
         NEW clear \in BOOLEAN, SetRole(u, new, clear)
  PROVE  DelegationInv'
<1>1. granted' = granted /\ edit' = edit
  BY DEF SetRole
<1>2. PICK s : rules' = [rules EXCEPT ![u] = s] /\ s \in {{}, Cleared(rules[u]), rules[u]}
  BY Zenon DEF SetRole
<1>3. ASSUME NEW v \in User, NEW r \in rules'[v] PROVE Backed(r)'
  <2>1. r \in rules[v] \/ r \in Cleared(rules[u])
    BY <1>2, <1>3 DEF TypeInv
  <2>2. Backed(r)
    BY <2>1, LoweredBacked DEF TypeInv, DelegationInv
  <2>. QED
    BY <1>1, <2>2, BackedFacts
<1>. QED
  BY <1>1, <1>3, BackedFacts DEF DelegationInv

LEMMA PrepareBacked ==
  ASSUME TypeInv, DelegationInv,
         NEW t \in Edit, NEW wanted \in {{}} \cup {{r} : r \in Offer}, NEW keeps \in BOOLEAN,
         edit[t].pc = "loaded", NEW expected \in {edit[t].version, None}, Prepare(t, wanted, keeps, expected)
  PROVE  DelegationInv'
<1>1. UNCHANGED <<rules, granted>> /\ \E e : edit' = [edit EXCEPT ![t] = e]
  BY DEF Prepare
<1>2. ASSUME edit[t].by # "admin", NEW x \in edit'[t].wanted PROVE Backed(x)
  <2>0. edit'[t].wanted = wanted
    BY <1>2, PreparedByManager
  <2>1. /\ edit[t].by \in User /\ x.scope \in Scope
        /\ CanManageScope(edit[t].by, ManagementRules(edit[t].by), x.scope)
    BY <1>2, <2>0, PreparedByManager
  <2>2. /\ x.scope.type # "service"
        /\ \A c \in Container : RuleMatches(x.scope, c) =>
             \E y \in rules[edit[t].by] : y.level = "manage" /\ RuleMatches(y.scope, c)
    BY <2>1, ManagedScope
  <2>3. \A y \in rules[edit[t].by] : Backed(y)
    BY <2>1 DEF DelegationInv
  <2>. QED
    BY <2>2, <2>3 DEF Backed
<1>4. edit'[t].by = edit[t].by
  BY PrepareType
<1>6. ASSUME NEW x \in Edit, edit'[x].pc = "prepared", edit'[x].by # "admin", NEW r \in edit'[x].wanted
      PROVE  Backed(r)
  <2>1. CASE x = t
    BY <1>2, <1>4, <1>6, <2>1
  <2>2. CASE x # t
    BY <1>1, <1>6, <2>2 DEF DelegationInv, TypeInv
  <2>. QED
    BY <2>1, <2>2
<1>. QED
  BY <1>1, <1>6, BackedFacts DEF DelegationInv

LEMMA DelegationNext == ASSUME TypeInv, DelegationInv, [Next]_vars PROVE DelegationInv'
<1>0. ASSUME \A x \in Edit : edit'[x].pc = "prepared" => edit'[x] = edit[x],
             rules' = rules, granted' = granted
      PROVE  DelegationInv'
  BY <1>0, BackedFacts DEF DelegationInv
<1>1. ASSUME NEW t \in Edit, NEW by \in {"admin"} \cup User, NEW u \in User, Load(t, by, u)
      PROVE  DelegationInv'
  <2> DEFINE e == [pc |-> "loaded", by |-> by, user |-> u, version |-> version[u], missed |-> FALSE]
  <2>1. edit' = [edit EXCEPT ![t] = e] /\ e.pc = "loaded"
    BY <1>1 DEF Load
  <2> HIDE DEF e
  <2>. QED
    BY <1>0, <1>1, <2>1 DEF Load, TypeInv
<1>2. ASSUME NEW t \in Edit, Refuse(t) \/ ConflictingAccess(t) PROVE DelegationInv'
  BY <1>0, <1>2 DEF Refuse, ConflictingAccess, Idle, TypeInv
<1>3. ASSUME NEW t \in Edit, NEW u \in User, BeginRevoke(t, u) PROVE DelegationInv'
  BY <1>0, <1>3 DEF BeginRevoke, TypeInv
<1>4. CASE UNCHANGED vars
  BY <1>4, BackedFacts DEF vars, DelegationInv
<1>. QED
  BY <1>1, <1>2, <1>3, <1>4, PrepareBacked, CommitAccessBacked, CommitRevokeBacked, SetRoleBacked, Zenon
     DEF Next

(* Management cannot grow by passing it on: whatever chain of managers gave a rule, what *)
(* it manages lies within a rule that an administrator gave (_prepare_access_change lets *)
(* a manager give only scopes that one of its own management rules contains). *)
THEOREM AccessDelegationBounded == Spec => []DelegationBounded
<1>1. Init => DelegationInv
  BY DEF Init, DelegationInv, Idle
<1>2. TypeInv /\ DelegationInv /\ [Next]_vars => TypeInv' /\ DelegationInv'
  BY TypeNext, DelegationNext
<1>3. ASSUME TypeInv, DelegationInv PROVE DelegationBounded
  <2> SUFFICES ASSUME NEW u \in User, role[u] # "admin"
               PROVE  /\ \A c \in Container : CanAccess(u, c, "manage") =>
                           \E r \in granted : r.level = "manage" /\ RuleMatches(r.scope, c)
                      /\ \A s \in Service : restricted[u] /\ CanAccessService(u, s, "operate") =>
                           \E r \in granted : r.scope = [type |-> "service", service |-> s]
    BY DEF DelegationBounded
  <2>1. ASSUME NEW c \in Container, CanAccess(u, c, "manage")
        PROVE  \E r \in granted : r.level = "manage" /\ RuleMatches(r.scope, c)
    <3>1. PICK r \in rules[u] : PermissionGranted(r, "manage") /\ RuleMatches(r.scope, c)
      BY <2>1, Zenon DEF CanAccess
    <3>2. r.level \in Level
      BY <1>3, RowFacts, Zenon DEF TypeInv
    <3>3. r.level = "manage"
      BY <3>1, <3>2, SMT DEF PermissionGranted, Rank, Level
    <3>4. Backed(r)
      BY <1>3 DEF DelegationInv
    <3>. QED
      BY <3>1, <3>3, <3>4 DEF Backed
  <2>2. ASSUME NEW s \in Service, restricted[u], CanAccessService(u, s, "operate")
        PROVE  \E r \in granted : r.scope = [type |-> "service", service |-> s]
    <3>1. PICK r \in rules[u] : r.scope = [type |-> "service", service |-> s]
      BY <2>2, Zenon DEF CanAccessService
    <3>2. Backed(r) /\ r.scope.type = "service"
      BY <1>3, <3>1 DEF DelegationInv
    <3>. QED
      BY <3>1, <3>2 DEF Backed
  <2>. QED
    BY <2>1, <2>2
<1>. QED
  BY TypeInit, <1>1, <1>2, <1>3, PTL DEF Spec

-----------------------------------------------------------------------------
(* Lost updates.                                                           *)

\* What a request has read is not newer than what is stored, and older when it missed a
\* change, as long as nobody wrote a version of this account that was not one higher.
Current(e) ==
  e.pc # "idle" /\ e.user \notin collided =>
    /\ e.version <= version[e.user]
    /\ e.pc = "loaded" /\ e.missed => e.version < version[e.user]
    /\ e.pc = "prepared" /\ e.expected # None => e.expected <= version[e.user]
    /\ e.pc = "prepared" /\ e.missed => e.expected # None /\ e.expected < version[e.user]

UpdateInv ==
  /\ lost = {}
  /\ \A t \in Edit : Current(edit[t])

\* A request that knew of the change before it, or missed it, when the version of u rises.
LEMMA RaisedCurrent ==
  ASSUME TypeInv, UpdateInv, NEW t \in Edit, NEW u \in User,
         edit' = Overtaken([edit EXCEPT ![t] = Idle], u),
         NEW n \in Nat, version' = [version EXCEPT ![u] = n],
         collided \subseteq collided', u \notin collided' => n = version[u] + 1,
         NEW x \in Edit
  PROVE  Current(edit[x])'
<1>1. edit[x] \in {Idle} \cup Loaded \cup Prepared \cup Revoking
  BY DEF TypeInv
<1>2. \A v \in User : v \notin collided' =>
        /\ v \notin collided /\ version[v] \in Nat /\ version[v] <= version'[v]
        /\ v = u => version[v] < version'[v]
  BY AccessAssumption DEF TypeInv, Version
<1>3. Current(edit[x])
  BY DEF UpdateInv
<1>4. \A m \in Version : m \in Nat
  BY DEF Version
<1>5. CASE edit'[x] = Idle
  BY <1>5 DEF Current, Idle
<1>6. CASE edit'[x] = edit[x]
  <2>1. CASE edit[x] = Idle
    BY <1>6, <2>1 DEF Current, Idle
  <2>2. CASE edit[x] \in Loaded
    <3>1. edit[x].user \in User /\ edit[x].version \in Nat /\ edit[x].pc = "loaded"
      BY <1>4, <2>2 DEF Loaded
    <3>. QED
      BY <1>2, <1>3, <1>6, <3>1 DEF Current
  <2>3. CASE edit[x] \in Prepared
    <3>1. /\ edit[x].user \in User /\ edit[x].version \in Nat /\ edit[x].pc = "prepared"
          /\ edit[x].expected # None => edit[x].expected \in Nat
      BY <1>4, <2>3 DEF Prepared
    <3>. QED
      BY <1>2, <1>3, <1>6, <3>1 DEF Current
  <2>4. CASE edit[x] \in Revoking
    <3>1. edit[x].user \in User /\ edit[x].version \in Nat /\ edit[x].pc = "revoking"
      BY <1>4, <2>4 DEF Revoking
    <3>. QED
      BY <1>2, <1>3, <1>6, <3>1 DEF Current
  <2>. QED
    BY <1>1, <2>1, <2>2, <2>3, <2>4
<1>7. CASE edit[x] \in Loaded /\ edit[x].user = u /\ edit'[x] = [edit[x] EXCEPT !.missed = TRUE]
  <2>1. edit[x].version \in Nat /\ edit[x].pc = "loaded"
    BY <1>4, <1>7 DEF Loaded
  <2>2. edit'[x].pc = "loaded" /\ edit'[x].user = u /\ edit'[x].version = edit[x].version
    BY <1>7, SMT DEF Loaded
  <2>. QED
    BY <1>2, <1>3, <1>7, <2>1, <2>2 DEF Current
<1>8. CASE edit[x] \in Prepared /\ edit[x].user = u /\ edit[x].expected # None
           /\ edit'[x] = [edit[x] EXCEPT !.missed = TRUE]
  <2>1. edit[x].version \in Nat /\ edit[x].pc = "prepared" /\ edit[x].expected \in Nat
    BY <1>4, <1>8 DEF Prepared
  <2>2. /\ edit'[x].pc = "prepared" /\ edit'[x].user = u /\ edit'[x].version = edit[x].version
        /\ edit'[x].expected = edit[x].expected
    BY <1>8, MissedFacts
  <2>. QED
    BY <1>2, <1>3, <1>8, <2>1, <2>2 DEF Current
<1>9. edit[x] \in Prepared => edit[x].pc = "prepared"
  BY DEF Prepared
<1>. QED
  BY <1>5, <1>6, <1>7, <1>8, <1>9, OvertakenFacts, Zenon

LEMMA CommitAccessCurrent ==
  ASSUME TypeInv, UpdateInv, NEW t \in Edit, CommitAccess(t) PROVE UpdateInv'
<1> DEFINE e == edit[t]
           u == edit[t].user
           n == IF e.expected # None THEN version[u] + 1 ELSE e.version + 1
<1>1. e \in Prepared /\ u \in User /\ e.pc = "prepared"
  <2>1. e \in Prepared
    BY SMT DEF CommitAccess, TypeInv, Idle, Loaded, Prepared, Revoking
  <2>. QED
    BY <2>1 DEF Prepared
<1>2. version[u] \in Nat /\ e.version \in Nat
  BY <1>1 DEF TypeInv, Version, Prepared
<1>3. Current(e) /\ lost = {}
  BY DEF UpdateInv
<1>4. e.expected # None => version[u] = e.expected
  BY DEF CommitAccess, VersionMatches
<1>5. lost' = {}
  BY <1>1, <1>2, <1>3, <1>4 DEF CommitAccess, Current
<1>6. /\ version' = [version EXCEPT ![u] = n]
      /\ edit' = Overtaken([edit EXCEPT ![t] = Idle], u)
      /\ collided' = IF e.expected = None /\ e.version # version[u] THEN collided \cup {u} ELSE collided
  BY DEF CommitAccess
<1>7. n \in Nat /\ collided \subseteq collided' /\ (u \notin collided' => n = version[u] + 1)
  BY <1>2, <1>6
<1> HIDE DEF e, u, n
<1>8. \A x \in Edit : Current(edit[x])'
  BY <1>1, <1>6, <1>7, RaisedCurrent
<1>. QED
  BY <1>5, <1>8, Zenon DEF UpdateInv

LEMMA CommitRevokeCurrent ==
  ASSUME TypeInv, UpdateInv, NEW t \in Edit, CommitRevoke(t) PROVE UpdateInv'
<1> DEFINE u == edit[t].user
           n == edit[t].version + 1
<1>1. u \in User /\ edit[t].version \in Nat
  <2>1. edit[t] \in Revoking
    BY SMT DEF CommitRevoke, TypeInv, Idle, Loaded, Prepared, Revoking
  <2>. QED
    BY <2>1 DEF Revoking, Version
<1>2. /\ version' = [version EXCEPT ![u] = n] /\ lost' = lost
      /\ edit' = Overtaken([edit EXCEPT ![t] = Idle], u)
      /\ collided' = IF edit[t].version # version[u] THEN collided \cup {u} ELSE collided
  BY DEF CommitRevoke
<1>3. n \in Nat /\ collided \subseteq collided' /\ (u \notin collided' => n = version[u] + 1)
  BY <1>1, <1>2
<1> HIDE DEF u, n
<1>4. \A x \in Edit : Current(edit[x])'
  BY <1>1, <1>2, <1>3, RaisedCurrent
<1>. QED
  BY <1>2, <1>4, Zenon DEF UpdateInv

LEMMA PrepareCurrent ==
  ASSUME TypeInv, UpdateInv,
         NEW t \in Edit, NEW wanted \in {{}} \cup {{r} : r \in Offer}, NEW keeps \in BOOLEAN,
         edit[t].pc = "loaded", NEW expected \in {edit[t].version, None}, Prepare(t, wanted, keeps, expected)
  PROVE  UpdateInv'
<1> DEFINE u == edit[t].user
<1>1. edit[t] \in Loaded
  BY PrepareType
<1>2. u \in User /\ edit[t].version \in Nat /\ version[u] \in Nat
  BY <1>1 DEF Loaded, TypeInv, Version
<1>3. expected # None => version[u] = expected /\ expected = edit[t].version
  BY DEF Prepare
<1>4. UNCHANGED <<version, collided, lost>>
  BY DEF Prepare
<1>5. PICK e : /\ edit' = [edit EXCEPT ![t] = e]
               /\ e.pc = "prepared" /\ e.user = u /\ e.version = version[u] /\ e.expected = expected
               /\ e.missed <=> expected # None /\ edit[t].missed
  <2> DEFINE gone == {[scope |-> r.scope, change |-> r.change] :
                        r \in {x \in rules[u] :
                          CanManageScope(edit[t].by, IF edit[t].by = "admin" THEN {}
                                                     ELSE ManagementRules(edit[t].by), x.scope)}}
             new == [pc |-> "prepared", by |-> edit[t].by, user |-> u, missed |-> expected # None /\ edit[t].missed,
                     expected |-> expected, version |-> version[u], restricted |-> restricted[u],
                     wanted |-> wanted, keeps |-> keeps, gone |-> gone]
  <2>1. edit' = [edit EXCEPT ![t] = new]
    BY DEF Prepare
  <2> HIDE DEF gone
  <2>2. /\ new.pc = "prepared" /\ new.user = u /\ new.version = version[u] /\ new.expected = expected
        /\ new.missed <=> expected # None /\ edit[t].missed
    <3>1. new.pc = "prepared" /\ new.user = u /\ new.version = version[u] /\ new.expected = expected
      BY Zenon
    <3>2. new.missed = (expected # None /\ edit[t].missed)
      BY Zenon
    <3>. QED
      BY <3>1, <3>2, Zenon
  <2> HIDE DEF new
  <2>. QED
    BY <2>1, <2>2
<1>6. edit'[t] = e
  BY <1>5 DEF TypeInv
<1>7. Current(edit[t]) /\ lost = {}
  BY DEF UpdateInv
<1>8. Current(e)
  BY <1>2, <1>3, <1>5, <1>7 DEF Current
<1>9. \A x \in Edit : Current(edit'[x])
  BY <1>5, <1>6, <1>8 DEF UpdateInv, TypeInv
<1>. QED
  BY <1>4, <1>7, <1>9 DEF UpdateInv, Current

LEMMA UpdateNext == ASSUME TypeInv, UpdateInv, [Next]_vars PROVE UpdateInv'
<1>0. ASSUME \A x \in Edit : Current(edit'[x]), UNCHANGED <<version, collided, lost>>
      PROVE  UpdateInv'
  BY <1>0 DEF UpdateInv, Current
<1>6. \A x \in Edit : Current(edit[x])
  BY DEF UpdateInv
<1>7. Current(Idle)
  BY DEF Current, Idle
<1>1. ASSUME NEW t \in Edit, NEW by \in {"admin"} \cup User, NEW u \in User, Load(t, by, u)
      PROVE  UpdateInv'
  <2> DEFINE e == [pc |-> "loaded", by |-> by, user |-> u, version |-> version[u], missed |-> FALSE]
  <2>1. edit' = [edit EXCEPT ![t] = e] /\ UNCHANGED <<version, collided, lost>>
    BY <1>1 DEF Load
  <2>2. Current(e)
    BY DEF Current, TypeInv, Version
  <2> HIDE DEF e
  <2>. QED
    BY <1>0, <1>6, <2>1, <2>2 DEF TypeInv
<1>2. ASSUME NEW t \in Edit, Refuse(t) \/ ConflictingAccess(t) PROVE UpdateInv'
  BY <1>0, <1>6, <1>7, <1>2 DEF Refuse, ConflictingAccess, TypeInv
<1>3. ASSUME NEW t \in Edit, NEW u \in User, BeginRevoke(t, u) PROVE UpdateInv'
  <2> DEFINE e == [pc |-> "revoking", user |-> u, version |-> version[u]]
  <2>1. edit' = [edit EXCEPT ![t] = e] /\ UNCHANGED <<version, collided, lost>>
    BY <1>3 DEF BeginRevoke
  <2>2. Current(e)
    BY DEF Current, TypeInv, Version
  <2> HIDE DEF e
  <2>. QED
    BY <1>0, <1>6, <2>1, <2>2 DEF TypeInv
<1>4. ASSUME NEW u \in User, NEW new \in {"admin", "operator", "viewer"}, NEW clear \in BOOLEAN,
             SetRole(u, new, clear)
      PROVE  UpdateInv'
  BY <1>0, <1>6, <1>4 DEF SetRole
<1>5. CASE UNCHANGED vars
  BY <1>0, <1>6, <1>5 DEF vars
<1>. QED
  BY <1>1, <1>2, <1>3, <1>4, <1>5, PrepareCurrent, CommitAccessCurrent, CommitRevokeCurrent, Zenon
     DEF Next

(* An update that names the version it has seen (expected_access_version) never replaces *)
(* rules that its author has not seen, unless a request without a version, or a          *)
(* revocation, wrote a version that it had read before another change. *)
THEOREM AccessNoLostUpdate == Spec => []NoLostUpdate
<1>1. Init => UpdateInv
  BY DEF Init, UpdateInv, Current, Idle
<1>2. TypeInv /\ UpdateInv /\ [Next]_vars => TypeInv' /\ UpdateInv'
  BY TypeNext, UpdateNext
<1>3. UpdateInv => NoLostUpdate
  BY DEF UpdateInv, NoLostUpdate
<1>. QED
  BY TypeInit, <1>1, <1>2, <1>3, PTL DEF Spec
=============================================================================
