------------------------ MODULE ConfigurationTheorems ------------------------
(***************************************************************************)
(* Theorems about the configuration, for any number of bots, destinations, *)
(* routes, services, workloads, administrators, publishers and backups.    *)
(***************************************************************************)
EXTENDS ConfigurationBackup, FiniteSetTheorems, SequenceTheorems, WellFoundedInduction, TLAPS

(* The types *)

\* A table: rows of V under some of the keys K.
Table(K, V) == UNION {[S -> V] : S \in SUBSET K}

AccountRows == [rev : Nat \ {0}, token : Tokens]
DestRows == [account : AccountNames, chat : Chats, active : BOOLEAN, rev : Nat \ {0}]
RouteRows == [account : AccountNames, dest : Dests, inbound : BOOLEAN, enabled : BOOLEAN,
              rev : Nat \ {0}]
SubRows == [dest : Dests, active : BOOLEAN]
WorkloadRows == [rev : Nat \ {0}, active : BOOLEAN, publish : BOOLEAN,
                 grants : SUBSET RouteKeys, credentials : Nat]

Accounts == [Bots -> Seq(AccountRows)]
Subs == [Services -> Seq(SubRows)]
Confs == [token : Table(Bots, Tokens), accounts : Accounts,
          dests : Table(Dests, DestRows), routes : Table(RouteKeys, RouteRows),
          services : Table(Services, Nat), subs : Subs,
          workloads : Table(Workloads, WorkloadRows)]

------------------------------------------------------------------------------
(* What the tables say of each other.  D are the bots that were deleted. *)

Ids(accounts) == UNION {{<<b, n>> : n \in DOMAIN accounts[b]} : b \in Bots}

\* An account that exists, or one of a bot that was deleted.
Named(accounts, D, a) == a \in Ids(accounts) \/ a[1] \in D

\* A bot has accounts only while it exists, all with its token.
Mirrored(token, accounts, D) ==
  /\ DOMAIN token \cap D = {}
  /\ \A b \in Bots : \A n \in DOMAIN accounts[b] :
       b \in DOMAIN token /\ accounts[b][n].token = token[b]

DestsLinked(accounts, dests, D) ==
  \A d \in DOMAIN dests : Named(accounts, D, dests[d].account)
RoutesLinked(accounts, dests, routes, D) ==
  \A k \in DOMAIN routes : Named(accounts, D, routes[k].account) /\ routes[k].dest \in DOMAIN dests
SubsLinked(dests, services, subs) ==
  \A s \in Services : \A i \in DOMAIN subs[s] :
    subs[s][i].dest \in DOMAIN dests /\ s \in DOMAIN services
GrantsLinked(routes, workloads) ==
  \A w \in DOMAIN workloads : workloads[w].grants \subseteq DOMAIN routes

\* No service reaches one chat through one bot twice.
ChatsOnce(c) == \A s \in Services : Distinct(Recipients(c, s))

Sound(c, D) ==
  /\ c \in Confs
  /\ Mirrored(c.token, c.accounts, D)
  /\ DestsLinked(c.accounts, c.dests, D)
  /\ RoutesLinked(c.accounts, c.dests, c.routes, D)
  /\ SubsLinked(c.dests, c.services, c.subs)
  /\ GrantsLinked(c.routes, c.workloads)
  /\ ChatsOnce(c)

------------------------------------------------------------------------------
(* The history, the migrations, the notifications and the editors. *)

Explained(routes, h) ==
  /\ h \in [RouteKeys -> Seq(RouteContents)]
  /\ \A k \in RouteKeys \ DOMAIN routes : Len(h[k]) = 0
  /\ \A k \in DOMAIN routes : Len(h[k]) = routes[k].rev /\ Last(h[k]) = Content(routes[k])

Rebound(dests, routes, u) ==
  \A k \in DOMAIN routes \ u : dests[routes[k].dest].account = routes[k].account

Pinned(services, n) == \A x \in DOMAIN n :
  /\ n[x].service \in DOMAIN services
  /\ Distinct(n[x].recipients)
  /\ n[x].count = Cardinality(n[x].recipients)

\* What an administrator can have open, and what it then says.
Objects == ({"account"} \X AccountNames) \cup ({"dest", "newDest"} \X Dests)
  \cup ({"route", "newRoute"} \X RouteKeys) \cup ({"service"} \X Services)
  \cup ({"workload"} \X Workloads)

Present(c, o) ==
  /\ o[1] = "account" => o[2] \in AccountIds(c)
  /\ o[1] = "dest" => o[2] \in DOMAIN c.dests
  /\ o[1] = "route" => o[2] \in DOMAIN c.routes
  /\ o[1] = "service" => o[2] \in DOMAIN c.services
  /\ o[1] = "workload" => o[2] \in DOMAIN c.workloads

Drafted(c, D, o, draft) ==
  /\ o[1] \in {"dest", "newDest"} =>
       draft \in [account : AccountNames, chat : Chats] /\ Named(c.accounts, D, draft.account)
  /\ o[1] \in {"route", "newRoute"} =>
       /\ draft \in RouteContents
       /\ Named(c.accounts, D, draft.account) /\ draft.dest \in DOMAIN c.dests

\* An object is there under its editor unless its bot was deleted; its revision
\* is not below the one that was seen, and the same only if the object is.
Watched(c, D, x) ==
  /\ x.object \in Objects /\ x.rev \in Nat
  /\ Drafted(c, D, x.object, x.draft)
  /\ Present(c, x.object) \/ (x.object[1] = "account" /\ x.object[2][1] \in D)
  /\ x.object[1] \in {"newDest", "newRoute"} => x.rev = 0
  /\ (x.rev # 0 /\ Present(c, x.object)) =>
       /\ x.rev <= RevisionOf(c, x.object)
       /\ x.rev = RevisionOf(c, x.object) => Row(c, x.object) = x.seen

Watching(c, D, ed) ==
  /\ ed = [e \in Editors |-> ed[e]]
  /\ \A e \in Editors :
       \/ ed[e] = Idle
       \/ /\ ed[e] = Opened(ed[e].object, ed[e].rev, ed[e].seen, ed[e].draft)
          /\ Watched(c, D, ed[e])

ConfigInv ==
  /\ Sound(conf, deleted)
  /\ Explained(conf.routes, history)
  /\ Rebound(conf.dests, conf.routes, unchecked)
  /\ Pinned(conf.services, notes)
  /\ Watching(conf, deleted, editor)
  /\ requests \in 0 .. MaxRequests

------------------------------------------------------------------------------
(* Tables and accounts *)

\* A table is a function on some of its keys.
LEMMA InTable ==
  ASSUME NEW K, NEW V, NEW t
  PROVE  t \in Table(K, V) <=> t \in [DOMAIN t -> V] /\ DOMAIN t \subseteq K
<1>1. ASSUME t \in Table(K, V) PROVE t \in [DOMAIN t -> V] /\ DOMAIN t \subseteq K
  <2>1. PICK S \in SUBSET K : t \in [S -> V]
    BY <1>1 DEF Table
  <2> QED BY <2>1
<1>2. ASSUME t \in [DOMAIN t -> V], DOMAIN t \subseteq K PROVE t \in Table(K, V)
  <2>1. DOMAIN t \in SUBSET K
    BY <1>2
  <2> QED BY <1>2, <2>1, Zenon DEF Table
<1> QED BY <1>1, <1>2

\* A row that is added or replaced leaves a table.
LEMMA WithIn ==
  ASSUME NEW K, NEW V, NEW t \in Table(K, V), NEW k \in K, NEW v \in V
  PROVE  With(t, k, v) \in Table(K, V)
<1> DEFINE w == With(t, k, v)
<1>1. t \in [DOMAIN t -> V] /\ DOMAIN t \subseteq K
  BY InTable
<1>2. w \in [DOMAIN w -> V]
  BY <1>1 DEF With
<1>3. DOMAIN w \subseteq K
  BY <1>1 DEF With
<1> HIDE DEF w
<1>4. w \in Table(K, V)
  BY <1>2, <1>3, InTable
<1> QED BY <1>4 DEF w

\* What is known of a configuration.
LEMMA ConfFields ==
  ASSUME NEW c \in Confs
  PROVE  /\ c.token \in [DOMAIN c.token -> Tokens] /\ DOMAIN c.token \subseteq Bots
         /\ c.accounts \in Accounts
         /\ c.dests \in [DOMAIN c.dests -> DestRows] /\ DOMAIN c.dests \subseteq Dests
         /\ c.routes \in [DOMAIN c.routes -> RouteRows] /\ DOMAIN c.routes \subseteq RouteKeys
         /\ c.services \in [DOMAIN c.services -> Nat] /\ DOMAIN c.services \subseteq Services
         /\ c.subs \in Subs
         /\ c.workloads \in [DOMAIN c.workloads -> WorkloadRows]
         /\ DOMAIN c.workloads \subseteq Workloads
<1>1. /\ c.token \in Table(Bots, Tokens) /\ c.accounts \in Accounts
      /\ c.dests \in Table(Dests, DestRows) /\ c.routes \in Table(RouteKeys, RouteRows)
      /\ c.services \in Table(Services, Nat) /\ c.subs \in Subs
      /\ c.workloads \in Table(Workloads, WorkloadRows)
  BY DEF Confs
<1> QED BY <1>1, InTable

\* An id names a row of the accounts ...
LEMMA InIds ==
  ASSUME NEW accounts \in Accounts, NEW a
  PROVE  /\ a \in Ids(accounts) => /\ a = <<a[1], a[2]>> /\ a \in AccountNames
                                   /\ a[1] \in Bots /\ a[2] \in DOMAIN accounts[a[1]]
         /\ a \in AccountNames /\ a[2] \in DOMAIN accounts[a[1]] => a \in Ids(accounts)
<1>1. ASSUME a \in Ids(accounts)
      PROVE  /\ a = <<a[1], a[2]>> /\ a \in AccountNames
             /\ a[1] \in Bots /\ a[2] \in DOMAIN accounts[a[1]]
  <2>1. PICK b \in Bots : \E n \in DOMAIN accounts[b] : a = <<b, n>>
    BY <1>1 DEF Ids
  <2>2. PICK n \in DOMAIN accounts[b] : a = <<b, n>>
    BY <2>1
  <2>3. accounts[b] \in Seq(AccountRows)
    BY DEF Accounts
  <2>4. n \in Nat \ {0}
    BY <2>3
  <2> QED BY <2>2, <2>4 DEF AccountNames
<1>2. ASSUME a \in AccountNames, a[2] \in DOMAIN accounts[a[1]]
      PROVE  a \in Ids(accounts)
  <2>1. a[1] \in Bots /\ a = <<a[1], a[2]>>
    BY <1>2 DEF AccountNames
  <2>2. a \in {<<a[1], n>> : n \in DOMAIN accounts[a[1]]}
    BY <1>2, <2>1
  <2> QED BY <2>1, <2>2 DEF Ids
<1> QED BY <1>1, <1>2

\* The account of a configuration, and its row.
LEMMA IdsOf == ASSUME NEW c PROVE AccountIds(c) = Ids(c.accounts)
  BY DEF AccountIds, Ids

\* ... and the row is one.
LEMMA AccountRow ==
  ASSUME NEW accounts \in Accounts, NEW a \in Ids(accounts)
  PROVE  accounts[a[1]][a[2]] \in AccountRows
<1>1. a[1] \in Bots /\ a[2] \in DOMAIN accounts[a[1]]
  BY InIds
<1>2. accounts[a[1]] \in Seq(AccountRows)
  BY <1>1 DEF Accounts
<1> QED BY <1>1, <1>2

------------------------------------------------------------------------------
(* What a transaction may do to the tables: an object keeps its row or gets a *)
(* higher revision, the routes ks get the next one, and accounts go only with  *)
(* their bot.                                                                  *)

AccountsAdvance(accounts, accounts2, D) ==
  \A a \in Ids(accounts) :
    \/ a[1] \in D
    \/ /\ a \in Ids(accounts2)
       /\ \/ accounts2[a[1]][a[2]].rev > accounts[a[1]][a[2]].rev
          \/ accounts2[a[1]][a[2]] = accounts[a[1]][a[2]]

RowsAdvance(t, t2) ==
  \A x \in DOMAIN t : x \in DOMAIN t2 /\ (t2[x].rev > t[x].rev \/ t2[x] = t[x])

TokensOf(accounts, a) == {accounts[x[1]][x[2]].token : x \in Ids(accounts) \cap {a}}
RoutesAdvance(accounts, routes, accounts2, routes2) ==
  \A k \in DOMAIN routes :
    /\ k \in DOMAIN routes2
    /\ \/ routes2[k].rev > routes[k].rev
       \/ /\ routes2[k] = routes[k]
          /\ TokensOf(accounts2, routes[k].account) = TokensOf(accounts, routes[k].account)

ServicesAdvance(services, subs, services2, subs2) ==
  \A s \in DOMAIN services :
    /\ s \in DOMAIN services2
    /\ services2[s] > services[s] \/ (services2[s] = services[s] /\ subs2[s] = subs[s])

Advances(c, d, D) ==
  /\ AccountsAdvance(c.accounts, d.accounts, D)
  /\ RowsAdvance(c.dests, d.dests)
  /\ RoutesAdvance(c.accounts, c.routes, d.accounts, d.routes)
  /\ ServicesAdvance(c.services, c.subs, d.services, d.subs)
  /\ RowsAdvance(c.workloads, d.workloads)

RouteSteps(routes, routes2, ks) ==
  /\ ks \subseteq DOMAIN routes2 /\ DOMAIN routes2 = DOMAIN routes \cup ks
  /\ \A k \in DOMAIN routes2 \ ks : routes2[k] = routes[k]
  /\ \A k \in ks : routes2[k].rev = IF k \in DOMAIN routes THEN routes[k].rev + 1 ELSE 1

Moves(c, D, d, D2, ks) ==
  /\ D \subseteq D2 /\ Sound(d, D2)
  /\ RouteSteps(c.routes, d.routes, ks)
  /\ Advances(c, d, D2)

\* What is left alone advances.
LEMMA Still ==
  /\ \A accounts, D : AccountsAdvance(accounts, accounts, D)
  /\ \A t : RowsAdvance(t, t)
  /\ \A accounts, routes : RoutesAdvance(accounts, routes, accounts, routes)
  /\ \A services, subs : ServicesAdvance(services, subs, services, subs)
  /\ \A routes : RouteSteps(routes, routes, {})
BY DEF AccountsAdvance, RowsAdvance, RoutesAdvance, ServicesAdvance, RouteSteps

\* Two changes, of which only the second gives routes a revision, are one.
LEMMA MovesOn ==
  ASSUME NEW D, NEW ks, NEW c, NEW d, NEW x, Sound(c, D),
         Moves(c, D, d, D, {}), Moves(d, D, x, D, ks)
  PROVE  Moves(c, D, x, D, ks)
<1>1. /\ c \in Confs /\ d \in Confs /\ x \in Confs
      /\ d.routes \in [DOMAIN c.routes -> RouteRows] /\ \A k \in DOMAIN c.routes : d.routes[k] = c.routes[k]
  <2>1. c \in Confs /\ d \in Confs /\ x \in Confs
    BY DEF Moves, Sound
  <2> QED BY <2>1, ConfFields DEF Moves, RouteSteps
<1>2. DOMAIN d.routes = DOMAIN c.routes /\ RouteSteps(c.routes, x.routes, ks)
  <2>1. RouteSteps(d.routes, x.routes, ks) /\ RouteSteps(c.routes, d.routes, {})
    BY DEF Moves
  <2> QED BY <2>1 DEF RouteSteps
<1>3. Advances(c, d, D) /\ Advances(d, x, D)
  BY DEF Moves
<1>4. AccountsAdvance(c.accounts, x.accounts, D)
  <2> SUFFICES ASSUME NEW a \in Ids(c.accounts), a[1] \notin D
               PROVE  /\ a \in Ids(x.accounts)
                      /\ \/ x.accounts[a[1]][a[2]].rev > c.accounts[a[1]][a[2]].rev
                         \/ x.accounts[a[1]][a[2]] = c.accounts[a[1]][a[2]]
    BY DEF AccountsAdvance
  <2>1. c.accounts \in Accounts /\ d.accounts \in Accounts /\ x.accounts \in Accounts
    BY <1>1, ConfFields
  <2>2. a \in Ids(d.accounts) /\ a \in Ids(x.accounts)
    BY <1>3 DEF Advances, AccountsAdvance
  <2>3. /\ c.accounts[a[1]][a[2]].rev \in Nat /\ d.accounts[a[1]][a[2]].rev \in Nat
        /\ x.accounts[a[1]][a[2]].rev \in Nat
    BY <2>1, <2>2, AccountRow DEF AccountRows
  <2>4. \/ d.accounts[a[1]][a[2]].rev > c.accounts[a[1]][a[2]].rev
        \/ d.accounts[a[1]][a[2]] = c.accounts[a[1]][a[2]]
    BY <1>3 DEF Advances, AccountsAdvance
  <2>5. \/ x.accounts[a[1]][a[2]].rev > d.accounts[a[1]][a[2]].rev
        \/ x.accounts[a[1]][a[2]] = d.accounts[a[1]][a[2]]
    BY <1>3, <2>2 DEF Advances, AccountsAdvance
  <2> QED BY <2>2, <2>3, <2>4, <2>5
<1>5. RowsAdvance(c.dests, x.dests)
  <2> SUFFICES ASSUME NEW n \in DOMAIN c.dests
               PROVE  n \in DOMAIN x.dests /\ (x.dests[n].rev > c.dests[n].rev \/ x.dests[n] = c.dests[n])
    BY DEF RowsAdvance
  <2>1. n \in DOMAIN d.dests /\ (d.dests[n].rev > c.dests[n].rev \/ d.dests[n] = c.dests[n])
    BY <1>3 DEF Advances, RowsAdvance
  <2>2. n \in DOMAIN x.dests /\ (x.dests[n].rev > d.dests[n].rev \/ x.dests[n] = d.dests[n])
    BY <1>3, <2>1 DEF Advances, RowsAdvance
  <2>3. c.dests[n].rev \in Nat /\ d.dests[n].rev \in Nat /\ x.dests[n].rev \in Nat
    BY <1>1, <2>1, <2>2, ConfFields DEF DestRows
  <2> QED BY <2>1, <2>2, <2>3
<1>6. RowsAdvance(c.workloads, x.workloads)
  <2> SUFFICES ASSUME NEW n \in DOMAIN c.workloads
               PROVE  /\ n \in DOMAIN x.workloads
                      /\ x.workloads[n].rev > c.workloads[n].rev \/ x.workloads[n] = c.workloads[n]
    BY DEF RowsAdvance
  <2>1. /\ n \in DOMAIN d.workloads
        /\ d.workloads[n].rev > c.workloads[n].rev \/ d.workloads[n] = c.workloads[n]
    BY <1>3 DEF Advances, RowsAdvance
  <2>2. /\ n \in DOMAIN x.workloads
        /\ x.workloads[n].rev > d.workloads[n].rev \/ x.workloads[n] = d.workloads[n]
    BY <1>3, <2>1 DEF Advances, RowsAdvance
  <2>3. c.workloads[n].rev \in Nat /\ d.workloads[n].rev \in Nat /\ x.workloads[n].rev \in Nat
    BY <1>1, <2>1, <2>2, ConfFields DEF WorkloadRows
  <2> QED BY <2>1, <2>2, <2>3
<1>7. RoutesAdvance(c.accounts, c.routes, x.accounts, x.routes)
  <2> SUFFICES ASSUME NEW k \in DOMAIN c.routes
               PROVE  /\ k \in DOMAIN x.routes
                      /\ \/ x.routes[k].rev > c.routes[k].rev
                         \/ /\ x.routes[k] = c.routes[k]
                            /\ TokensOf(x.accounts, c.routes[k].account) = TokensOf(c.accounts, c.routes[k].account)
    BY DEF RoutesAdvance
  <2>1. d.routes[k] = c.routes[k] /\ k \in DOMAIN d.routes /\ c.routes[k].rev \in Nat
    BY <1>1, <1>2, ConfFields DEF RouteRows
  <2>2. TokensOf(d.accounts, c.routes[k].account) = TokensOf(c.accounts, c.routes[k].account)
    BY <1>3, <2>1 DEF Advances, RoutesAdvance
  <2>3. /\ k \in DOMAIN x.routes
        /\ \/ x.routes[k].rev > c.routes[k].rev
           \/ /\ x.routes[k] = c.routes[k]
              /\ TokensOf(x.accounts, c.routes[k].account) = TokensOf(d.accounts, c.routes[k].account)
    BY <1>3, <2>1 DEF Advances, RoutesAdvance
  <2> QED BY <2>2, <2>3
<1>8. ServicesAdvance(c.services, c.subs, x.services, x.subs)
  <2> SUFFICES ASSUME NEW s \in DOMAIN c.services
               PROVE  /\ s \in DOMAIN x.services
                      /\ \/ x.services[s] > c.services[s]
                         \/ x.services[s] = c.services[s] /\ x.subs[s] = c.subs[s]
    BY DEF ServicesAdvance
  <2>1. /\ s \in DOMAIN d.services
        /\ d.services[s] > c.services[s] \/ (d.services[s] = c.services[s] /\ d.subs[s] = c.subs[s])
    BY <1>3 DEF Advances, ServicesAdvance
  <2>2. /\ s \in DOMAIN x.services
        /\ x.services[s] > d.services[s] \/ (x.services[s] = d.services[s] /\ x.subs[s] = d.subs[s])
    BY <1>3, <2>1 DEF Advances, ServicesAdvance
  <2>3. c.services[s] \in Nat /\ d.services[s] \in Nat /\ x.services[s] \in Nat
    BY <1>1, <2>1, <2>2, ConfFields
  <2> QED BY <2>1, <2>2, <2>3
<1> QED BY <1>2, <1>4, <1>5, <1>6, <1>7, <1>8 DEF Moves, Advances

------------------------------------------------------------------------------
(* Recipients *)

\* Where the subscription i of a service leads.
Goes(c, s, i) == c.dests[c.subs[s][i].dest]

\* A service that gets no new recipient reaches no chat more often.
LEMMA Fewer ==
  ASSUME NEW c, NEW d, NEW s,
         Distinct(Recipients(c, s)),
         \A i \in ActiveSubs(d, s) : Goes(d, s, i).account \in AccountIds(d) =>
           /\ i \in ActiveSubs(c, s) /\ Goes(c, s, i).account \in AccountIds(c)
           /\ Goes(d, s, i).account = Goes(c, s, i).account
           /\ Goes(d, s, i).chat = Goes(c, s, i).chat
           /\ TokenOf(d, Goes(d, s, i).account) = TokenOf(c, Goes(c, s, i).account)
  PROVE  Distinct(Recipients(d, s))
<1>1. ASSUME NEW r \in Recipients(d, s) PROVE r \in Recipients(c, s)
  <2>1. PICK i \in {j \in ActiveSubs(d, s) : Goes(d, s, j).account \in AccountIds(d)} :
          r = [sub |-> i, account |-> Goes(d, s, i).account,
               bot |-> IdentityOf[TokenOf(d, Goes(d, s, i).account)], chat |-> Goes(d, s, i).chat]
    BY <1>1, Zenon DEF Recipients, Goes
  <2>2. /\ i \in {j \in ActiveSubs(c, s) : Goes(c, s, j).account \in AccountIds(c)}
        /\ r = [sub |-> i, account |-> Goes(c, s, i).account,
                bot |-> IdentityOf[TokenOf(c, Goes(c, s, i).account)], chat |-> Goes(c, s, i).chat]
    BY <2>1
  <2> QED BY <2>2, Zenon DEF Recipients, Goes
<1> QED BY <1>1 DEF Distinct

\* So do all when neither subscriptions nor destinations change, nor accounts
\* but those of bots without a destination that is subscribed.
LEMMA ChatsKept ==
  ASSUME NEW c, NEW d, NEW D, Sound(c, D), d \in Confs, d.subs = c.subs,
         \A n \in DOMAIN c.dests : d.dests[n] = c.dests[n],
         \A n \in DOMAIN c.dests : c.dests[n].account \in Ids(d.accounts) =>
           /\ c.dests[n].account \in Ids(c.accounts)
           /\ TokenOf(d, c.dests[n].account) = TokenOf(c, c.dests[n].account)
  PROVE  ChatsOnce(d)
<1> SUFFICES ASSUME NEW s \in Services PROVE Distinct(Recipients(d, s))
  BY DEF ChatsOnce
<1>1. Distinct(Recipients(c, s))
  BY DEF Sound, ChatsOnce
<1>2. ASSUME NEW i \in ActiveSubs(d, s), Goes(d, s, i).account \in AccountIds(d)
      PROVE  /\ i \in ActiveSubs(c, s) /\ Goes(c, s, i).account \in AccountIds(c)
             /\ Goes(d, s, i).account = Goes(c, s, i).account
             /\ Goes(d, s, i).chat = Goes(c, s, i).chat
             /\ TokenOf(d, Goes(d, s, i).account) = TokenOf(c, Goes(c, s, i).account)
  <2>1. ActiveSubs(d, s) = ActiveSubs(c, s)
    BY DEF ActiveSubs
  <2>2. i \in DOMAIN c.subs[s]
    BY <1>2, <2>1 DEF ActiveSubs
  <2>3. c.subs[s][i].dest \in DOMAIN c.dests
    BY <2>2 DEF Sound, SubsLinked
  <2>4. Goes(d, s, i) = Goes(c, s, i)
    BY <2>3 DEF Goes
  <2>5. Goes(c, s, i).account \in Ids(d.accounts)
    BY <1>2, <2>4, IdsOf
  <2>6. /\ Goes(c, s, i).account \in Ids(c.accounts)
        /\ TokenOf(d, Goes(c, s, i).account) = TokenOf(c, Goes(c, s, i).account)
    BY <2>3, <2>5 DEF Goes
  <2> QED BY <1>2, <2>1, <2>4, <2>6, IdsOf
<1> QED BY <1>1, <1>2, Fewer

------------------------------------------------------------------------------
(* What is open stays true *)

\* What an editor has seen stays as recent as it was when other keys advance.
LEMMA WatchedKept ==
  ASSUME NEW c, NEW d, NEW D, NEW D2, NEW x, Sound(c, D), Sound(d, D2), D \subseteq D2,
         Advances(c, d, D2), Watched(c, D, x)
  PROVE  Watched(d, D2, x)
<1> DEFINE o == x.object
<1>0. /\ c \in Confs /\ d \in Confs /\ o \in Objects /\ x.rev \in Nat
  BY DEF Sound, Watched
<1>1. \A a : Named(c.accounts, D, a) => Named(d.accounts, D2, a)
  BY DEF Named, Advances, AccountsAdvance
<1>2. DOMAIN c.dests \subseteq DOMAIN d.dests
  BY DEF Advances, RowsAdvance
<1>3. Drafted(d, D2, o, x.draft)
  <2>1. Drafted(c, D, o, x.draft)
    BY DEF Watched
  <2> QED BY <1>1, <1>2, <2>1 DEF Drafted
<1>4. Present(d, o) \/ (o[1] = "account" /\ o[2][1] \in D2)
  <2>1. Present(c, o) \/ (o[1] = "account" /\ o[2][1] \in D)
    BY DEF Watched
  <2>2. AccountIds(c) = Ids(c.accounts) /\ AccountIds(d) = Ids(d.accounts)
    BY IdsOf
  <2>3. \A a \in Ids(c.accounts) : a \in Ids(d.accounts) \/ a[1] \in D2
    BY DEF Advances, AccountsAdvance
  <2>4. /\ DOMAIN c.routes \subseteq DOMAIN d.routes /\ DOMAIN c.services \subseteq DOMAIN d.services
        /\ DOMAIN c.workloads \subseteq DOMAIN d.workloads
    BY DEF Advances, RowsAdvance, RoutesAdvance, ServicesAdvance
  <2>5. CASE o[1] = "account"
    BY <2>1, <2>2, <2>3, <2>5 DEF Present
  <2>6. CASE o[1] # "account"
    BY <2>1, <2>4, <1>2, <2>6 DEF Present
  <2> QED BY <2>5, <2>6
<1>5. ASSUME x.rev # 0, Present(d, o)
      PROVE  x.rev <= RevisionOf(d, o) /\ (x.rev = RevisionOf(d, o) => Row(d, o) = x.seen)
  <2>0. /\ o[1] \notin {"newDest", "newRoute"}
        /\ Present(c, o) => /\ x.rev <= RevisionOf(c, o)
                            /\ x.rev = RevisionOf(c, o) => Row(c, o) = x.seen
    BY <1>5 DEF Watched
  <2> DEFINE Grown == /\ Present(c, o)
                      /\ RevisionOf(c, o) \in Nat /\ RevisionOf(d, o) \in Nat
                      /\ \/ RevisionOf(d, o) > RevisionOf(c, o)
                         \/ RevisionOf(d, o) = RevisionOf(c, o) /\ Row(d, o) = Row(c, o)
  <2>1. ASSUME o[1] = "account" PROVE Grown
    <3>1. o[2] \in Ids(d.accounts) /\ AccountIds(c) = Ids(c.accounts) /\ d.accounts \in Accounts /\ c.accounts \in Accounts
      BY <1>0, <1>5, <2>1, IdsOf, ConfFields DEF Present
    <3>2. o[2][1] \in DOMAIN d.token
      <4>1. o[2][1] \in Bots /\ o[2][2] \in DOMAIN d.accounts[o[2][1]]
        BY <3>1, InIds
      <4> QED BY <4>1 DEF Sound, Mirrored
    <3>3. o[2][1] \notin D2
      BY <3>2 DEF Sound, Mirrored
    <3>4. Present(c, o)
      BY <3>3, <2>1 DEF Watched
    <3>5. o[2] \in Ids(c.accounts)
      BY <3>1, <3>4, <2>1 DEF Present
    <3>6. \/ d.accounts[o[2][1]][o[2][2]].rev > c.accounts[o[2][1]][o[2][2]].rev
          \/ d.accounts[o[2][1]][o[2][2]] = c.accounts[o[2][1]][o[2][2]]
      BY <3>3, <3>5 DEF Advances, AccountsAdvance
    <3>7. /\ RevisionOf(c, o) = c.accounts[o[2][1]][o[2][2]].rev
          /\ RevisionOf(d, o) = d.accounts[o[2][1]][o[2][2]].rev
          /\ Row(c, o) = <<o[1], c.accounts[o[2][1]][o[2][2]].token>>
          /\ Row(d, o) = <<o[1], d.accounts[o[2][1]][o[2][2]].token>>
      BY <2>1 DEF RevisionOf, Row, TokenOf
    <3>8. c.accounts[o[2][1]][o[2][2]].rev \in Nat /\ d.accounts[o[2][1]][o[2][2]].rev \in Nat
      BY <3>1, <3>5, AccountRow DEF AccountRows
    <3> HIDE DEF o
    <3> QED BY <3>4, <3>6, <3>7, <3>8
  <2>2. ASSUME o[1] = "dest" PROVE Grown
    <3>1. Present(c, o) /\ o[2] \in DOMAIN c.dests
      BY <2>2 DEF Present, Watched
    <3>2. o[2] \in DOMAIN d.dests /\ (d.dests[o[2]].rev > c.dests[o[2]].rev \/ d.dests[o[2]] = c.dests[o[2]])
      BY <3>1 DEF Advances, RowsAdvance
    <3>3. c.dests[o[2]].rev \in Nat /\ d.dests[o[2]].rev \in Nat
      BY <1>0, <3>1, <3>2, ConfFields DEF DestRows
    <3>4. /\ RevisionOf(c, o) = c.dests[o[2]].rev /\ RevisionOf(d, o) = d.dests[o[2]].rev
          /\ Row(c, o) = <<o[1], <<c.dests[o[2]].account, c.dests[o[2]].chat>>>>
          /\ Row(d, o) = <<o[1], <<d.dests[o[2]].account, d.dests[o[2]].chat>>>>
      BY <2>2 DEF RevisionOf, Row
    <3> HIDE DEF o
    <3> QED BY <3>1, <3>2, <3>3, <3>4
  <2>3. ASSUME o[1] = "route" PROVE Grown
    <3>1. Present(c, o) /\ o[2] \in DOMAIN c.routes
      BY <2>3 DEF Present, Watched
    <3> DEFINE r == c.routes[o[2]]
               q == d.routes[o[2]]
    <3>2. /\ o[2] \in DOMAIN d.routes
          /\ q.rev > r.rev \/ (q = r /\ TokensOf(d.accounts, r.account) = TokensOf(c.accounts, r.account))
      BY <3>1 DEF Advances, RoutesAdvance
    <3>3. r.rev \in Nat /\ q.rev \in Nat
      BY <1>0, <3>1, <3>2, ConfFields DEF RouteRows
    <3>4. /\ RevisionOf(c, o) = r.rev /\ RevisionOf(d, o) = q.rev
          /\ Row(c, o) = <<o[1], <<Content(r), TokensOf(c.accounts, r.account)>>>>
          /\ Row(d, o) = <<o[1], <<Content(q), TokensOf(d.accounts, q.account)>>>>
      BY <2>3, IdsOf DEF RevisionOf, Row, TokensOf, TokenOf
    <3> HIDE DEF o, r, q
    <3> QED BY <3>1, <3>2, <3>3, <3>4
  <2>4. ASSUME o[1] = "service" PROVE Grown
    <3>1. Present(c, o) /\ o[2] \in DOMAIN c.services
      BY <2>4 DEF Present, Watched
    <3>2. /\ o[2] \in DOMAIN d.services
          /\ \/ d.services[o[2]] > c.services[o[2]]
             \/ d.services[o[2]] = c.services[o[2]] /\ d.subs[o[2]] = c.subs[o[2]]
      BY <3>1 DEF Advances, ServicesAdvance
    <3>3. c.services[o[2]] \in Nat /\ d.services[o[2]] \in Nat
      BY <1>0, <3>1, <3>2, ConfFields
    <3>4. /\ RevisionOf(c, o) = c.services[o[2]] /\ RevisionOf(d, o) = d.services[o[2]]
          /\ d.subs[o[2]] = c.subs[o[2]] => Row(c, o) = Row(d, o)
      BY <2>4 DEF RevisionOf, Row, ActiveSubs
    <3> HIDE DEF o
    <3> QED BY <3>1, <3>2, <3>3, <3>4
  <2>5. ASSUME o[1] = "workload" PROVE Grown
    <3>1. Present(c, o) /\ o[2] \in DOMAIN c.workloads
      BY <2>5 DEF Present, Watched
    <3>2. /\ o[2] \in DOMAIN d.workloads
          /\ d.workloads[o[2]].rev > c.workloads[o[2]].rev \/ d.workloads[o[2]] = c.workloads[o[2]]
      BY <3>1 DEF Advances, RowsAdvance
    <3>3. c.workloads[o[2]].rev \in Nat /\ d.workloads[o[2]].rev \in Nat
      BY <1>0, <3>1, <3>2, ConfFields DEF WorkloadRows
    <3>4. /\ RevisionOf(c, o) = c.workloads[o[2]].rev /\ RevisionOf(d, o) = d.workloads[o[2]].rev
          /\ d.workloads[o[2]] = c.workloads[o[2]] => Row(c, o) = Row(d, o)
      BY <2>5 DEF RevisionOf, Row
    <3> HIDE DEF o
    <3> QED BY <3>1, <3>2, <3>3, <3>4
  <2>6. o[1] \in {"account", "dest", "newDest", "route", "newRoute", "service", "workload"}
    BY <1>0 DEF Objects
  <2>7. Grown
    BY <2>0, <2>1, <2>2, <2>3, <2>4, <2>5, <2>6
  <2>8. x.rev <= RevisionOf(c, o) /\ (x.rev = RevisionOf(c, o) => Row(c, o) = x.seen)
    BY <2>0, <2>7
  <2>9. x.rev \in Nat
    BY <1>0
  <2> HIDE DEF o
  <2> QED BY <2>7, <2>8, <2>9
<1> QED BY <1>0, <1>3, <1>4, <1>5 DEF Watched

\* A transaction that moves the tables this way keeps what is known of them.
LEMMA Committed ==
  ASSUME ConfigInv, ConfigurationAssumption, NEW c, NEW ks, conf' = c,
         history' = [k \in RouteKeys |->
           IF k \in ks THEN Append(history[k], Content(c.routes[k])) ELSE history[k]],
         Moves(conf, deleted, c, deleted', ks),
         \/ editor' = editor
         \/ \E e \in Editors : editor' = [editor EXCEPT ![e] = Idle],
         Rebound(c.dests, c.routes, unchecked'),
         notes' = notes \/ Pinned(c.services, notes'), requests' \in 0 .. MaxRequests
  PROVE  ConfigInv'
<1>1. conf' = c /\ history' = [k \in RouteKeys |->
        IF k \in ks THEN Append(history[k], Content(c.routes[k])) ELSE history[k]]
  OBVIOUS
<1>2. /\ Sound(conf, deleted) /\ Sound(c, deleted') /\ c \in Confs /\ conf \in Confs
      /\ Advances(conf, c, deleted') /\ RouteSteps(conf.routes, c.routes, ks)
      /\ deleted \subseteq deleted'
  BY DEF ConfigInv, Moves, Sound
<1>3. Explained(c.routes, history')
  <2>1. Explained(conf.routes, history)
    BY DEF ConfigInv
  <2>2. /\ c.routes \in [DOMAIN c.routes -> RouteRows] /\ DOMAIN c.routes \subseteq RouteKeys
        /\ conf.routes \in [DOMAIN conf.routes -> RouteRows]
    BY <1>2, ConfFields
  <2>3. \A k \in RouteKeys : history[k] \in Seq(RouteContents)
    BY <2>1 DEF Explained
  <2>4. ASSUME NEW k \in ks
        PROVE  /\ history'[k] \in Seq(RouteContents)
               /\ Len(history'[k]) = c.routes[k].rev /\ Last(history'[k]) = Content(c.routes[k])
    <3>1. k \in DOMAIN c.routes /\ k \in RouteKeys
      BY <1>2, <2>2 DEF RouteSteps
    <3>2. Content(c.routes[k]) \in RouteContents
      BY <2>2, <3>1 DEF Content, RouteContents, RouteRows
    <3>3. history'[k] = Append(history[k], Content(c.routes[k]))
      BY <1>1, <3>1
    <3>4. /\ history'[k] \in Seq(RouteContents) /\ Len(history'[k]) = Len(history[k]) + 1
          /\ history'[k][Len(history'[k])] = Content(c.routes[k])
      BY <2>3, <3>1, <3>2, <3>3
    <3>5. Len(history[k]) + 1 = c.routes[k].rev
      <4>1. CASE k \in DOMAIN conf.routes
        BY <1>2, <2>1, <2>2, <4>1 DEF Explained, RouteSteps, RouteRows
      <4>2. CASE k \notin DOMAIN conf.routes
        BY <1>2, <2>1, <3>1, <4>2 DEF Explained, RouteSteps
      <4> QED BY <4>1, <4>2
    <3> QED BY <3>4, <3>5 DEF Last
  <2>5. ASSUME NEW k \in RouteKeys \ ks PROVE history'[k] = history[k]
    BY <1>1
  <2>6. history' \in [RouteKeys -> Seq(RouteContents)]
    <3>1. \A k \in RouteKeys : history'[k] \in Seq(RouteContents)
      BY <2>3, <2>4, <2>5
    <3> QED BY <1>1, <3>1
  <2>7. ASSUME NEW k \in RouteKeys \ DOMAIN c.routes PROVE Len(history'[k]) = 0
    BY <1>2, <2>1, <2>5 DEF Explained, RouteSteps
  <2>8. ASSUME NEW k \in DOMAIN c.routes \ ks
        PROVE  Len(history'[k]) = c.routes[k].rev /\ Last(history'[k]) = Content(c.routes[k])
    BY <1>2, <2>1, <2>2, <2>5 DEF Explained, RouteSteps
  <2> QED BY <2>4, <2>6, <2>7, <2>8 DEF Explained
<1>4. Pinned(c.services, notes')
  <2>1. DOMAIN conf.services \subseteq DOMAIN c.services
    BY <1>2 DEF Advances, ServicesAdvance
  <2>2. Pinned(conf.services, notes)
    BY DEF ConfigInv
  <2> QED BY <2>1, <2>2 DEF Pinned
<1>5. Watching(c, deleted', editor')
  <2>1. Watching(conf, deleted, editor)
    BY DEF ConfigInv
  <2>2. \A e \in Editors : editor'[e] = editor[e] \/ editor'[e] = Idle
    BY <2>1 DEF Watching
  <2>3. editor' = [e \in Editors |-> editor'[e]]
    BY <2>1 DEF Watching
  <2>4. ASSUME NEW e \in Editors
        PROVE  \/ editor'[e] = Idle
               \/ /\ editor'[e] = Opened(editor'[e].object, editor'[e].rev, editor'[e].seen, editor'[e].draft)
                  /\ Watched(c, deleted', editor'[e])
    <3>1. CASE editor'[e] = Idle
      BY <3>1
    <3>2. CASE editor'[e] = editor[e] /\ editor[e] # Idle
      <4>1. /\ editor[e] = Opened(editor[e].object, editor[e].rev, editor[e].seen, editor[e].draft)
            /\ Watched(conf, deleted, editor[e])
        BY <2>1, <3>2 DEF Watching
      <4>2. Watched(c, deleted', editor[e])
        BY <1>2, <4>1, WatchedKept
      <4> QED BY <3>2, <4>1, <4>2
    <3> QED BY <2>2, <3>1, <3>2
  <2> HIDE DEF Idle
  <2> QED BY <2>3, <2>4 DEF Watching
<1> QED BY <1>1, <1>2, <1>3, <1>4, <1>5 DEF ConfigInv

------------------------------------------------------------------------------
(* One table of a configuration is replaced. *)

\* Replacing one part of a configuration leaves the others: the tokens ...
LEMMA WithToken ==
  ASSUME NEW c \in Confs, NEW x \in Table(Bots, Tokens), NEW d, d = [c EXCEPT !.token = x]
  PROVE  /\ d \in Confs /\ d.token = x /\ d.accounts = c.accounts
         /\ d.dests = c.dests /\ d.routes = c.routes /\ d.services = c.services
         /\ d.subs = c.subs /\ d.workloads = c.workloads
BY DEF Confs

\* ... the accounts ...
LEMMA WithAccounts ==
  ASSUME NEW c \in Confs, NEW x \in Accounts, NEW d, d = [c EXCEPT !.accounts = x]
  PROVE  /\ d \in Confs /\ d.accounts = x /\ d.token = c.token
         /\ d.dests = c.dests /\ d.routes = c.routes /\ d.services = c.services
         /\ d.subs = c.subs /\ d.workloads = c.workloads
BY DEF Confs

\* ... the destinations ...
LEMMA WithDests ==
  ASSUME NEW c \in Confs, NEW x \in Table(Dests, DestRows), NEW d, d = [c EXCEPT !.dests = x]
  PROVE  /\ d \in Confs /\ d.dests = x /\ d.token = c.token
         /\ d.accounts = c.accounts /\ d.routes = c.routes /\ d.services = c.services
         /\ d.subs = c.subs /\ d.workloads = c.workloads
BY DEF Confs

\* ... the routes ...
LEMMA WithRoutes ==
  ASSUME NEW c \in Confs, NEW x \in Table(RouteKeys, RouteRows), NEW d, d = [c EXCEPT !.routes = x]
  PROVE  /\ d \in Confs /\ d.routes = x /\ d.token = c.token
         /\ d.accounts = c.accounts /\ d.dests = c.dests /\ d.services = c.services
         /\ d.subs = c.subs /\ d.workloads = c.workloads
BY DEF Confs

\* ... the services ...
LEMMA WithServices ==
  ASSUME NEW c \in Confs, NEW x \in Table(Services, Nat), NEW d, d = [c EXCEPT !.services = x]
  PROVE  /\ d \in Confs /\ d.services = x /\ d.token = c.token
         /\ d.accounts = c.accounts /\ d.dests = c.dests /\ d.routes = c.routes
         /\ d.subs = c.subs /\ d.workloads = c.workloads
BY DEF Confs

\* ... the subscriptions ...
LEMMA WithSubs ==
  ASSUME NEW c \in Confs, NEW x \in Subs, NEW d, d = [c EXCEPT !.subs = x]
  PROVE  /\ d \in Confs /\ d.subs = x /\ d.token = c.token
         /\ d.accounts = c.accounts /\ d.dests = c.dests /\ d.routes = c.routes
         /\ d.services = c.services /\ d.workloads = c.workloads
BY DEF Confs

\* ... and the workloads.
LEMMA WithWorkloads ==
  ASSUME NEW c \in Confs, NEW x \in Table(Workloads, WorkloadRows), NEW d, d = [c EXCEPT !.workloads = x]
  PROVE  /\ d \in Confs /\ d.workloads = x /\ d.token = c.token
         /\ d.accounts = c.accounts /\ d.dests = c.dests /\ d.routes = c.routes
         /\ d.services = c.services /\ d.subs = c.subs
BY DEF Confs

------------------------------------------------------------------------------
(* Bots and accounts *)

\* A bot is added, or saved with the token it has.
LEMMA NewBotMoves ==
  ASSUME NEW c, NEW D, Sound(c, D), NEW b \in Bots \ D, NEW t \in Tokens,
         b \in DOMAIN c.token => c.token[b] = t
  PROVE  Moves(c, D, NewBot(c, b, t), D, {})
<1> DEFINE d == NewBot(c, b, t)
<1>1. c \in Confs /\ c.token \in Table(Bots, Tokens)
  BY DEF Sound, Confs
<1>2. /\ With(c.token, b, t) \in Table(Bots, Tokens)
      /\ DOMAIN With(c.token, b, t) = DOMAIN c.token \cup {b}
      /\ \A x \in DOMAIN c.token : With(c.token, b, t)[x] = c.token[x]
  <2>1. b \in Bots /\ t \in Tokens
    OBVIOUS
  <2> DEFINE table == c.token
  <2>3. table \in Table(Bots, Tokens)
    BY <1>1
  <2> HIDE DEF table
  <2>4. With(table, b, t) \in Table(Bots, Tokens)
    BY <2>1, <2>3, WithIn
  <2>5. /\ DOMAIN With(table, b, t) = DOMAIN table \cup {b}
        /\ With(table, b, t)[b] = t
        /\ \A x \in DOMAIN table : x # b => With(table, b, t)[x] = table[x]
    BY DEF With
  <2>2. /\ With(c.token, b, t) \in Table(Bots, Tokens)
        /\ DOMAIN With(c.token, b, t) = DOMAIN c.token \cup {b}
        /\ With(c.token, b, t)[b] = t
        /\ \A x \in DOMAIN c.token : x # b => With(c.token, b, t)[x] = c.token[x]
    BY <2>4, <2>5 DEF table
  <2> QED BY <2>2
<1>3. /\ d \in Confs /\ d.token = With(c.token, b, t) /\ d.accounts = c.accounts
      /\ d.dests = c.dests /\ d.routes = c.routes /\ d.services = c.services
      /\ d.subs = c.subs /\ d.workloads = c.workloads
  <2> DEFINE x == With(c.token, b, t)
  <2>1. d = [c EXCEPT !.token = x]
    BY Zenon DEF NewBot
  <2>2. x \in Table(Bots, Tokens)
    BY <1>2
  <2> HIDE DEF d, x
  <2>3. d \in Confs /\ d.token = x /\ d.accounts = c.accounts /\ d.dests = c.dests /\ d.routes = c.routes
        /\ d.services = c.services /\ d.subs = c.subs /\ d.workloads = c.workloads
    BY <1>1, <2>1, <2>2, WithToken
  <2> QED BY <2>3 DEF x
<1> HIDE DEF d
<1>4. Mirrored(d.token, d.accounts, D)
  BY <1>2, <1>3 DEF Sound, Mirrored
<1>5. ChatsOnce(d)
  BY <1>3, ChatsKept DEF TokenOf
<1>6. Sound(d, D)
  BY <1>3, <1>4, <1>5 DEF Sound
<1>7. Advances(c, d, D) /\ RouteSteps(c.routes, d.routes, {})
  BY <1>3, Still DEF Advances
<1> QED BY <1>6, <1>7 DEF Moves, d

\* One more alias of a bot.
LEMMA NewAccountMoves ==
  ASSUME NEW c, NEW D, Sound(c, D), NEW b \in DOMAIN c.token
  PROVE  /\ Moves(c, D, NewAccount(c, b), D, {})
         /\ <<b, Len(NewAccount(c, b).accounts[b])>> \in Ids(NewAccount(c, b).accounts)
<1> DEFINE d == NewAccount(c, b)
           row == [rev |-> 1, token |-> c.token[b]]
           new == <<b, Len(c.accounts[b]) + 1>>
<1>1. /\ c \in Confs /\ c.accounts \in Accounts /\ b \in Bots /\ row \in AccountRows /\ b \notin D
      /\ c.accounts[b] \in Seq(AccountRows)
  <2>1. c \in Confs /\ c.accounts \in Accounts /\ b \in Bots /\ c.token[b] \in Tokens
    BY ConfFields DEF Sound
  <2>2. b \notin D
    BY DEF Sound, Mirrored
  <2>3. row \in AccountRows
    BY <2>1 DEF AccountRows
  <2> QED BY <2>1, <2>2, <2>3 DEF Accounts
<1>2. /\ d \in Confs /\ d.token = c.token
      /\ d.accounts = [c.accounts EXCEPT ![b] = Append(@, row)]
      /\ d.dests = c.dests /\ d.routes = c.routes /\ d.services = c.services
      /\ d.subs = c.subs /\ d.workloads = c.workloads
  <2>1. [c.accounts EXCEPT ![b] = Append(@, row)] \in Accounts
    <3>1. Append(c.accounts[b], row) \in Seq(AccountRows)
      BY <1>1
    <3> HIDE DEF row
    <3> QED BY <1>1, <3>1 DEF Accounts
  <2> DEFINE x == [c.accounts EXCEPT ![b] = Append(@, row)]
  <2>2. d = [c EXCEPT !.accounts = x]
    BY DEF NewAccount
  <2> HIDE DEF d, x, row
  <2>3. d \in Confs /\ d.token = c.token /\ d.accounts = x /\ d.dests = c.dests /\ d.routes = c.routes
        /\ d.services = c.services /\ d.subs = c.subs /\ d.workloads = c.workloads
    <3>1. x \in Accounts
      BY <2>1 DEF x
    <3> QED BY <1>1, <2>2, <3>1, WithAccounts
  <2> QED BY <2>3 DEF x
<1> HIDE DEF d, row
<1>3. /\ d.accounts[b] = Append(c.accounts[b], row)
      /\ \A x \in Bots : x # b => d.accounts[x] = c.accounts[x]
      /\ Len(d.accounts[b]) = Len(c.accounts[b]) + 1
      /\ d.accounts[b][Len(c.accounts[b]) + 1] = row
      /\ \A n \in DOMAIN c.accounts[b] : n \in DOMAIN d.accounts[b] /\ d.accounts[b][n] = c.accounts[b][n]
      /\ \A n \in DOMAIN d.accounts[b] : n \in DOMAIN c.accounts[b] \/ n = Len(c.accounts[b]) + 1
      /\ Len(c.accounts[b]) + 1 \in DOMAIN d.accounts[b]
      /\ Len(c.accounts[b]) + 1 \in Nat \ {0}
  <2>1. d.accounts[b] = Append(c.accounts[b], row) /\ \A x \in Bots : x # b => d.accounts[x] = c.accounts[x]
    BY <1>1, <1>2 DEF Accounts
  <2> QED BY <1>1, <2>1
<1>4. ASSUME NEW a \in Ids(c.accounts)
      PROVE  a \in Ids(d.accounts) /\ d.accounts[a[1]][a[2]] = c.accounts[a[1]][a[2]]
  <2>1. a \in AccountNames /\ a[1] \in Bots /\ a[2] \in DOMAIN c.accounts[a[1]]
    BY <1>1, InIds
  <2>2. a[2] \in DOMAIN d.accounts[a[1]] /\ d.accounts[a[1]][a[2]] = c.accounts[a[1]][a[2]]
    BY <1>3, <2>1
  <2>3. d.accounts \in Accounts
    BY <1>2, ConfFields
  <2> QED BY <2>1, <2>2, <2>3, InIds
<1>5. ASSUME NEW a \in Ids(d.accounts), a[1] # b \/ a # new PROVE a \in Ids(c.accounts)
  <2>1. d.accounts \in Accounts
    BY <1>2, ConfFields
  <2>2. a \in AccountNames /\ a[1] \in Bots /\ a[2] \in DOMAIN d.accounts[a[1]] /\ a = <<a[1], a[2]>>
    BY <2>1, InIds
  <2>3. a[2] \in DOMAIN c.accounts[a[1]]
    BY <1>3, <1>5, <2>2
  <2> QED BY <1>1, <2>2, <2>3, InIds
<1>6. ASSUME NEW a, Named(c.accounts, D, a)
      PROVE  /\ Named(d.accounts, D, a)
             /\ a \in Ids(d.accounts) => a \in Ids(c.accounts)
             /\ TokensOf(d.accounts, a) = TokensOf(c.accounts, a)
  <2>0. d.accounts \in Accounts
    BY <1>2, ConfFields
  <2>1. Named(d.accounts, D, a)
    BY <1>4, <1>6 DEF Named
  <2>2. a \in Ids(d.accounts) => a \in Ids(c.accounts)
    <3>1. CASE a \in Ids(c.accounts)
      BY <3>1
    <3>2. CASE a[1] \in D
      BY <1>1, <1>5, <3>2
    <3> QED BY <1>6, <3>1, <3>2 DEF Named
  <2>3. TokensOf(d.accounts, a) = TokensOf(c.accounts, a)
    BY <1>4, <2>2 DEF TokensOf
  <2> QED BY <2>1, <2>2, <2>3
<1>7. Mirrored(d.token, d.accounts, D)
  <2>1. ASSUME NEW x \in Bots, NEW n \in DOMAIN d.accounts[x]
        PROVE  x \in DOMAIN d.token /\ d.accounts[x][n].token = d.token[x]
    <3>1. CASE x # b \/ n \in DOMAIN c.accounts[b]
      BY <1>2, <1>3, <3>1 DEF Sound, Mirrored
    <3>2. CASE x = b /\ n = Len(c.accounts[b]) + 1
      BY <1>2, <1>3, <3>2 DEF row
    <3> QED BY <1>3, <3>1, <3>2
  <2>2. DOMAIN d.token \cap D = {}
    BY <1>2 DEF Sound, Mirrored
  <2> QED BY <2>1, <2>2 DEF Mirrored
<1>8. \A n \in DOMAIN c.dests : Named(c.accounts, D, c.dests[n].account)
  BY DEF Sound, DestsLinked
<1>9. \A k \in DOMAIN c.routes : Named(c.accounts, D, c.routes[k].account)
  BY DEF Sound, RoutesLinked
<1>10. DestsLinked(d.accounts, d.dests, D) /\ RoutesLinked(d.accounts, d.dests, d.routes, D)
  BY <1>2, <1>6, <1>8, <1>9 DEF DestsLinked, RoutesLinked, Sound
<1>11. ChatsOnce(d)
  BY <1>2, <1>4, <1>6, <1>8, ChatsKept DEF TokenOf
<1>12. Sound(d, D)
  BY <1>2, <1>7, <1>10, <1>11 DEF Sound
<1>13. AccountsAdvance(c.accounts, d.accounts, D)
  BY <1>4 DEF AccountsAdvance
<1>14. RoutesAdvance(c.accounts, c.routes, d.accounts, d.routes)
  BY <1>2, <1>6, <1>9 DEF RoutesAdvance
<1>15. Advances(c, d, D) /\ RouteSteps(c.routes, d.routes, {})
  BY <1>2, <1>13, <1>14, Still DEF Advances
<1>16. <<b, Len(d.accounts[b])>> \in Ids(d.accounts)
  <2>1. d.accounts \in Accounts /\ new \in AccountNames
    BY <1>1, <1>2, <1>3, ConfFields DEF AccountNames
  <2>2. new[1] = b /\ new[2] = Len(c.accounts[b]) + 1
    OBVIOUS
  <2>3. new \in Ids(d.accounts)
    BY <1>3, <2>1, <2>2, InIds
  <2> QED BY <1>3, <2>3
<1> QED BY <1>12, <1>15, <1>16 DEF Moves, d

\* A token is rotated: the accounts of the bot and their routes follow.
LEMMA SyncedMoves ==
  ASSUME NEW c, NEW D, Sound(c, D), NEW b \in DOMAIN c.token, NEW t \in Tokens,
         AllRecipientsValid(Synced(NewBot(c, b, t), b))
  PROVE  LET d == Synced(NewBot(c, b, t), b) IN
         /\ Moves(c, D, d, D, RoutesOfBot(d, b))
         /\ d.dests = c.dests /\ DOMAIN d.routes = DOMAIN c.routes
         /\ \A k \in DOMAIN c.routes : /\ d.routes[k].account = c.routes[k].account
                                       /\ d.routes[k].dest = c.routes[k].dest
<1> DEFINE d == Synced(NewBot(c, b, t), b)
           token == With(c.token, b, t)
           accounts == [c.accounts EXCEPT ![b] =
             [n \in DOMAIN @ |-> [rev |-> @[n].rev + 1, token |-> token[b]]]]
           routes == [k \in DOMAIN c.routes |->
             IF k \in RoutesOfBot(c, b) THEN [c.routes[k] EXCEPT !.rev = @ + 1] ELSE c.routes[k]]
<1>1. /\ c \in Confs /\ b \in Bots /\ t \in Tokens /\ b \notin D /\ c.accounts \in Accounts
      /\ c.routes \in [DOMAIN c.routes -> RouteRows] /\ DOMAIN c.routes \subseteq RouteKeys
      /\ DOMAIN c.token \subseteq Bots
  <2>1. c \in Confs
    BY DEF Sound
  <2> QED BY <2>1, ConfFields DEF Sound, Mirrored
<1>2. /\ token \in Table(Bots, Tokens) /\ DOMAIN token = DOMAIN c.token /\ token[b] = t
      /\ \A x \in DOMAIN c.token : x # b => token[x] = c.token[x]
  <2> DEFINE table == c.token
  <2>1. table \in Table(Bots, Tokens)
    BY <1>1 DEF Confs
  <2>2. b \in DOMAIN table
    OBVIOUS
  <2>4. b \in Bots /\ t \in Tokens
    BY <1>1
  <2> HIDE DEF table
  <2>3. With(table, b, t) \in Table(Bots, Tokens)
    BY <2>1, <2>4, WithIn
  <2>5. /\ DOMAIN With(table, b, t) = DOMAIN table \cup {b} /\ With(table, b, t)[b] = t
        /\ \A x \in DOMAIN table : x # b => With(table, b, t)[x] = table[x]
    BY DEF With
  <2> QED BY <2>2, <2>3, <2>5 DEF table
<1> HIDE DEF token
<1>3. /\ accounts \in Accounts
      /\ \A x \in Bots : x # b => accounts[x] = c.accounts[x]
      /\ DOMAIN accounts[b] = DOMAIN c.accounts[b]
      /\ \A n \in DOMAIN accounts[b] : accounts[b][n] = [rev |-> c.accounts[b][n].rev + 1, token |-> t]
  <2>1. c.accounts[b] \in Seq(AccountRows)
    BY <1>1 DEF Accounts
  <2> DEFINE new == [n \in DOMAIN c.accounts[b] |-> [rev |-> c.accounts[b][n].rev + 1, token |-> token[b]]]
  <2>2. ASSUME NEW n \in DOMAIN c.accounts[b]
        PROVE  [rev |-> c.accounts[b][n].rev + 1, token |-> token[b]] \in AccountRows
    <3>1. c.accounts[b][n] \in AccountRows
      BY <2>1
    <3>2. c.accounts[b][n].rev \in Nat
      BY <3>1 DEF AccountRows
    <3>3. c.accounts[b][n].rev + 1 \in Nat \ {0} /\ token[b] \in Tokens
      BY <1>1, <1>2, <3>2
    <3> QED BY <3>3 DEF AccountRows
  <2>3. new \in Seq(AccountRows)
    <3> DEFINE m == Len(c.accounts[b])
    <3>1. m \in Nat /\ DOMAIN c.accounts[b] = 1 .. m
      BY <2>1
    <3>2. new \in [1 .. m -> AccountRows]
      BY <2>2, <3>1
    <3> HIDE DEF new, m
    <3> QED BY <3>1, <3>2
  <2>4. accounts = [c.accounts EXCEPT ![b] = new]
    OBVIOUS
  <2>5. accounts \in Accounts /\ accounts[b] = new /\ \A x \in Bots : x # b => accounts[x] = c.accounts[x]
    <3> HIDE DEF new
    <3> QED BY <1>1, <2>3, <2>4 DEF Accounts
  <2> QED BY <1>2, <2>5
<1> HIDE DEF accounts
<1>4. /\ routes \in Table(RouteKeys, RouteRows) /\ DOMAIN routes = DOMAIN c.routes
      /\ \A k \in DOMAIN c.routes : k \notin RoutesOfBot(c, b) => routes[k] = c.routes[k]
      /\ \A k \in RoutesOfBot(c, b) : routes[k].rev = c.routes[k].rev + 1
      /\ \A k \in DOMAIN c.routes :
           routes[k].account = c.routes[k].account /\ routes[k].dest = c.routes[k].dest
  <2>1. \A k \in DOMAIN c.routes : routes[k] \in RouteRows
    BY <1>1 DEF RouteRows
  <2>2. routes \in [DOMAIN routes -> RouteRows] /\ DOMAIN routes \subseteq RouteKeys /\ DOMAIN routes = DOMAIN c.routes
    BY <1>1, <2>1
  <2>3. routes \in Table(RouteKeys, RouteRows)
    <3> HIDE DEF routes
    <3> QED BY <2>2, InTable
  <2>4. ASSUME NEW k \in RoutesOfBot(c, b)
        PROVE  routes[k].rev = c.routes[k].rev + 1 /\ routes[k].account = c.routes[k].account
               /\ routes[k].dest = c.routes[k].dest
    <3>1. k \in DOMAIN c.routes /\ c.routes[k] \in RouteRows
      BY <1>1 DEF RoutesOfBot
    <3>2. routes[k] = [c.routes[k] EXCEPT !.rev = @ + 1]
      BY <3>1
    <3> HIDE DEF routes
    <3> QED BY <3>1, <3>2 DEF RouteRows
  <2>5. \A k \in DOMAIN c.routes : k \notin RoutesOfBot(c, b) => routes[k] = c.routes[k]
    OBVIOUS
  <2> HIDE DEF routes
  <2> QED BY <2>2, <2>3, <2>4, <2>5
<1>5. /\ d \in Confs /\ d.token = token /\ d.accounts = accounts
      /\ d.dests = c.dests /\ d.routes = routes /\ d.services = c.services
      /\ d.subs = c.subs /\ d.workloads = c.workloads
  <2> DEFINE x == [c EXCEPT !.token = token]
             y == [x EXCEPT !.accounts = accounts]
             z == [y EXCEPT !.routes = routes]
  <2>1. x = NewBot(c, b, t)
    BY Zenon DEF NewBot, token
  <2>2. /\ x \in Confs /\ x.token = token /\ x.accounts = c.accounts
        /\ x.dests = c.dests /\ x.routes = c.routes /\ x.services = c.services
        /\ x.subs = c.subs /\ x.workloads = c.workloads
    BY <1>1, <1>2, WithToken
  <2> HIDE DEF x
  <2>3. /\ y \in Confs /\ y.token = token /\ y.accounts = accounts
        /\ y.dests = c.dests /\ y.routes = c.routes /\ y.services = c.services
        /\ y.subs = c.subs /\ y.workloads = c.workloads
    BY <1>3, <2>2, WithAccounts
  <2>4. [x EXCEPT !.accounts[b] = [n \in DOMAIN @ |-> [rev |-> @[n].rev + 1, token |-> x.token[b]]]] = y
    BY <2>2 DEF accounts
  <2> HIDE DEF y, routes
  <2>5. /\ z \in Confs /\ z.token = token /\ z.accounts = accounts
        /\ z.dests = c.dests /\ z.routes = routes /\ z.services = c.services
        /\ z.subs = c.subs /\ z.workloads = c.workloads
    BY <1>4, <2>3, WithRoutes
  <2>6. RoutesOfBot(x, b) = RoutesOfBot(c, b)
    BY <2>2 DEF RoutesOfBot
  <2>7. d = Bumped(y, RoutesOfBot(c, b))
    BY <2>1, <2>4, <2>6 DEF Synced
  <2>8. Bumped(y, RoutesOfBot(c, b)) = z
    BY <2>3 DEF Bumped, routes
  <2> QED BY <2>5, <2>7, <2>8
<1>6. RoutesOfBot(d, b) = RoutesOfBot(c, b) /\ RoutesOfBot(c, b) \subseteq DOMAIN c.routes
  <2> HIDE DEF d, routes
  <2> QED BY <1>4, <1>5 DEF RoutesOfBot
<1>7. AllRecipientsValid(d)
  OBVIOUS
<1> HIDE DEF d, routes
<1>8. ASSUME NEW a
      PROVE  /\ a \in Ids(d.accounts) <=> a \in Ids(c.accounts)
             /\ a[1] # b => TokensOf(d.accounts, a) = TokensOf(c.accounts, a)
  <2>1. \A x \in Bots : DOMAIN d.accounts[x] = DOMAIN c.accounts[x]
    BY <1>3, <1>5
  <2>2. Ids(d.accounts) = Ids(c.accounts)
    BY <2>1 DEF Ids
  <2>3. ASSUME a[1] # b, a \in Ids(c.accounts)
        PROVE  d.accounts[a[1]][a[2]] = c.accounts[a[1]][a[2]]
    <3>1. a[1] \in Bots
      BY <1>1, <2>3, InIds
    <3> QED BY <1>3, <1>5, <2>3, <3>1
  <2> QED BY <2>2, <2>3 DEF TokensOf
<1>9. Mirrored(d.token, d.accounts, D)
  <2>1. ASSUME NEW x \in Bots, NEW n \in DOMAIN d.accounts[x]
        PROVE  x \in DOMAIN d.token /\ d.accounts[x][n].token = d.token[x]
    <3>1. CASE x # b
      BY <1>2, <1>3, <1>5, <3>1 DEF Sound, Mirrored
    <3>2. CASE x = b
      <4>1. n \in DOMAIN accounts[b]
        BY <1>5, <3>2
      <4>3. accounts[b][n] = [rev |-> c.accounts[b][n].rev + 1, token |-> t]
        BY <1>3, <4>1
      <4>2. accounts[b][n].token = t
        BY <4>3
      <4> QED BY <1>2, <1>5, <3>2, <4>2
    <3> QED BY <3>1, <3>2
  <2>2. DOMAIN d.token \cap D = {}
    BY <1>2, <1>5 DEF Sound, Mirrored
  <2> QED BY <2>1, <2>2 DEF Mirrored
<1>10. DestsLinked(d.accounts, d.dests, D) /\ RoutesLinked(d.accounts, d.dests, d.routes, D)
  BY <1>4, <1>5, <1>8 DEF Sound, DestsLinked, RoutesLinked, Named
<1>11. GrantsLinked(d.routes, d.workloads)
  BY <1>4, <1>5 DEF Sound, GrantsLinked
<1>12. ChatsOnce(d)
  BY <1>7 DEF ChatsOnce, AllRecipientsValid, RecipientsValid
<1>13. Sound(d, D)
  BY <1>5, <1>9, <1>10, <1>11, <1>12 DEF Sound
<1>14. AccountsAdvance(c.accounts, d.accounts, D)
  <2> SUFFICES ASSUME NEW a \in Ids(c.accounts)
               PROVE  \/ d.accounts[a[1]][a[2]].rev > c.accounts[a[1]][a[2]].rev
                      \/ d.accounts[a[1]][a[2]] = c.accounts[a[1]][a[2]]
    BY <1>8 DEF AccountsAdvance
  <2>1. a[1] \in Bots /\ a[2] \in DOMAIN c.accounts[a[1]] /\ c.accounts[a[1]][a[2]].rev \in Nat
    BY <1>1, InIds, AccountRow DEF AccountRows
  <2>2. CASE a[1] = b
    <3>1. d.accounts[a[1]][a[2]] = [rev |-> c.accounts[a[1]][a[2]].rev + 1, token |-> t]
      BY <1>3, <1>5, <2>1, <2>2
    <3>2. d.accounts[a[1]][a[2]].rev = c.accounts[a[1]][a[2]].rev + 1
      BY <3>1
    <3> QED BY <2>1, <3>2
  <2>3. CASE a[1] # b
    BY <1>3, <1>5, <2>1, <2>3
  <2> QED BY <2>2, <2>3
<1>15. RoutesAdvance(c.accounts, c.routes, d.accounts, d.routes)
  <2> SUFFICES ASSUME NEW k \in DOMAIN c.routes
               PROVE  \/ d.routes[k].rev > c.routes[k].rev
                      \/ /\ d.routes[k] = c.routes[k]
                         /\ TokensOf(d.accounts, c.routes[k].account) = TokensOf(c.accounts, c.routes[k].account)
    BY <1>4, <1>5 DEF RoutesAdvance
  <2>1. CASE k \in RoutesOfBot(c, b)
    <3>1. c.routes[k].rev \in Nat
      BY <1>1 DEF RouteRows
    <3>2. d.routes[k].rev = c.routes[k].rev + 1
      BY <1>4, <1>5, <2>1
    <3> QED BY <3>1, <3>2
  <2>2. CASE k \notin RoutesOfBot(c, b)
    <3>1. c.routes[k].account[1] # b
      BY <2>2 DEF RoutesOfBot
    <3> QED BY <1>4, <1>5, <1>8, <2>2, <3>1
  <2> QED BY <2>1, <2>2
<1>16. Advances(c, d, D)
  BY <1>5, <1>14, <1>15, Still DEF Advances
<1>17. RouteSteps(c.routes, d.routes, RoutesOfBot(d, b))
  BY <1>4, <1>5, <1>6 DEF RouteSteps
<1>18. Moves(c, D, d, D, RoutesOfBot(d, b))
  BY <1>13, <1>16, <1>17 DEF Moves
<1> QED BY <1>4, <1>5, <1>18 DEF d

\* The tables after a bot was deleted, a destination added, a route saved.
BotDropped(c, b) == [c EXCEPT !.token = [x \in DOMAIN @ \ {b} |-> @[x]], !.accounts[b] = <<>>]
DestAdded(c, n, row) == [c EXCEPT !.dests = With(@, n, row)]
RouteSaved(c, k, row) == [c EXCEPT !.routes = With(@, k, row)]

\* A bot is deleted that no route is for.
LEMMA DeletedMoves ==
  ASSUME NEW c, NEW D, Sound(c, D), NEW b \in DOMAIN c.token,
         \A k \in DOMAIN c.routes : c.routes[k].account[1] # b,
         NEW d, d = BotDropped(c, b)
  PROVE  Moves(c, D, d, D \cup {b}, {}) /\ d.dests = c.dests /\ d.routes = c.routes
<1> DEFINE token == [x \in DOMAIN c.token \ {b} |-> c.token[x]]
           accounts == [c.accounts EXCEPT ![b] = <<>>]
<1>1. /\ c \in Confs /\ b \in Bots /\ c.accounts \in Accounts
      /\ c.token \in [DOMAIN c.token -> Tokens] /\ DOMAIN c.token \subseteq Bots
  <2>1. c \in Confs
    BY DEF Sound
  <2> QED BY <2>1, ConfFields
<1>2. token \in Table(Bots, Tokens) /\ DOMAIN token = DOMAIN c.token \ {b}
      /\ \A x \in DOMAIN token : token[x] = c.token[x]
  <2>1. token \in [DOMAIN token -> Tokens] /\ DOMAIN token \subseteq Bots
    BY <1>1
  <2>2. token \in Table(Bots, Tokens)
    <3> HIDE DEF token
    <3> QED BY <2>1, InTable
  <2> QED BY <2>2
<1>3. /\ accounts \in Accounts /\ DOMAIN accounts[b] = {}
      /\ \A x \in Bots : x # b => accounts[x] = c.accounts[x]
  <2>1. <<>> \in Seq(AccountRows)
    OBVIOUS
  <2>2. accounts \in Accounts /\ accounts[b] = <<>>
    BY <1>1, <2>1 DEF Accounts
  <2>3. \A x \in Bots : x # b => accounts[x] = c.accounts[x]
    BY <1>1 DEF Accounts
  <2>4. ASSUME NEW s, s = <<>> PROVE DOMAIN s = {}
    BY <2>4
  <2> HIDE DEF accounts
  <2> QED BY <2>2, <2>3, <2>4
<1>4. /\ d \in Confs /\ d.token = token /\ d.accounts = accounts
      /\ d.dests = c.dests /\ d.routes = c.routes /\ d.services = c.services
      /\ d.subs = c.subs /\ d.workloads = c.workloads
  <2> DEFINE x == [c EXCEPT !.token = token]
             y == [x EXCEPT !.accounts = accounts]
  <2> HIDE DEF token
  <2>1. /\ x \in Confs /\ x.token = token /\ x.accounts = c.accounts
        /\ x.dests = c.dests /\ x.routes = c.routes /\ x.services = c.services
        /\ x.subs = c.subs /\ x.workloads = c.workloads
    BY <1>1, <1>2, WithToken
  <2>2. d = [x EXCEPT !.accounts[b] = <<>>]
    BY DEF BotDropped, token
  <2> HIDE DEF x
  <2>3. d = y
    BY <2>1, <2>2
  <2> HIDE DEF accounts, y
  <2>4. y = [x EXCEPT !.accounts = accounts]
    BY DEF y
  <2>5. x \in Confs /\ accounts \in Accounts
    BY <1>3, <2>1
  <2>6. /\ y \in Confs /\ y.token = x.token /\ y.accounts = accounts
        /\ y.dests = x.dests /\ y.routes = x.routes /\ y.services = x.services
        /\ y.subs = x.subs /\ y.workloads = x.workloads
    BY <2>4, <2>5, WithAccounts
  <2> QED BY <2>1, <2>3, <2>6
<1> HIDE DEF token, accounts
<1>5. ASSUME NEW a, a \in Ids(d.accounts)
      PROVE  a \in Ids(c.accounts) /\ a[1] # b /\ d.accounts[a[1]] = c.accounts[a[1]]
  <2>1. d.accounts \in Accounts
    BY <1>3, <1>4
  <2>2. a \in AccountNames /\ a[1] \in Bots /\ a[2] \in DOMAIN d.accounts[a[1]]
    BY <1>5, <2>1, InIds
  <2>3. a[1] # b
    BY <1>3, <1>4, <2>2
  <2>4. d.accounts[a[1]] = c.accounts[a[1]]
    BY <1>3, <1>4, <2>2, <2>3
  <2> QED BY <1>1, <2>2, <2>3, <2>4, InIds
<1>6. ASSUME NEW a, a \in Ids(c.accounts), a[1] # b
      PROVE  a \in Ids(d.accounts) /\ d.accounts[a[1]] = c.accounts[a[1]]
  <2>1. a \in AccountNames /\ a[1] \in Bots /\ a[2] \in DOMAIN c.accounts[a[1]]
    BY <1>1, <1>6, InIds
  <2>2. d.accounts[a[1]] = c.accounts[a[1]] /\ d.accounts \in Accounts
    BY <1>3, <1>4, <1>6, <2>1
  <2> QED BY <2>1, <2>2, InIds
<1>7. \A a : Named(c.accounts, D, a) => Named(d.accounts, D \cup {b}, a)
  BY <1>6 DEF Named
<1>8. Mirrored(d.token, d.accounts, D \cup {b})
  <2>1. ASSUME NEW x \in Bots, NEW n \in DOMAIN d.accounts[x]
        PROVE  x \in DOMAIN d.token /\ d.accounts[x][n].token = d.token[x]
    <3>1. x # b
      BY <1>3, <1>4, <2>1
    <3>2. d.accounts[x] = c.accounts[x]
      BY <1>3, <1>4, <3>1
    <3>3. x \in DOMAIN c.token /\ c.accounts[x][n].token = c.token[x]
      BY <3>2 DEF Sound, Mirrored
    <3> QED BY <1>2, <1>4, <3>1, <3>2, <3>3
  <2>2. DOMAIN d.token \cap (D \cup {b}) = {}
    BY <1>2, <1>4 DEF Sound, Mirrored
  <2> QED BY <2>1, <2>2 DEF Mirrored
<1>9. /\ DestsLinked(d.accounts, d.dests, D \cup {b})
      /\ RoutesLinked(d.accounts, d.dests, d.routes, D \cup {b})
  BY <1>4, <1>7 DEF Sound, DestsLinked, RoutesLinked
<1>10. ChatsOnce(d)
  BY <1>4, <1>5, ChatsKept DEF TokenOf
<1>11. Sound(d, D \cup {b})
  BY <1>4, <1>8, <1>9, <1>10 DEF Sound
<1>12. AccountsAdvance(c.accounts, d.accounts, D \cup {b})
  BY <1>6 DEF AccountsAdvance
<1>13. RoutesAdvance(c.accounts, c.routes, d.accounts, d.routes)
  <2> SUFFICES ASSUME NEW k \in DOMAIN c.routes
               PROVE  TokensOf(d.accounts, c.routes[k].account) = TokensOf(c.accounts, c.routes[k].account)
    BY <1>4 DEF RoutesAdvance
  <2> DEFINE a == c.routes[k].account
  <2>1. a[1] # b
    OBVIOUS
  <2> HIDE DEF a
  <2>2. TokensOf(d.accounts, a) = TokensOf(c.accounts, a)
    BY <1>5, <1>6, <2>1 DEF TokensOf
  <2> QED BY <2>2 DEF a
<1>14. Advances(c, d, D \cup {b}) /\ RouteSteps(c.routes, d.routes, {})
  BY <1>4, <1>12, <1>13, Still DEF Advances
<1> QED BY <1>4, <1>11, <1>14 DEF Moves

------------------------------------------------------------------------------
(* Destinations and routes *)

\* A destination is added.
LEMMA DestMoves ==
  ASSUME NEW c, NEW D, Sound(c, D), NEW n \in Dests, n \notin DOMAIN c.dests,
         NEW row \in DestRows, Named(c.accounts, D, row.account),
         NEW d, d = DestAdded(c, n, row)
  PROVE  /\ Moves(c, D, d, D, {})
         /\ d.accounts = c.accounts /\ d.routes = c.routes
         /\ d.dests = With(c.dests, n, row) /\ d.dests[n] = row
         /\ DOMAIN d.dests = DOMAIN c.dests \cup {n}
         /\ \A x \in DOMAIN c.dests : d.dests[x] = c.dests[x]
<1> DEFINE table == c.dests
           dests == With(table, n, row)
<1>1. c \in Confs /\ table \in Table(Dests, DestRows)
  BY DEF Sound, Confs
<1>2. n \in Dests /\ row \in DestRows /\ n \notin DOMAIN table
  OBVIOUS
<1> HIDE DEF table
<1>3. /\ dests \in Table(Dests, DestRows) /\ DOMAIN dests = DOMAIN table \cup {n}
      /\ dests[n] = row /\ \A x \in DOMAIN table : dests[x] = table[x]
  <2>1. /\ dests \in Table(Dests, DestRows) /\ DOMAIN dests = DOMAIN table \cup {n}
        /\ dests[n] = row /\ \A x \in DOMAIN table : x # n => dests[x] = table[x]
    <3>1. table \in Table(Dests, DestRows)
      BY <1>1
    <3>2. n \in Dests /\ row \in DestRows
      BY <1>2
    <3>3. dests \in Table(Dests, DestRows)
      BY <3>1, <3>2, WithIn
    <3>4. /\ DOMAIN dests = DOMAIN table \cup {n} /\ dests[n] = row
          /\ \A x \in DOMAIN table : x # n => dests[x] = table[x]
      BY DEF With
    <3> QED BY <3>3, <3>4
  <2> QED BY <1>2, <2>1
<1> HIDE DEF dests
<1>4. /\ d \in Confs /\ d.token = c.token /\ d.accounts = c.accounts
      /\ d.dests = dests /\ d.routes = c.routes /\ d.services = c.services
      /\ d.subs = c.subs /\ d.workloads = c.workloads
  <2>1. d = [c EXCEPT !.dests = dests]
    BY Zenon DEF DestAdded, dests, table
  <2>2. c \in Confs /\ dests \in Table(Dests, DestRows)
    BY <1>1, <1>3
  <2> QED BY <2>1, <2>2, WithDests
<1>5. DestsLinked(d.accounts, d.dests, D)
  BY <1>3, <1>4 DEF Sound, DestsLinked, table
<1>6. RoutesLinked(d.accounts, d.dests, d.routes, D) /\ SubsLinked(d.dests, d.services, d.subs)
  BY <1>3, <1>4 DEF Sound, RoutesLinked, SubsLinked, table
<1>7. ChatsOnce(d)
  BY <1>3, <1>4, ChatsKept DEF TokenOf, table
<1>8. Sound(d, D)
  BY <1>4, <1>5, <1>6, <1>7 DEF Sound
<1>9. RowsAdvance(c.dests, d.dests)
  BY <1>3, <1>4 DEF RowsAdvance, table
<1>10. Advances(c, d, D) /\ RouteSteps(c.routes, d.routes, {})
  BY <1>4, <1>9, Still DEF Advances
<1> QED BY <1>3, <1>4, <1>8, <1>10 DEF Moves, table, dests

\* A route is added, or gets its next revision.
LEMMA RouteMoves ==
  ASSUME NEW c, NEW D, Sound(c, D), NEW k \in RouteKeys, NEW row \in RouteRows,
         Named(c.accounts, D, row.account), row.dest \in DOMAIN c.dests,
         row.rev = IF k \in DOMAIN c.routes THEN c.routes[k].rev + 1 ELSE 1,
         NEW d, d = RouteSaved(c, k, row)
  PROVE  /\ Moves(c, D, d, D, {k})
         /\ d.dests = c.dests /\ DOMAIN d.routes = DOMAIN c.routes \cup {k} /\ d.routes[k] = row
         /\ \A x \in DOMAIN c.routes : x # k => d.routes[x] = c.routes[x]
<1> DEFINE table == c.routes
           routes == With(table, k, row)
<1>1. c \in Confs /\ table \in Table(RouteKeys, RouteRows)
  BY DEF Sound, Confs
<1>2. k \in RouteKeys /\ row \in RouteRows
  OBVIOUS
<1> HIDE DEF table
<1>3. /\ routes \in Table(RouteKeys, RouteRows) /\ DOMAIN routes = DOMAIN table \cup {k}
      /\ routes[k] = row /\ \A x \in DOMAIN table : x # k => routes[x] = table[x]
  <2>1. routes \in Table(RouteKeys, RouteRows)
    BY <1>1, <1>2, WithIn
  <2>2. /\ DOMAIN routes = DOMAIN table \cup {k} /\ routes[k] = row
        /\ \A x \in DOMAIN table : x # k => routes[x] = table[x]
    BY DEF With
  <2> QED BY <2>1, <2>2
<1> HIDE DEF routes
<1>4. /\ d \in Confs /\ d.token = c.token /\ d.accounts = c.accounts
      /\ d.dests = c.dests /\ d.routes = routes /\ d.services = c.services
      /\ d.subs = c.subs /\ d.workloads = c.workloads
  <2>1. d = [c EXCEPT !.routes = routes]
    BY Zenon DEF RouteSaved, routes, table
  <2>2. c \in Confs /\ routes \in Table(RouteKeys, RouteRows)
    BY <1>1, <1>3
  <2> QED BY <2>1, <2>2, WithRoutes
<1>5. RoutesLinked(d.accounts, d.dests, d.routes, D)
  BY <1>3, <1>4 DEF Sound, RoutesLinked, table
<1>6. GrantsLinked(d.routes, d.workloads)
  <2>1. DOMAIN c.routes \subseteq DOMAIN d.routes
    BY <1>3, <1>4 DEF table
  <2> QED BY <1>4, <2>1 DEF Sound, GrantsLinked
<1>7. ChatsOnce(d)
  BY <1>4, ChatsKept DEF TokenOf
<1>8. Sound(d, D)
  BY <1>4, <1>5, <1>6, <1>7 DEF Sound
<1>9. RouteSteps(c.routes, d.routes, {k})
  BY <1>3, <1>4 DEF RouteSteps, table
<1>10. RoutesAdvance(c.accounts, c.routes, d.accounts, d.routes)
  <2> SUFFICES ASSUME NEW x \in DOMAIN c.routes
               PROVE  d.routes[x].rev > c.routes[x].rev \/ d.routes[x] = c.routes[x]
    BY <1>3, <1>4 DEF RoutesAdvance, table
  <2>1. CASE x = k
    <3>1. c.routes[k].rev \in Nat
      BY <1>1, <2>1, ConfFields DEF RouteRows
    <3>2. d.routes[k].rev = c.routes[k].rev + 1
      BY <1>3, <1>4, <2>1
    <3> QED BY <2>1, <3>1, <3>2
  <2>2. CASE x # k
    BY <1>3, <1>4, <2>2 DEF table
  <2> QED BY <2>1, <2>2
<1>11. Advances(c, d, D)
  BY <1>4, <1>10, Still DEF Advances
<1> QED BY <1>3, <1>4, <1>8, <1>9, <1>11 DEF Moves, table

\* A destination moves, and its routes with it.
LEMMA MigratedMoves ==
  ASSUME NEW c, NEW D, Sound(c, D), NEW n \in DOMAIN c.dests,
         NEW draft \in [account : AccountNames, chat : Chats], Named(c.accounts, D, draft.account),
         NEW d, d = Migrated(c, n, draft), AllRecipientsValid(d),
         NEW moved, moved = {k \in DOMAIN c.routes : c.routes[k].dest = n}
  PROVE  /\ Moves(c, D, d, D, moved)
         /\ DOMAIN d.routes = DOMAIN c.routes /\ d.dests[n].account = draft.account
         /\ \A x \in DOMAIN c.dests : x # n => d.dests[x] = c.dests[x]
         /\ \A k \in DOMAIN c.routes : d.routes[k].dest = c.routes[k].dest
         /\ \A k \in moved : d.routes[k].account = draft.account
         /\ \A k \in DOMAIN c.routes \ moved : d.routes[k] = c.routes[k]
<1> DEFINE row == [account |-> draft.account, chat |-> draft.chat, active |-> TRUE,
                   rev |-> c.dests[n].rev + 1]
           dests == [c.dests EXCEPT ![n] = row]
           rebound == [k \in DOMAIN c.routes |-> IF k \in moved
                         THEN [c.routes[k] EXCEPT !.account = draft.account] ELSE c.routes[k]]
           routes == [k \in DOMAIN rebound |->
                        IF k \in moved THEN [rebound[k] EXCEPT !.rev = @ + 1] ELSE rebound[k]]
<1>1. /\ c \in Confs /\ n \in Dests /\ draft.account \in AccountNames /\ draft.chat \in Chats
      /\ c.dests \in [DOMAIN c.dests -> DestRows] /\ DOMAIN c.dests \subseteq Dests
      /\ c.routes \in [DOMAIN c.routes -> RouteRows] /\ DOMAIN c.routes \subseteq RouteKeys
      /\ moved \subseteq DOMAIN c.routes
  <2>1. c \in Confs
    BY DEF Sound
  <2> QED BY <2>1, ConfFields
<1>2. /\ row.rev = c.dests[n].rev + 1 /\ c.dests[n].rev \in Nat /\ row \in DestRows
      /\ row.account = draft.account
  <2>1. c.dests[n].rev \in Nat
    BY <1>1 DEF DestRows
  <2> QED BY <1>1, <2>1 DEF DestRows
<1> HIDE DEF row
<1>3. /\ dests \in Table(Dests, DestRows) /\ DOMAIN dests = DOMAIN c.dests /\ dests[n] = row
      /\ \A x \in DOMAIN c.dests : x # n => dests[x] = c.dests[x]
  <2>1. dests \in [DOMAIN dests -> DestRows] /\ DOMAIN dests \subseteq Dests
    BY <1>1, <1>2
  <2>2. dests \in Table(Dests, DestRows)
    <3> HIDE DEF dests
    <3> QED BY <2>1, InTable
  <2> QED BY <1>1, <2>2
<1> HIDE DEF dests
<1>4. /\ rebound \in Table(RouteKeys, RouteRows) /\ DOMAIN rebound = DOMAIN c.routes
      /\ \A k \in DOMAIN c.routes : rebound[k] \in RouteRows
      /\ \A k \in DOMAIN c.routes : k \notin moved => rebound[k] = c.routes[k]
      /\ \A k \in moved : /\ rebound[k].account = draft.account
                          /\ rebound[k].dest = c.routes[k].dest /\ rebound[k].rev = c.routes[k].rev
  <2>1. ASSUME NEW k \in moved
        PROVE  /\ rebound[k] \in RouteRows /\ rebound[k].account = draft.account
               /\ rebound[k].dest = c.routes[k].dest /\ rebound[k].rev = c.routes[k].rev
    <3>1. k \in DOMAIN c.routes /\ c.routes[k] \in RouteRows
      BY <1>1
    <3>2. rebound[k] = [c.routes[k] EXCEPT !.account = draft.account]
      BY <3>1
    <3> HIDE DEF rebound
    <3> QED BY <1>1, <3>1, <3>2 DEF RouteRows
  <2>2. \A k \in DOMAIN c.routes : k \notin moved => rebound[k] = c.routes[k]
    OBVIOUS
  <2>3. DOMAIN rebound = DOMAIN c.routes /\ rebound = [k \in DOMAIN c.routes |-> rebound[k]]
    OBVIOUS
  <2> HIDE DEF rebound
  <2>4. \A k \in DOMAIN c.routes : rebound[k] \in RouteRows
    BY <1>1, <2>1, <2>2
  <2>5. rebound \in Table(RouteKeys, RouteRows)
    BY <1>1, <2>3, <2>4, InTable
  <2> QED BY <2>1, <2>2, <2>3, <2>4, <2>5
<1> HIDE DEF rebound
<1>5. /\ routes \in Table(RouteKeys, RouteRows) /\ DOMAIN routes = DOMAIN c.routes
      /\ \A k \in DOMAIN c.routes : k \notin moved => routes[k] = c.routes[k]
      /\ \A k \in moved : /\ routes[k].account = draft.account
                          /\ routes[k].dest = c.routes[k].dest /\ routes[k].rev = c.routes[k].rev + 1
  <2>1. ASSUME NEW k \in moved
        PROVE  /\ routes[k] \in RouteRows /\ routes[k].account = draft.account
               /\ routes[k].dest = c.routes[k].dest /\ routes[k].rev = c.routes[k].rev + 1
    <3>1. k \in DOMAIN rebound /\ rebound[k] \in RouteRows
      BY <1>1, <1>4
    <3>2. routes[k] = [rebound[k] EXCEPT !.rev = @ + 1]
      BY <3>1
    <3>3. rebound[k].rev + 1 \in Nat \ {0}
      BY <3>1 DEF RouteRows
    <3>4. routes[k] \in RouteRows /\ routes[k].account = rebound[k].account
          /\ routes[k].dest = rebound[k].dest /\ routes[k].rev = rebound[k].rev + 1
      <4> HIDE DEF routes
      <4> QED BY <3>1, <3>2, <3>3 DEF RouteRows
    <3> QED BY <1>4, <3>4
  <2>2. \A k \in DOMAIN c.routes : k \notin moved => routes[k] = c.routes[k]
    BY <1>4
  <2>3. DOMAIN routes = DOMAIN c.routes /\ routes = [k \in DOMAIN c.routes |-> routes[k]]
    BY <1>4
  <2> HIDE DEF routes
  <2>4. \A k \in DOMAIN c.routes : routes[k] \in RouteRows
    BY <1>1, <2>1, <2>2
  <2>5. routes \in Table(RouteKeys, RouteRows)
    BY <1>1, <2>3, <2>4, InTable
  <2> QED BY <2>1, <2>2, <2>3, <2>5
<1>6. /\ d \in Confs /\ d.token = c.token /\ d.accounts = c.accounts
      /\ d.dests = dests /\ d.routes = routes /\ d.services = c.services
      /\ d.subs = c.subs /\ d.workloads = c.workloads
  <2> HIDE DEF routes
  <2> DEFINE x == [c EXCEPT !.dests = dests]
             y == [x EXCEPT !.routes = rebound]
             z == [y EXCEPT !.routes = routes]
  <2>0. c \in Confs /\ dests \in Table(Dests, DestRows)
    BY <1>1, <1>3
  <2>1. /\ x \in Confs /\ x.token = c.token /\ x.accounts = c.accounts
        /\ x.dests = dests /\ x.routes = c.routes /\ x.services = c.services
        /\ x.subs = c.subs /\ x.workloads = c.workloads
    BY <2>0, WithDests
  <2>2. x = [c EXCEPT !.dests[n] = [account |-> draft.account, chat |-> draft.chat,
                                    active |-> TRUE, rev |-> @.rev + 1]]
    BY DEF dests, row
  <2> HIDE DEF x
  <2>3. x \in Confs /\ rebound \in Table(RouteKeys, RouteRows)
    BY <1>4, <2>1
  <2>4. /\ y \in Confs /\ y.token = x.token /\ y.accounts = x.accounts
        /\ y.dests = x.dests /\ y.routes = rebound /\ y.services = x.services
        /\ y.subs = x.subs /\ y.workloads = x.workloads
    BY <2>3, WithRoutes
  <2>5. y = [x EXCEPT !.routes = [k \in DOMAIN @ |-> IF k \in moved
               THEN [@[k] EXCEPT !.account = draft.account] ELSE @[k]]]
    BY <2>1 DEF rebound
  <2> HIDE DEF y
  <2>6. y \in Confs /\ routes \in Table(RouteKeys, RouteRows)
    BY <1>5, <2>4
  <2>7. /\ z \in Confs /\ z.token = y.token /\ z.accounts = y.accounts
        /\ z.dests = y.dests /\ z.routes = routes /\ z.services = y.services
        /\ z.subs = y.subs /\ z.workloads = y.workloads
    BY <2>6, WithRoutes
  <2>8. z = Bumped(y, moved)
    BY <2>4 DEF Bumped, routes
  <2>9. d = Bumped(y, moved)
    BY <2>2, <2>5 DEF Migrated
  <2> HIDE DEF z
  <2> QED BY <2>1, <2>4, <2>7, <2>8, <2>9
<1> HIDE DEF routes
<1>7. DestsLinked(d.accounts, d.dests, D)
  <2>1. \A x \in DOMAIN c.dests : Named(c.accounts, D, c.dests[x].account)
    BY DEF Sound, DestsLinked
  <2> QED BY <1>2, <1>3, <1>6, <2>1 DEF DestsLinked
<1>8. RoutesLinked(d.accounts, d.dests, d.routes, D)
  <2>1. \A k \in DOMAIN c.routes : Named(c.accounts, D, c.routes[k].account) /\ c.routes[k].dest \in DOMAIN c.dests
    BY DEF Sound, RoutesLinked
  <2> QED BY <1>3, <1>5, <1>6, <2>1 DEF RoutesLinked
<1>9. SubsLinked(d.dests, d.services, d.subs) /\ GrantsLinked(d.routes, d.workloads)
  BY <1>3, <1>5, <1>6 DEF Sound, SubsLinked, GrantsLinked
<1>10. ChatsOnce(d)
  BY DEF ChatsOnce, AllRecipientsValid, RecipientsValid
<1>11. Sound(d, D)
  BY <1>6, <1>7, <1>8, <1>9, <1>10 DEF Sound
<1>12. RowsAdvance(c.dests, d.dests)
  BY <1>2, <1>3, <1>6 DEF RowsAdvance
<1>13. RoutesAdvance(c.accounts, c.routes, d.accounts, d.routes)
  <2>1. \A k \in DOMAIN c.routes : c.routes[k].rev \in Nat
    BY <1>1 DEF RouteRows
  <2>2. \A k \in DOMAIN c.routes : d.routes[k].rev > c.routes[k].rev \/ d.routes[k] = c.routes[k]
    BY <1>5, <1>6, <2>1
  <2> QED BY <1>5, <1>6, <2>2 DEF RoutesAdvance
<1>14. RouteSteps(c.routes, d.routes, moved)
  BY <1>1, <1>5, <1>6 DEF RouteSteps
<1>15. Advances(c, d, D)
  BY <1>6, <1>12, <1>13, Still DEF Advances
<1> QED BY <1>2, <1>3, <1>5, <1>6, <1>11, <1>14, <1>15 DEF Moves

------------------------------------------------------------------------------
(* Services and workloads *)

\* The recipients of the other services stay.
LEMMA OthersReached ==
  ASSUME NEW c, NEW d, NEW s, Distinct(Recipients(c, s)),
         d.subs[s] = c.subs[s], d.dests = c.dests, d.accounts = c.accounts
  PROVE  Distinct(Recipients(d, s))
<1>1. ActiveSubs(d, s) = ActiveSubs(c, s) /\ AccountIds(d) = AccountIds(c)
  BY DEF ActiveSubs, AccountIds
<1>2. \A i : Goes(d, s, i) = Goes(c, s, i)
  BY DEF Goes
<1>3. \A a : TokenOf(d, a) = TokenOf(c, a)
  BY DEF TokenOf
<1>4. ASSUME NEW i \in ActiveSubs(d, s), Goes(d, s, i).account \in AccountIds(d)
      PROVE  /\ i \in ActiveSubs(c, s) /\ Goes(c, s, i).account \in AccountIds(c)
             /\ Goes(d, s, i).account = Goes(c, s, i).account
             /\ Goes(d, s, i).chat = Goes(c, s, i).chat
             /\ TokenOf(d, Goes(d, s, i).account) = TokenOf(c, Goes(c, s, i).account)
  BY <1>1, <1>2, <1>3, <1>4
<1> QED BY <1>4, Fewer

\* The tables after the subscriptions of one service, or all, were saved.
Saved(c, services, subs) == [c EXCEPT !.services = services, !.subs = subs]

\* What saving the services and their subscriptions changes.
LEMMA SavedIs ==
  ASSUME NEW c \in Confs, NEW services \in Table(Services, Nat), NEW subs \in Subs,
         NEW d, d = Saved(c, services, subs)
  PROVE  /\ d \in Confs /\ d.token = c.token /\ d.accounts = c.accounts
         /\ d.dests = c.dests /\ d.routes = c.routes /\ d.services = services
         /\ d.subs = subs /\ d.workloads = c.workloads
<1> DEFINE x == [c EXCEPT !.services = services]
<1>1. /\ x \in Confs /\ x.token = c.token /\ x.accounts = c.accounts
      /\ x.dests = c.dests /\ x.routes = c.routes /\ x.services = services
      /\ x.subs = c.subs /\ x.workloads = c.workloads
  BY WithServices
<1>2. d = [x EXCEPT !.subs = subs]
  BY DEF Saved
<1> HIDE DEF x
<1>3. /\ d \in Confs /\ d.token = x.token /\ d.accounts = x.accounts
      /\ d.dests = x.dests /\ d.routes = x.routes /\ d.services = x.services
      /\ d.subs = subs /\ d.workloads = x.workloads
  BY <1>1, <1>2, WithSubs
<1> QED BY <1>1, <1>3

\* A service that exists gets other subscriptions.
LEMMA SubsMoves ==
  ASSUME NEW c, NEW D, Sound(c, D), NEW s \in DOMAIN c.services, NEW rows \in Seq(SubRows),
         \A i \in DOMAIN rows : rows[i].dest \in DOMAIN c.dests,
         NEW d, d = Saved(c, [c.services EXCEPT ![s] = @ + 1], [c.subs EXCEPT ![s] = rows]),
         Distinct(Recipients(d, s))
  PROVE  Moves(c, D, d, D, {}) /\ d.dests = c.dests /\ d.routes = c.routes
<1> DEFINE services == [c.services EXCEPT ![s] = @ + 1]
           subs == [c.subs EXCEPT ![s] = rows]
<1>1. /\ c \in Confs /\ s \in Services /\ c.subs \in Subs /\ c.services[s] \in Nat
      /\ c.services \in [DOMAIN c.services -> Nat] /\ DOMAIN c.services \subseteq Services
  <2>1. c \in Confs
    BY DEF Sound
  <2> QED BY <2>1, ConfFields
<1>2. /\ services \in Table(Services, Nat) /\ DOMAIN services = DOMAIN c.services
      /\ services[s] = c.services[s] + 1 /\ \A x \in DOMAIN c.services : x # s => services[x] = c.services[x]
  <2>1. services \in [DOMAIN services -> Nat] /\ DOMAIN services \subseteq Services
    BY <1>1
  <2>2. services \in Table(Services, Nat)
    <3> HIDE DEF services
    <3> QED BY <2>1, InTable
  <2> QED BY <1>1, <2>2
<1>3. subs \in Subs /\ subs[s] = rows /\ \A x \in Services : x # s => subs[x] = c.subs[x]
  BY <1>1 DEF Subs
<1> HIDE DEF services, subs
<1>4. /\ d \in Confs /\ d.token = c.token /\ d.accounts = c.accounts
      /\ d.dests = c.dests /\ d.routes = c.routes /\ d.services = services
      /\ d.subs = subs /\ d.workloads = c.workloads
  <2>1. services \in Table(Services, Nat) /\ subs \in Subs /\ d = Saved(c, services, subs) /\ c \in Confs
    BY <1>1, <1>2, <1>3 DEF services, subs
  <2> QED BY <2>1, SavedIs
<1>5. SubsLinked(d.dests, d.services, d.subs)
  <2> SUFFICES ASSUME NEW x \in Services, NEW i \in DOMAIN d.subs[x]
               PROVE  d.subs[x][i].dest \in DOMAIN d.dests /\ x \in DOMAIN d.services
    BY DEF SubsLinked
  <2>1. CASE x = s
    BY <1>2, <1>3, <1>4, <2>1
  <2>2. CASE x # s
    BY <1>2, <1>3, <1>4, <2>2 DEF Sound, SubsLinked
  <2> QED BY <2>1, <2>2
<1>6. ChatsOnce(d)
  <2> SUFFICES ASSUME NEW x \in Services, x # s PROVE Distinct(Recipients(d, x))
    BY DEF ChatsOnce
  <2>1. Distinct(Recipients(c, x)) /\ d.subs[x] = c.subs[x]
    BY <1>3, <1>4 DEF Sound, ChatsOnce
  <2> QED BY <1>4, <2>1, OthersReached
<1>7. Sound(d, D)
  BY <1>4, <1>5, <1>6 DEF Sound
<1>8. ServicesAdvance(c.services, c.subs, d.services, d.subs)
  <2> SUFFICES ASSUME NEW x \in DOMAIN c.services
               PROVE  \/ d.services[x] > c.services[x]
                      \/ d.services[x] = c.services[x] /\ d.subs[x] = c.subs[x]
    BY <1>2, <1>4 DEF ServicesAdvance
  <2>1. CASE x = s
    BY <1>1, <1>2, <1>4, <2>1
  <2>2. CASE x # s
    BY <1>1, <1>2, <1>3, <1>4, <2>2
  <2> QED BY <2>1, <2>2
<1>9. Advances(c, d, D) /\ RouteSteps(c.routes, d.routes, {})
  BY <1>4, <1>8, Still DEF Advances
<1> QED BY <1>4, <1>7, <1>9 DEF Moves

\* Services appear, with or without subscriptions.
LEMMA ServicesMove ==
  ASSUME NEW c, NEW D, Sound(c, D), NEW new \in SUBSET Services, new \cap DOMAIN c.services = {},
         NEW subs \in Subs, \A x \in Services \ new : subs[x] = c.subs[x],
         \A x \in new : \A i \in DOMAIN subs[x] : subs[x][i].dest \in DOMAIN c.dests,
         NEW d, d = Saved(c, [s \in DOMAIN c.services \cup new |-> IF s \in new THEN 1 ELSE c.services[s]], subs),
         \A x \in new : Distinct(Recipients(d, x))
  PROVE  /\ Moves(c, D, d, D, {}) /\ d.dests = c.dests /\ d.routes = c.routes
         /\ DOMAIN d.services = DOMAIN c.services \cup new
<1> DEFINE services == [s \in DOMAIN c.services \cup new |-> IF s \in new THEN 1 ELSE c.services[s]]
<1>1. /\ c \in Confs /\ c.services \in [DOMAIN c.services -> Nat] /\ DOMAIN c.services \subseteq Services
  <2>1. c \in Confs
    BY DEF Sound
  <2> QED BY <2>1, ConfFields
<1>2. /\ services \in Table(Services, Nat) /\ DOMAIN services = DOMAIN c.services \cup new
      /\ \A x \in DOMAIN c.services : services[x] = c.services[x]
  <2>1. services \in [DOMAIN services -> Nat] /\ DOMAIN services \subseteq Services
    BY <1>1
  <2>2. services \in Table(Services, Nat)
    <3> HIDE DEF services
    <3> QED BY <2>1, InTable
  <2> QED BY <1>1, <2>2
<1> HIDE DEF services
<1>3. /\ d \in Confs /\ d.token = c.token /\ d.accounts = c.accounts
      /\ d.dests = c.dests /\ d.routes = c.routes /\ d.services = services
      /\ d.subs = subs /\ d.workloads = c.workloads
  <2>1. services \in Table(Services, Nat) /\ d = Saved(c, services, subs) /\ c \in Confs
    BY <1>1, <1>2 DEF services
  <2> QED BY <2>1, SavedIs
<1>4. SubsLinked(d.dests, d.services, d.subs)
  <2> SUFFICES ASSUME NEW x \in Services, NEW i \in DOMAIN d.subs[x]
               PROVE  d.subs[x][i].dest \in DOMAIN d.dests /\ x \in DOMAIN d.services
    BY DEF SubsLinked
  <2>1. CASE x \in new
    BY <1>2, <1>3, <2>1
  <2>2. CASE x \notin new
    BY <1>2, <1>3, <2>2 DEF Sound, SubsLinked
  <2> QED BY <2>1, <2>2
<1>5. ChatsOnce(d)
  <2> SUFFICES ASSUME NEW x \in Services, x \notin new PROVE Distinct(Recipients(d, x))
    BY DEF ChatsOnce
  <2>1. Distinct(Recipients(c, x)) /\ d.subs[x] = c.subs[x]
    BY <1>3 DEF Sound, ChatsOnce
  <2> QED BY <1>3, <2>1, OthersReached
<1>6. Sound(d, D)
  BY <1>3, <1>4, <1>5 DEF Sound
<1>7. ServicesAdvance(c.services, c.subs, d.services, d.subs)
  BY <1>1, <1>2, <1>3 DEF ServicesAdvance
<1>8. Advances(c, d, D) /\ RouteSteps(c.routes, d.routes, {})
  BY <1>3, <1>7, Still DEF Advances
<1> QED BY <1>2, <1>3, <1>6, <1>8 DEF Moves

\* Workloads appear or are revised, and are granted only routes there are.
LEMMA WorkloadsMove ==
  ASSUME NEW c, NEW D, Sound(c, D), NEW table \in Table(Workloads, WorkloadRows),
         RowsAdvance(c.workloads, table), GrantsLinked(c.routes, table),
         NEW d, d = [c EXCEPT !.workloads = table]
  PROVE  Moves(c, D, d, D, {}) /\ d.dests = c.dests /\ d.routes = c.routes
<1>1. /\ d \in Confs /\ d.token = c.token /\ d.accounts = c.accounts
      /\ d.dests = c.dests /\ d.routes = c.routes /\ d.services = c.services
      /\ d.subs = c.subs /\ d.workloads = table
  <2>1. c \in Confs /\ table \in Table(Workloads, WorkloadRows)
    BY DEF Sound
  <2> QED BY <2>1, WithWorkloads
<1>2. ChatsOnce(d)
  BY <1>1, ChatsKept DEF TokenOf
<1>3. Sound(d, D)
  BY <1>1, <1>2 DEF Sound
<1>4. Advances(c, d, D) /\ RouteSteps(c.routes, d.routes, {})
  BY <1>1, Still DEF Advances
<1> QED BY <1>1, <1>3, <1>4 DEF Moves

------------------------------------------------------------------------------
(* Restoring *)

\* A set of numbers up to a bound that is not empty has a greatest one.
LEMMA GreatestIn ==
  ASSUME NEW n \in Nat, NEW S \in SUBSET (0 .. n), S # {}
  PROVE  Max(S) \in S /\ \A y \in S : y <= Max(S)
<1> DEFINE T == {n - y : y \in S}
<1>1. \A y \in S : y \in Nat /\ n - y \in Nat
  <2>1. \A y \in 0 .. n : y \in Nat /\ n - y \in Nat
    OBVIOUS
  <2> QED BY <2>1
<1>2. T \in SUBSET Nat /\ T # {}
  BY <1>1
<1>3. PICK z \in T : \A y \in T : <<y, z>> \notin OpToRel(<, Nat)
  <2> HIDE DEF T
  <2> QED BY <1>2, WFMin, NatLessThanWellFounded
<1>4. PICK x \in S : z = n - x
  BY <1>3
<1>5. \A y \in S : y <= x
  <2>1. TAKE y \in S
  <2>2. n - y \in T /\ n - x \in T
    OBVIOUS
  <2>3. ~(n - y < n - x)
    BY <1>1, <1>3, <1>4, <2>2 DEF OpToRel
  <2>4. x \in Nat /\ y \in Nat
    BY <1>1
  <2> HIDE DEF T
  <2> QED BY <2>3, <2>4
<1>6. \E m \in S : \A y \in S : m >= y
  <2>1. \A y \in S : x >= y
    BY <1>1, <1>5
  <2> QED BY <2>1
<1>7. Max(S) \in S /\ \A y \in S : Max(S) >= y
  BY <1>6 DEF Max
<1> QED BY <1>1, <1>7

\* A reference of a snapshot leads to the row that has it.
LEMMA ByRefIs ==
  ASSUME NEW rows, NEW n \in Refs(rows)
  PROVE  ByRef(rows, n) \in rows /\ ByRef(rows, n).ref = n
BY DEF ByRef, Refs

\* The accounts a restore makes are those it gives to destinations.
LEMMA RanksFit ==
  ASSUME NEW s \in Snapshots, IsFiniteSet(s.dests), NEW b \in Bots
  PROVE  /\ AccountsNeeded(s, b) \in Nat \ {0}
         /\ \A x \in s.dests : x.bot = b => Rank(s, x) \in 1 .. AccountsNeeded(s, b)
<1> DEFINE size == Cardinality(s.dests)
           ranks == {Rank(s, x) : x \in {y \in s.dests : y.bot = b}}
<1>1. size \in Nat
  BY FS_CardinalityType
<1>2. ASSUME NEW x \in s.dests PROVE Rank(s, x) \in 1 .. size
  <2> DEFINE T == {y \in s.dests : y.bot = x.bot /\ y.chat = x.chat /\ y.ref <= x.ref}
  <2>1. T \in SUBSET s.dests
    OBVIOUS
  <2>2. x \in T
    <3>1. x.ref \in Nat
      BY ConfigurationAssumption DEF Snapshots
    <3> QED BY <3>1
  <2>3. Rank(s, x) = Cardinality(T)
    BY DEF Rank
  <2> HIDE DEF T
  <2>4. IsFiniteSet(T) /\ Cardinality(T) <= size
    BY <2>1, FS_Subset
  <2>5. Cardinality(T) \in Nat
    BY <2>4, FS_CardinalityType
  <2>6. Cardinality(T) # 0
    BY <2>2, <2>4, FS_EmptySet
  <2> HIDE DEF size
  <2> QED BY <1>1, <2>3, <2>4, <2>5, <2>6
<1> HIDE DEF size
<1> DEFINE S == {1} \cup ranks
<1>3. S \in SUBSET (0 .. size + 1) /\ S # {} /\ size + 1 \in Nat /\ 1 \in S
  <2>1. \A r \in ranks : r \in 1 .. size
    BY <1>2
  <2> HIDE DEF ranks
  <2> QED BY <1>1, <2>1
<1>4. AccountsNeeded(s, b) = Max(S)
  BY DEF AccountsNeeded
<1>5. Max(S) \in S /\ \A y \in S : y <= Max(S)
  <2> HIDE DEF S
  <2> QED BY <1>3, GreatestIn
<1>6. \A x \in s.dests : x.bot = b => Rank(s, x) \in S
  OBVIOUS
<1> HIDE DEF S, ranks
<1>7. Max(S) \in Nat /\ 1 <= Max(S)
  <2>1. 1 <= Max(S)
    BY <1>3, <1>5
  <2>2. Max(S) \in 0 .. size + 1
    BY <1>3, <1>5
  <2> QED BY <1>3, <2>1, <2>2
<1>8. ASSUME NEW x \in s.dests, x.bot = b PROVE Rank(s, x) \in 1 .. Max(S)
  <2>1. Rank(s, x) \in S /\ Rank(s, x) \in 1 .. size
    BY <1>2, <1>6, <1>8
  <2> QED BY <1>1, <1>5, <1>7, <2>1
<1> QED BY <1>4, <1>7, <1>8

\* A valid snapshot restored into no configuration.
LEMMA RestoredMoves ==
  ASSUME ConfigurationAssumption, NEW D, NEW s \in Snapshots,
         IsFiniteSet(s.dests), \A n \in Services : IsFiniteSet(SubsOf(s, n)),
         \A n \in Services : Refs(SubsOf(s, n)) = 1 .. Cardinality(SubsOf(s, n)),
         Valid(s), Refs(s.bots) \cap D = {}, NEW d, d = Restored(s)
  PROVE  /\ Moves(EmptyConf, D, d, D, {r.key : r \in s.routes})
         /\ \A u : Rebound(d.dests, d.routes, u)
<1> DEFINE keys == {r.key : r \in s.routes}
           token == [b \in Refs(s.bots) |-> ByRef(s.bots, b).token]
           services == [n \in s.services |-> 1]
<1>1. /\ s.bots \subseteq [ref : Bots, token : Tokens]
      /\ s.dests \subseteq [ref : Dests, bot : Bots \cup {0}, chat : Chats, active : BOOLEAN]
      /\ s.routes \subseteq [key : RouteKeys, bot : Bots \cup {0}, dest : Dests \cup {0},
                             inbound : BOOLEAN, enabled : BOOLEAN]
      /\ s.workloads \subseteq [name : Workloads, active : BOOLEAN, publish : BOOLEAN,
                                grants : SUBSET RouteKeys, credentials : Nat]
      /\ s.services \subseteq Services
      /\ s.subs \subseteq [service : Services, ref : Nat, dest : Dests, active : BOOLEAN]
  BY DEF Snapshots
<1>2. /\ d.token = token /\ d.accounts = RestoredAccounts(s)
      /\ d.dests = RestoredDests(s) /\ d.routes = RestoredRoutes(s)
      /\ d.services = services /\ d.subs = RestoredSubs(s)
      /\ d.workloads = RestoredWorkloads(s)
  BY DEF Restored
<1>3. Refs(s.bots) \subseteq Bots /\ Refs(s.dests) \subseteq Dests
  BY <1>1 DEF Refs
<1>4. /\ token \in Table(Bots, Tokens) /\ DOMAIN token = Refs(s.bots)
      /\ \A b \in Refs(s.bots) : token[b] = ByRef(s.bots, b).token /\ token[b] \in Tokens
  <2>1. \A b \in Refs(s.bots) : ByRef(s.bots, b).token \in Tokens
    BY <1>1, ByRefIs
  <2>2. token \in [DOMAIN token -> Tokens] /\ DOMAIN token \subseteq Bots
    BY <1>3, <2>1
  <2>3. token \in Table(Bots, Tokens)
    <3> HIDE DEF token
    <3> QED BY <2>2, InTable
  <2> QED BY <2>1, <2>3
<1>5. /\ RestoredAccounts(s) \in Accounts
      /\ \A b \in Refs(s.bots) : /\ DOMAIN RestoredAccounts(s)[b] = 1 .. AccountsNeeded(s, b)
                                 /\ \A n \in DOMAIN RestoredAccounts(s)[b] :
                                      RestoredAccounts(s)[b][n].token = token[b]
      /\ \A b \in Bots \ Refs(s.bots) : DOMAIN RestoredAccounts(s)[b] = {}
  <2>1. ASSUME NEW b \in Refs(s.bots)
        PROVE  /\ RestoredAccounts(s)[b] \in Seq(AccountRows)
               /\ DOMAIN RestoredAccounts(s)[b] = 1 .. AccountsNeeded(s, b)
               /\ \A n \in DOMAIN RestoredAccounts(s)[b] :
                    RestoredAccounts(s)[b][n].token = token[b]
    <3> DEFINE m == AccountsNeeded(s, b)
               row == [rev |-> 1, token |-> token[b]]
               rows == [n \in 1 .. m |-> row]
    <3>1. b \in Bots /\ m \in Nat
      BY <1>3, RanksFit
    <3>2. RestoredAccounts(s)[b] = rows
      BY <1>4, <3>1 DEF RestoredAccounts
    <3>3. row \in AccountRows /\ row.token = token[b]
      BY <1>4 DEF AccountRows
    <3> HIDE DEF row, m
    <3>4. rows \in Seq(AccountRows) /\ DOMAIN rows = 1 .. m /\ \A n \in 1 .. m : rows[n] = row
      BY <3>1, <3>3
    <3> HIDE DEF rows, token
    <3>5. \A n \in DOMAIN rows : rows[n].token = token[b]
      BY <3>3, <3>4
    <3> QED BY <3>2, <3>4, <3>5 DEF m
  <2>2. ASSUME NEW b \in Bots \ Refs(s.bots)
        PROVE  RestoredAccounts(s)[b] \in Seq(AccountRows) /\ DOMAIN RestoredAccounts(s)[b] = {}
    <3>1. RestoredAccounts(s)[b] = <<>>
      BY <2>2 DEF RestoredAccounts
    <3>2. ASSUME NEW x, x = <<>> PROVE x \in Seq(AccountRows) /\ DOMAIN x = {}
      BY <3>2
    <3> QED BY <3>1, <3>2
  <2>3. RestoredAccounts(s) = [b \in Bots |-> RestoredAccounts(s)[b]]
    BY DEF RestoredAccounts
  <2>4. \A b \in Bots : RestoredAccounts(s)[b] \in Seq(AccountRows)
    BY <2>1, <2>2
  <2> QED BY <2>1, <2>2, <2>3, <2>4 DEF Accounts
<1>6. /\ RestoredDests(s) \in Table(Dests, DestRows) /\ DOMAIN RestoredDests(s) = Refs(s.dests)
      /\ \A n \in Refs(s.dests) :
           LET row == ByRef(s.dests, n) IN
           /\ row.bot \in Refs(s.bots) /\ RestoredDests(s)[n].chat = row.chat
           /\ RestoredDests(s)[n].account = <<row.bot, Rank(s, row)>>
           /\ Rank(s, row) \in 1 .. AccountsNeeded(s, row.bot)
  <2>1. ASSUME NEW n \in Refs(s.dests)
        PROVE  LET row == ByRef(s.dests, n) IN
               /\ row.bot \in Refs(s.bots) /\ RestoredDests(s)[n].chat = row.chat
               /\ RestoredDests(s)[n].account = <<row.bot, Rank(s, row)>>
               /\ Rank(s, row) \in 1 .. AccountsNeeded(s, row.bot)
               /\ RestoredDests(s)[n] \in DestRows
    <3> DEFINE row == ByRef(s.dests, n)
    <3>1. row \in s.dests
      BY ByRefIs
    <3>2. RestoredDests(s)[n] = [account |-> <<row.bot, Rank(s, row)>>, chat |-> row.chat,
                                 active |-> row.active, rev |-> 1]
      BY DEF RestoredDests
    <3> HIDE DEF row
    <3>3. row.bot \in Refs(s.bots)
      BY <3>1 DEF Valid, ValidDests
    <3>4. row.bot \in Bots
      BY <1>3, <3>3
    <3>5. Rank(s, row) \in 1 .. AccountsNeeded(s, row.bot) /\ AccountsNeeded(s, row.bot) \in Nat
      BY <3>1, <3>4, RanksFit
    <3>6. <<row.bot, Rank(s, row)>> \in AccountNames
      BY <3>4, <3>5 DEF AccountNames
    <3>7. row.chat \in Chats /\ row.active \in BOOLEAN
      BY <1>1, <3>1
    <3>8. RestoredDests(s)[n] \in DestRows
      BY <3>2, <3>6, <3>7 DEF DestRows
    <3> QED BY <3>2, <3>3, <3>5, <3>8 DEF row
  <2>2. DOMAIN RestoredDests(s) = Refs(s.dests)
        /\ RestoredDests(s) = [n \in Refs(s.dests) |-> RestoredDests(s)[n]]
    BY DEF RestoredDests
  <2>3. \A n \in Refs(s.dests) : RestoredDests(s)[n] \in DestRows
    BY <2>1
  <2>4. RestoredDests(s) \in [DOMAIN RestoredDests(s) -> DestRows]
    BY <2>2, <2>3
  <2>5. RestoredDests(s) \in Table(Dests, DestRows)
    BY <1>3, <2>2, <2>4, InTable
  <2> QED BY <2>1, <2>2, <2>5
<1>7. /\ RestoredRoutes(s) \in Table(RouteKeys, RouteRows) /\ DOMAIN RestoredRoutes(s) = keys
      /\ \A k \in keys : LET r == RestoredRoutes(s)[k] IN
           r.rev = 1 /\ r.dest \in Refs(s.dests) /\ r.account = RestoredDests(s)[r.dest].account
  <2>1. ASSUME NEW k \in keys
        PROVE  LET r == RestoredRoutes(s)[k] IN
               /\ r \in RouteRows /\ r.rev = 1 /\ r.dest \in Refs(s.dests)
               /\ r.account = RestoredDests(s)[r.dest].account
    <3> DEFINE row == CHOOSE r \in s.routes : r.key = k
    <3>1. row \in s.routes
      OBVIOUS
    <3>2. RestoredRoutes(s)[k] = [account |-> RestoredDests(s)[row.dest].account, dest |-> row.dest,
                                  inbound |-> row.inbound, enabled |-> row.enabled, rev |-> 1]
      BY DEF RestoredRoutes
    <3> HIDE DEF row
    <3>3. row.dest \in Refs(s.dests)
      BY <3>1 DEF Valid, ValidRoutes
    <3>4. row.dest \in Dests /\ row.inbound \in BOOLEAN /\ row.enabled \in BOOLEAN
      BY <1>1, <1>3, <3>1, <3>3
    <3>5. RestoredDests(s)[row.dest].account \in AccountNames
      <4>1. RestoredDests(s) \in [DOMAIN RestoredDests(s) -> DestRows]
        BY <1>6, InTable
      <4>2. RestoredDests(s)[row.dest] \in DestRows
        BY <1>6, <3>3, <4>1
      <4> QED BY <4>2 DEF DestRows
    <3>6. RestoredRoutes(s)[k] \in RouteRows
      BY <3>2, <3>4, <3>5 DEF RouteRows
    <3> QED BY <3>2, <3>3, <3>6
  <2>2. DOMAIN RestoredRoutes(s) = keys /\ RestoredRoutes(s) = [k \in keys |-> RestoredRoutes(s)[k]]
    BY DEF RestoredRoutes
  <2>3. keys \subseteq RouteKeys
    BY <1>1
  <2> HIDE DEF keys
  <2>4. \A k \in keys : RestoredRoutes(s)[k] \in RouteRows
    BY <2>1
  <2>5. RestoredRoutes(s) \in [DOMAIN RestoredRoutes(s) -> RouteRows]
    BY <2>2, <2>4
  <2>6. RestoredRoutes(s) \in Table(RouteKeys, RouteRows)
    BY <2>2, <2>3, <2>5, InTable
  <2> QED BY <2>1, <2>2, <2>6
<1>8. services \in Table(Services, Nat) /\ DOMAIN services = s.services
  <2>1. services \in [DOMAIN services -> Nat] /\ DOMAIN services = s.services
    OBVIOUS
  <2>2. services \in Table(Services, Nat)
    <3> HIDE DEF services
    <3> QED BY <1>1, <2>1, InTable
  <2> QED BY <2>1, <2>2
<1>9. /\ RestoredSubs(s) \in Subs
      /\ \A n \in Services : \A i \in DOMAIN RestoredSubs(s)[n] :
           LET row == ByRef(SubsOf(s, n), i) IN
           /\ row \in s.subs /\ row.service = n /\ row.ref = i
           /\ RestoredSubs(s)[n][i].dest = row.dest /\ RestoredSubs(s)[n][i].active = row.active
  <2>1. ASSUME NEW n \in Services
        PROVE  /\ RestoredSubs(s)[n] \in Seq(SubRows)
               /\ \A i \in DOMAIN RestoredSubs(s)[n] :
                    LET row == ByRef(SubsOf(s, n), i) IN
                    /\ row \in s.subs /\ row.service = n /\ row.ref = i
                    /\ RestoredSubs(s)[n][i].dest = row.dest /\ RestoredSubs(s)[n][i].active = row.active
    <3> DEFINE rows == SubsOf(s, n)
               m == Cardinality(rows)
    <3>1. m \in Nat
      BY FS_CardinalityType
    <3>2. Refs(rows) = 1 .. m
      OBVIOUS
    <3>3. RestoredSubs(s)[n] = [i \in 1 .. m |-> [dest |-> ByRef(rows, i).dest, active |-> ByRef(rows, i).active]]
      BY DEF RestoredSubs
    <3>4. \A p \in rows : p \in s.subs /\ p.service = n
      BY DEF SubsOf
    <3> HIDE DEF rows, m
    <3>5. ASSUME NEW i \in 1 .. m
          PROVE  /\ ByRef(rows, i) \in s.subs /\ ByRef(rows, i).service = n /\ ByRef(rows, i).ref = i
                 /\ [dest |-> ByRef(rows, i).dest, active |-> ByRef(rows, i).active] \in SubRows
      <4>1. ByRef(rows, i) \in rows /\ ByRef(rows, i).ref = i
        BY <3>2, ByRefIs
      <4>2. ByRef(rows, i) \in s.subs /\ ByRef(rows, i).service = n
        BY <3>4, <4>1
      <4> QED BY <1>1, <4>1, <4>2 DEF SubRows
    <3>6. RestoredSubs(s)[n] \in Seq(SubRows) /\ DOMAIN RestoredSubs(s)[n] = 1 .. m
      BY <3>1, <3>3, <3>5
    <3> QED BY <3>3, <3>5, <3>6 DEF rows
  <2>2. RestoredSubs(s) = [n \in Services |-> RestoredSubs(s)[n]]
    BY DEF RestoredSubs
  <2>3. \A n \in Services : RestoredSubs(s)[n] \in Seq(SubRows)
    BY <2>1
  <2> QED BY <2>1, <2>2, <2>3 DEF Subs
<1>10. /\ RestoredWorkloads(s) \in Table(Workloads, WorkloadRows)
       /\ \A w \in DOMAIN RestoredWorkloads(s) : RestoredWorkloads(s)[w].grants \subseteq keys
  <2> DEFINE names == {x.name : x \in s.workloads}
  <2>1. ASSUME NEW w \in names
        PROVE  RestoredWorkloads(s)[w] \in WorkloadRows /\ RestoredWorkloads(s)[w].grants \subseteq keys
    <3> DEFINE row == CHOOSE x \in s.workloads : x.name = w
    <3>1. row \in s.workloads
      OBVIOUS
    <3>2. RestoredWorkloads(s)[w] = [rev |-> 1, active |-> row.active, publish |-> row.publish,
                                     grants |-> row.grants, credentials |-> row.credentials]
      BY DEF RestoredWorkloads
    <3> HIDE DEF row
    <3>3. row.grants \subseteq keys
      BY <3>1 DEF Valid, ValidNotifications
    <3> HIDE DEF keys
    <3> QED BY <1>1, <3>1, <3>2, <3>3 DEF WorkloadRows
  <2>2. DOMAIN RestoredWorkloads(s) = names
        /\ RestoredWorkloads(s) = [w \in names |-> RestoredWorkloads(s)[w]]
    BY DEF RestoredWorkloads
  <2>3. names \subseteq Workloads
    BY <1>1
  <2> HIDE DEF names, keys
  <2>4. RestoredWorkloads(s) \in [DOMAIN RestoredWorkloads(s) -> WorkloadRows]
    BY <2>1, <2>2
  <2>5. RestoredWorkloads(s) \in Table(Workloads, WorkloadRows)
    BY <2>2, <2>3, <2>4, InTable
  <2> QED BY <2>1, <2>2, <2>5
<1> HIDE DEF token, services, keys
<1>11. d \in Confs
  BY <1>4, <1>5, <1>6, <1>7, <1>8, <1>9, <1>10 DEF Restored, Confs, token, services
<1>12. ASSUME NEW n \in Refs(s.dests)
       PROVE  LET row == ByRef(s.dests, n)
                  a == RestoredDests(s)[n].account IN
              /\ a \in Ids(d.accounts) /\ a[1] = row.bot /\ row.bot \in Refs(s.bots)
              /\ d.accounts[a[1]][a[2]].token = ByRef(s.bots, row.bot).token
  <2> DEFINE row == ByRef(s.dests, n)
             a == RestoredDests(s)[n].account
  <2>1. /\ row.bot \in Refs(s.bots) /\ a = <<row.bot, Rank(s, row)>>
        /\ Rank(s, row) \in 1 .. AccountsNeeded(s, row.bot)
    BY <1>6
  <2>2. row.bot \in Bots /\ AccountsNeeded(s, row.bot) \in Nat
    BY <1>3, <2>1, RanksFit
  <2> HIDE DEF row
  <2>3. a \in AccountNames /\ a[1] = row.bot /\ a[2] = Rank(s, row)
    BY <2>1, <2>2 DEF AccountNames
  <2> HIDE DEF a
  <2>4. a[2] \in DOMAIN d.accounts[a[1]]
    BY <1>2, <1>5, <2>1, <2>3
  <2>5. a \in Ids(d.accounts)
    BY <1>2, <1>5, <2>3, <2>4, InIds
  <2>6. d.accounts[a[1]][a[2]].token = ByRef(s.bots, row.bot).token
    BY <1>2, <1>4, <1>5, <2>1, <2>3, <2>4
  <2> QED BY <2>1, <2>3, <2>5, <2>6 DEF a, row
<1>13. Mirrored(d.token, d.accounts, D)
  <2>1. DOMAIN d.token \cap D = {}
    BY <1>2, <1>4
  <2>2. ASSUME NEW b \in Bots, NEW n \in DOMAIN d.accounts[b]
        PROVE  b \in DOMAIN d.token /\ d.accounts[b][n].token = d.token[b]
    <3>1. b \in Refs(s.bots)
      BY <1>2, <1>5, <2>2
    <3> QED BY <1>2, <1>4, <1>5, <3>1
  <2> QED BY <2>1, <2>2 DEF Mirrored
<1>14. DestsLinked(d.accounts, d.dests, D)
  BY <1>2, <1>6, <1>12 DEF DestsLinked, Named
<1>15. RoutesLinked(d.accounts, d.dests, d.routes, D)
  BY <1>2, <1>6, <1>7, <1>12 DEF RoutesLinked, Named
<1>16. SubsLinked(d.dests, d.services, d.subs)
  <2> SUFFICES ASSUME NEW n \in Services, NEW i \in DOMAIN d.subs[n]
               PROVE  d.subs[n][i].dest \in DOMAIN d.dests /\ n \in DOMAIN d.services
    BY DEF SubsLinked
  <2> DEFINE row == ByRef(SubsOf(s, n), i)
  <2>1. row \in s.subs /\ row.service = n /\ d.subs[n][i].dest = row.dest
    BY <1>2, <1>9
  <2>2. row.service \in s.services /\ row.dest \in Refs(s.dests)
    BY <2>1 DEF Valid, ValidNotifications
  <2> QED BY <1>2, <1>6, <1>8, <2>1, <2>2
<1>17. GrantsLinked(d.routes, d.workloads)
  BY <1>2, <1>7, <1>10 DEF GrantsLinked
<1>18. ASSUME NEW n \in Services, NEW r \in Recipients(d, n)
       PROVE  LET row == ByRef(SubsOf(s, n), r.sub) IN
              /\ row \in s.subs /\ row.active /\ row.service = n /\ row.ref = r.sub
              /\ <<r.bot, r.chat>> = Target(s, row.dest)
              /\ r = [sub |-> r.sub, account |-> Goes(d, n, r.sub).account,
                      bot |-> IdentityOf[TokenOf(d, Goes(d, n, r.sub).account)],
                      chat |-> Goes(d, n, r.sub).chat]
  <2>1. PICK i \in {j \in ActiveSubs(d, n) : Goes(d, n, j).account \in AccountIds(d)} :
          r = [sub |-> i, account |-> Goes(d, n, i).account,
               bot |-> IdentityOf[TokenOf(d, Goes(d, n, i).account)], chat |-> Goes(d, n, i).chat]
    BY <1>18, Zenon DEF Recipients, Goes
  <2>2. i \in DOMAIN d.subs[n] /\ d.subs[n][i].active
    BY <2>1 DEF ActiveSubs
  <2> DEFINE row == ByRef(SubsOf(s, n), i)
  <2>3. /\ row \in s.subs /\ row.active /\ row.service = n /\ row.ref = i
        /\ d.subs[n][i].dest = row.dest
    BY <1>2, <1>9, <2>2
  <2> HIDE DEF row
  <2>4. row.dest \in Refs(s.dests)
    BY <2>3 DEF Valid, ValidNotifications
  <2> DEFINE dest == ByRef(s.dests, row.dest)
             a == RestoredDests(s)[row.dest].account
  <2>5. Goes(d, n, i) = RestoredDests(s)[row.dest] /\ RestoredDests(s)[row.dest].chat = dest.chat
    BY <1>2, <1>6, <2>3, <2>4 DEF Goes
  <2>6. TokenOf(d, a) = ByRef(s.bots, dest.bot).token
    BY <1>12, <2>4 DEF TokenOf
  <2>7. Target(s, row.dest) = <<IdentityOf[TokenOf(d, a)], dest.chat>>
    BY <2>6 DEF Target
  <2>8. <<r.bot, r.chat>> = Target(s, row.dest) /\ r.sub = i
    BY <2>1, <2>5, <2>7
  <2> QED BY <2>1, <2>3, <2>8 DEF row
<1>19. ChatsOnce(d)
  <2> SUFFICES ASSUME NEW n \in Services, NEW r \in Recipients(d, n), NEW q \in Recipients(d, n), r # q
               PROVE  <<r.bot, r.chat>> # <<q.bot, q.chat>>
    BY DEF ChatsOnce, Distinct
  <2> DEFINE p == ByRef(SubsOf(s, n), r.sub)
             x == ByRef(SubsOf(s, n), q.sub)
  <2>1. /\ p \in s.subs /\ p.active /\ p.service = n /\ p.ref = r.sub
        /\ <<r.bot, r.chat>> = Target(s, p.dest)
    BY <1>18
  <2>2. /\ x \in s.subs /\ x.active /\ x.service = n /\ x.ref = q.sub
        /\ <<q.bot, q.chat>> = Target(s, x.dest)
    BY <1>18
  <2> DEFINE At(i) == [sub |-> i, account |-> Goes(d, n, i).account,
                       bot |-> IdentityOf[TokenOf(d, Goes(d, n, i).account)],
                       chat |-> Goes(d, n, i).chat]
  <2>6. r = At(r.sub) /\ q = At(q.sub)
    BY <1>18
  <2> HIDE DEF p, x, At
  <2>3. r.sub # q.sub
    <3>1. ASSUME r.sub = q.sub PROVE FALSE
      <4>1. At(r.sub) = At(q.sub)
        BY <3>1
      <4> QED BY <4>1, <2>6
    <3> QED BY <3>1
  <2>4. p # x
    BY <2>1, <2>2, <2>3
  <2>5. Target(s, p.dest) # Target(s, x.dest)
    BY <2>1, <2>2, <2>4 DEF Valid, ValidNotifications
  <2> QED BY <2>1, <2>2, <2>5
<1>20. Sound(d, D)
  BY <1>11, <1>13, <1>14, <1>15, <1>16, <1>17, <1>19 DEF Sound
<1>21. /\ DOMAIN EmptyConf.dests = {} /\ DOMAIN EmptyConf.routes = {}
       /\ DOMAIN EmptyConf.services = {} /\ DOMAIN EmptyConf.workloads = {}
       /\ \A a : a \notin Ids(EmptyConf.accounts)
  <2>1. ASSUME NEW x, x = <<>> PROVE DOMAIN x = {}
    BY <2>1
  <2>2. /\ EmptyConf.dests = <<>> /\ EmptyConf.routes = <<>> /\ EmptyConf.services = <<>>
        /\ EmptyConf.workloads = <<>> /\ \A b \in Bots : EmptyConf.accounts[b] = <<>>
    BY DEF EmptyConf, Nothing
  <2>3. \A b \in Bots : DOMAIN EmptyConf.accounts[b] = {}
    BY <2>1, <2>2
  <2>4. Ids(EmptyConf.accounts) = {}
    BY <2>3 DEF Ids
  <2> QED BY <2>1, <2>2, <2>4
<1>22. RouteSteps(EmptyConf.routes, d.routes, keys)
  BY <1>2, <1>7, <1>21 DEF RouteSteps
<1>23. Advances(EmptyConf, d, D)
  BY <1>21 DEF Advances, AccountsAdvance, RowsAdvance, RoutesAdvance, ServicesAdvance
<1>24. \A u : Rebound(d.dests, d.routes, u)
  BY <1>2, <1>7 DEF Rebound
<1> QED BY <1>20, <1>22, <1>23, <1>24 DEF Moves, keys

------------------------------------------------------------------------------
(* The initial state, and what administrators open *)

\* The first configuration satisfies the invariant.
LEMMA StartsSound ==
  ASSUME ConfigurationAssumption, Init
  PROVE  ConfigInv
<1> DEFINE c == EmptyConf
<1>1. /\ c.token = <<>> /\ c.dests = <<>> /\ c.routes = <<>> /\ c.services = <<>>
      /\ c.workloads = <<>> /\ c.accounts = [b \in Bots |-> <<>>] /\ c.subs = [s \in Services |-> <<>>]
  BY DEF EmptyConf, Nothing
<1>2. /\ DOMAIN c.token = {} /\ DOMAIN c.dests = {} /\ DOMAIN c.routes = {}
      /\ DOMAIN c.services = {} /\ DOMAIN c.workloads = {}
      /\ \A b \in Bots : DOMAIN c.accounts[b] = {}
      /\ \A s \in Services : DOMAIN c.subs[s] = {}
  <2>1. ASSUME NEW x, x = <<>> PROVE DOMAIN x = {}
    BY <2>1
  <2> QED BY <1>1, <2>1
<1>3. c \in Confs
  <2>1. ASSUME NEW K, NEW V PROVE <<>> \in Table(K, V)
    <3>1. <<>> \in [{} -> V] /\ {} \in SUBSET K
      OBVIOUS
    <3> QED BY <3>1, Zenon DEF Table
  <2>2. c.accounts \in Accounts /\ c.subs \in Subs
    BY <1>1 DEF Accounts, Subs
  <2>3. c = [token |-> c.token, accounts |-> c.accounts, dests |-> c.dests, routes |-> c.routes,
             services |-> c.services, subs |-> c.subs, workloads |-> c.workloads]
    BY DEF EmptyConf
  <2>4. /\ c.token \in Table(Bots, Tokens) /\ c.dests \in Table(Dests, DestRows)
        /\ c.routes \in Table(RouteKeys, RouteRows) /\ c.services \in Table(Services, Nat)
        /\ c.workloads \in Table(Workloads, WorkloadRows)
    BY <1>1, <2>1
  <2> HIDE DEF c
  <2> QED BY <2>2, <2>3, <2>4 DEF Confs
<1>4. \A s \in Services : Recipients(c, s) = {}
  <2> HIDE DEF c
  <2>1. ASSUME NEW s \in Services PROVE ActiveSubs(c, s) = {}
    <3>1. DOMAIN c.subs[s] = {}
      BY <1>2
    <3> QED BY <3>1 DEF ActiveSubs
  <2> QED BY <2>1 DEF Recipients
<1>5. conf = c /\ deleted = {} /\ history = [k \in RouteKeys |-> <<>>]
      /\ editor = [e \in Editors |-> Idle] /\ notes = <<>> /\ requests = 0
  BY DEF Init, Nothing
<1> HIDE DEF c
<1>6. Sound(c, {})
  <2>1. Mirrored(c.token, c.accounts, {})
    BY <1>2 DEF Mirrored
  <2>2. DestsLinked(c.accounts, c.dests, {}) /\ RoutesLinked(c.accounts, c.dests, c.routes, {})
    BY <1>2 DEF DestsLinked, RoutesLinked
  <2>3. SubsLinked(c.dests, c.services, c.subs) /\ GrantsLinked(c.routes, c.workloads)
    BY <1>2 DEF SubsLinked, GrantsLinked
  <2>4. ChatsOnce(c)
    BY <1>4 DEF ChatsOnce, Distinct
  <2> QED BY <1>3, <2>1, <2>2, <2>3, <2>4 DEF Sound
<1>7. Explained(c.routes, history)
  BY <1>2, <1>5 DEF Explained
<1>8. Rebound(c.dests, c.routes, unchecked)
  BY <1>2 DEF Rebound
<1>9. Pinned(c.services, notes)
  <2>1. DOMAIN notes = {}
    BY <1>5
  <2> QED BY <2>1 DEF Pinned
<1>10. Watching(c, {}, editor)
  BY <1>5 DEF Watching
<1> QED BY <1>5, <1>6, <1>7, <1>8, <1>9, <1>10 DEF ConfigInv, ConfigurationAssumption

\* What is drafted for a route names a destination that exists and its account,
\* which exists or was deleted with its bot.
LEMMA RouteDraftsFit ==
  ASSUME ConfigurationAssumption, NEW c, NEW D, Sound(c, D), NEW draft \in RouteDrafts(c)
  PROVE  /\ draft \in RouteContents /\ Named(c.accounts, D, draft.account)
         /\ draft.dest \in DOMAIN c.dests
<1>1. c \in Confs /\ DestsLinked(c.accounts, c.dests, D)
  BY DEF Sound
<1>2. PICK d \in DOMAIN c.dests, f \in RouteFlags :
        draft = [account |-> c.dests[d].account, dest |-> d, inbound |-> f.inbound, enabled |-> f.enabled]
  <2> DEFINE S == {[account |-> c.dests[d].account, dest |-> d,
                    inbound |-> f.inbound, enabled |-> f.enabled] :
                    d \in DOMAIN c.dests, f \in RouteFlags}
  <2>1. draft \in S
    BY DEF RouteDrafts
  <2> QED BY <2>1
<1>3. d \in Dests /\ c.dests[d] \in DestRows
  BY <1>1, <1>2, ConfFields
<1>4. Named(c.accounts, D, c.dests[d].account) /\ c.dests[d].account \in AccountNames
  BY <1>1, <1>2, <1>3 DEF DestsLinked, DestRows
<1>5. f.inbound \in BOOLEAN /\ f.enabled \in BOOLEAN
  BY <1>2 DEF ConfigurationAssumption
<1> QED BY <1>2, <1>3, <1>4, <1>5 DEF RouteContents

\* What can be opened or created is there or not, and its draft fits.
LEMMA OpenableFits ==
  ASSUME ConfigurationAssumption, NEW c, NEW D, Sound(c, D), NEW p \in Openable(c) \cup Creatable(c)
  PROVE  /\ p[1] \in Objects /\ Present(c, p[1]) /\ Drafted(c, D, p[1], p[2])
         /\ p \in Openable(c) => /\ p[1][1] \notin {"newDest", "newRoute"}
                                 /\ RevisionOf(c, p[1]) \in Nat
<1>1. c \in Confs
  BY DEF Sound
<1> DEFINE o == p[1]
           F == /\ o \in Objects /\ Present(c, o) /\ Drafted(c, D, o, p[2])
           G == o[1] \notin {"newDest", "newRoute"} /\ RevisionOf(c, o) \in Nat
<1>2. \A x \in DestDrafts(c) : x \in [account : AccountNames, chat : Chats] /\ Named(c.accounts, D, x.account)
  BY <1>1, InIds, IdsOf, ConfFields DEF DestDrafts, Named
<1>3. ASSUME p \in {<<"account", a>> : a \in AccountIds(c)} \X NoDraft PROVE F /\ G
  <2>1. o[1] = "account" /\ o[2] \in AccountIds(c) /\ o = <<o[1], o[2]>>
    BY <1>3
  <2>2. o[2] \in AccountNames /\ c.accounts[o[2][1]][o[2][2]].rev \in Nat
    <3>1. c.accounts \in Accounts /\ o[2] \in Ids(c.accounts)
      BY <1>1, <2>1, ConfFields, IdsOf
    <3> QED BY <3>1, InIds, AccountRow DEF AccountRows
  <2> HIDE DEF o
  <2> QED BY <2>1, <2>2 DEF Objects, Present, Drafted, RevisionOf
<1>4. ASSUME p \in {<<"dest", d>> : d \in DOMAIN c.dests} \X DestDrafts(c) PROVE F /\ G
  <2>1. o[1] = "dest" /\ o[2] \in DOMAIN c.dests /\ o = <<o[1], o[2]>> /\ p[2] \in DestDrafts(c)
    BY <1>4
  <2>2. o[2] \in Dests /\ c.dests[o[2]].rev \in Nat
    BY <1>1, <2>1, ConfFields DEF DestRows
  <2> HIDE DEF o
  <2> QED BY <1>2, <2>1, <2>2 DEF Objects, Present, Drafted, RevisionOf
<1>5. ASSUME p \in {<<"route", k>> : k \in DOMAIN c.routes} \X RouteDrafts(c) PROVE F /\ G
  <2>1. o[1] = "route" /\ o[2] \in DOMAIN c.routes /\ o = <<o[1], o[2]>> /\ p[2] \in RouteDrafts(c)
    BY <1>5
  <2>2. o[2] \in RouteKeys /\ c.routes[o[2]].rev \in Nat
    BY <1>1, <2>1, ConfFields DEF RouteRows
  <2>3. p[2] \in RouteContents /\ Named(c.accounts, D, p[2].account) /\ p[2].dest \in DOMAIN c.dests
    BY <2>1, RouteDraftsFit
  <2> HIDE DEF o
  <2> QED BY <2>1, <2>2, <2>3 DEF Objects, Present, Drafted, RevisionOf
<1>6. ASSUME p \in {<<"service", s>> : s \in DOMAIN c.services} \X NoDraft PROVE F /\ G
  <2>1. o[1] = "service" /\ o[2] \in DOMAIN c.services /\ o = <<o[1], o[2]>>
    BY <1>6
  <2>2. o[2] \in Services /\ c.services[o[2]] \in Nat
    BY <1>1, <2>1, ConfFields
  <2> HIDE DEF o
  <2> QED BY <2>1, <2>2 DEF Objects, Present, Drafted, RevisionOf
<1>7. ASSUME p \in {<<"workload", w>> : w \in DOMAIN c.workloads} \X NoDraft PROVE F /\ G
  <2>1. o[1] = "workload" /\ o[2] \in DOMAIN c.workloads /\ o = <<o[1], o[2]>>
    BY <1>7
  <2>2. o[2] \in Workloads /\ c.workloads[o[2]].rev \in Nat
    BY <1>1, <2>1, ConfFields DEF WorkloadRows
  <2> HIDE DEF o
  <2> QED BY <2>1, <2>2 DEF Objects, Present, Drafted, RevisionOf
<1>8. ASSUME p \in {<<"newDest", d>> : d \in Dests \ DOMAIN c.dests} \X DestDrafts(c) PROVE F
  <2>1. o[1] = "newDest" /\ o[2] \in Dests /\ o = <<o[1], o[2]>> /\ p[2] \in DestDrafts(c)
    <3>1. p[1] \in {<<"newDest", d>> : d \in Dests \ DOMAIN c.dests} /\ p[2] \in DestDrafts(c)
      BY <1>8
    <3>2. PICK d \in Dests \ DOMAIN c.dests : p[1] = <<"newDest", d>>
      BY <3>1
    <3> QED BY <3>1, <3>2
  <2> HIDE DEF o
  <2> QED BY <1>2, <2>1 DEF Objects, Present, Drafted
<1>9. ASSUME p \in {<<"newRoute", k>> : k \in RouteKeys \ DOMAIN c.routes} \X RouteDrafts(c) PROVE F
  <2>1. o[1] = "newRoute" /\ o[2] \in RouteKeys /\ o = <<o[1], o[2]>> /\ p[2] \in RouteDrafts(c)
    <3>1. p[1] \in {<<"newRoute", k>> : k \in RouteKeys \ DOMAIN c.routes} /\ p[2] \in RouteDrafts(c)
      BY <1>9
    <3>2. PICK k \in RouteKeys \ DOMAIN c.routes : p[1] = <<"newRoute", k>>
      BY <3>1
    <3> QED BY <3>1, <3>2
  <2>3. p[2] \in RouteContents /\ Named(c.accounts, D, p[2].account) /\ p[2].dest \in DOMAIN c.dests
    BY <2>1, RouteDraftsFit
  <2> HIDE DEF o
  <2> QED BY <2>1, <2>3 DEF Objects, Present, Drafted
<1> HIDE DEF F, G
<1>10. p \in Openable(c) => F /\ G
  BY <1>3, <1>4, <1>5, <1>6, <1>7 DEF Openable
<1>11. p \in Creatable(c) => F
  BY <1>8, <1>9 DEF Creatable
<1> QED BY <1>10, <1>11 DEF F, G

\* Reading for an edit keeps the invariant: what is read is what there is.
LEMMA OpenSteps ==
  ASSUME ConfigurationAssumption, ConfigInv, NEW e \in Editors, Open(e) \/ OpenUnnamed(e)
  PROVE  ConfigInv'
<1>1. Sound(conf, deleted) /\ requests \in 0 .. MaxRequests /\ Watching(conf, deleted, editor)
  BY DEF ConfigInv
<1>2. \E o, rev, seen, draft :
        /\ editor' = [editor EXCEPT ![e] = Opened(o, rev, seen, draft)]
        /\ Watched(conf, deleted, Opened(o, rev, seen, draft))
  <2>1. ASSUME NEW p \in Openable(conf),
               editor' = [editor EXCEPT ![e] = Opened(p[1], RevisionOf(conf, p[1]), Row(conf, p[1]), p[2])]
        PROVE  Watched(conf, deleted, Opened(p[1], RevisionOf(conf, p[1]), Row(conf, p[1]), p[2]))
    <3> DEFINE x == Opened(p[1], RevisionOf(conf, p[1]), Row(conf, p[1]), p[2])
    <3>1. /\ x.object = p[1] /\ x.rev = RevisionOf(conf, p[1]) /\ x.seen = Row(conf, p[1])
          /\ x.draft = p[2]
      BY DEF Opened
    <3>2. /\ p[1] \in Objects /\ Present(conf, p[1]) /\ Drafted(conf, deleted, p[1], p[2])
          /\ p[1][1] \notin {"newDest", "newRoute"} /\ RevisionOf(conf, p[1]) \in Nat
      BY <1>1, OpenableFits
    <3> HIDE DEF x
    <3>3. Watched(conf, deleted, x)
      BY <3>1, <3>2 DEF Watched
    <3> QED BY <3>3 DEF x
  <2>2. ASSUME NEW p \in Openable(conf) \cup Creatable(conf),
               editor' = [editor EXCEPT ![e] = Opened(p[1], 0, Nothing, p[2])]
        PROVE  Watched(conf, deleted, Opened(p[1], 0, Nothing, p[2]))
    <3> DEFINE x == Opened(p[1], 0, Nothing, p[2])
    <3>1. x.object = p[1] /\ x.rev = 0 /\ x.draft = p[2]
      BY DEF Opened
    <3>2. p[1] \in Objects /\ Present(conf, p[1]) /\ Drafted(conf, deleted, p[1], p[2])
      BY <1>1, OpenableFits
    <3> HIDE DEF x
    <3>3. Watched(conf, deleted, x)
      BY <3>1, <3>2 DEF Watched
    <3> QED BY <3>3 DEF x
  <2>3. CASE Open(e)
    <3>1. PICK p \in Openable(conf) : editor' = [editor EXCEPT ![e] =
            Opened(p[1], RevisionOf(conf, p[1]), Row(conf, p[1]), p[2])]
      BY <2>3, Zenon DEF Open
    <3> QED BY <2>1, <3>1, Zenon
  <2>4. CASE OpenUnnamed(e)
    <3>1. PICK p \in Openable(conf) \cup Creatable(conf) :
            editor' = [editor EXCEPT ![e] = Opened(p[1], 0, Nothing, p[2])]
      BY <2>4, Zenon DEF OpenUnnamed
    <3> QED BY <2>2, <3>1, Zenon
  <2> QED BY <2>3, <2>4
<1>3. Watching(conf, deleted, editor')
  <2>1. PICK o, rev, seen, draft :
          /\ editor' = [editor EXCEPT ![e] = Opened(o, rev, seen, draft)]
          /\ Watched(conf, deleted, Opened(o, rev, seen, draft))
    BY <1>2
  <2>2. /\ editor' = [f \in Editors |-> editor'[f]]
        /\ \A f \in Editors : editor'[f] = IF f = e THEN Opened(o, rev, seen, draft) ELSE editor[f]
    BY <1>1, <2>1 DEF Watching
  <2> DEFINE x == Opened(o, rev, seen, draft)
  <2>3. x = Opened(x.object, x.rev, x.seen, x.draft) /\ Watched(conf, deleted, x)
    BY <2>1 DEF Opened
  <2> HIDE DEF x, Idle
  <2>4. ASSUME NEW f \in Editors
        PROVE  \/ editor'[f] = Idle
               \/ /\ editor'[f] = Opened(editor'[f].object, editor'[f].rev, editor'[f].seen, editor'[f].draft)
                  /\ Watched(conf, deleted, editor'[f])
    <3>1. CASE f = e
      BY <2>2, <2>3, <3>1 DEF x
    <3>2. CASE f # e
      BY <1>1, <2>2, <3>2 DEF Watching
    <3> QED BY <3>1, <3>2
  <2> QED BY <2>2, <2>4 DEF Watching
<1>4. /\ conf' = conf /\ deleted' = deleted /\ history' = history /\ notes' = notes
      /\ unchecked' = unchecked /\ requests' = requests + 1 /\ requests < MaxRequests
  BY DEF Open, OpenUnnamed, Begun
<1>5. requests' \in 0 .. MaxRequests
  BY <1>1, <1>4 DEF ConfigurationAssumption
<1> QED BY <1>3, <1>4, <1>5 DEF ConfigInv

------------------------------------------------------------------------------
(* Every transaction *)

\* An edit that moves the configuration as its transaction allows keeps the invariant.
LEMMA Saving ==
  ASSUME ConfigInv, ConfigurationAssumption, NEW e \in Editors, NEW c, NEW ks, Save(e, c, ks),
         Moves(conf, deleted, c, deleted, ks), deleted' = deleted, notes' = notes,
         Rebound(c.dests, c.routes, unchecked')
  PROVE  ConfigInv'
<1>1. /\ conf' = c
      /\ history' = [k \in RouteKeys |->
           IF k \in ks THEN Append(history[k], Content(c.routes[k])) ELSE history[k]]
  BY DEF Save, Write
<1>2. editor' = [editor EXCEPT ![e] = Idle] /\ requests' = requests
  BY DEF Save
<1>3. requests \in 0 .. MaxRequests
  BY DEF ConfigInv
<1>4. Moves(conf, deleted, c, deleted', ks)
  OBVIOUS
<1> QED BY <1>1, <1>2, <1>3, <1>4, Committed

\* So does a change that nobody has read for.
LEMMA Committing ==
  ASSUME ConfigInv, ConfigurationAssumption, NEW c, NEW ks, Commit(c, ks),
         Moves(conf, deleted, c, deleted', ks), editor' = editor, notes' = notes,
         Rebound(c.dests, c.routes, unchecked')
  PROVE  ConfigInv'
<1>1. /\ conf' = c
      /\ history' = [k \in RouteKeys |->
           IF k \in ks THEN Append(history[k], Content(c.routes[k])) ELSE history[k]]
  BY DEF Commit, Write
<1>2. requests' = requests + 1 /\ requests < MaxRequests
  BY DEF Commit, Begun
<1>3. requests' \in 0 .. MaxRequests
  BY <1>2 DEF ConfigInv, ConfigurationAssumption
<1> QED BY <1>1, <1>3, Committed

\* What is open is watched.
LEMMA Held ==
  ASSUME ConfigInv, NEW e \in Editors, editor[e].at = "open"
  PROVE  /\ Watched(conf, deleted, editor[e])
         /\ editor[e].object \in Objects /\ editor[e].rev \in Nat
         /\ Drafted(conf, deleted, editor[e].object, editor[e].draft)
<1>1. Watched(conf, deleted, editor[e])
  BY DEF ConfigInv, Watching, Idle
<1> QED BY <1>1 DEF Watched

\* What the invariant says of the configuration as it is.
LEMMA ConfFits ==
  ASSUME ConfigInv
  PROVE  Sound(conf, deleted) /\ conf \in Confs /\ Rebound(conf.dests, conf.routes, unchecked)
  BY DEF ConfigInv, Sound

\* Routes that are rebound stay so where neither they nor their destinations change.
LEMMA ReboundKept ==
  ASSUME NEW c, NEW D, Sound(c, D), NEW d, NEW u, Rebound(c.dests, c.routes, u),
         \A x \in DOMAIN c.dests : d.dests[x] = c.dests[x],
         DOMAIN d.routes \subseteq DOMAIN c.routes,
         \A k \in DOMAIN c.routes : /\ d.routes[k].account = c.routes[k].account
                                    /\ d.routes[k].dest = c.routes[k].dest
  PROVE  Rebound(d.dests, d.routes, u)
<1> SUFFICES ASSUME NEW k \in DOMAIN d.routes \ u
             PROVE  d.dests[d.routes[k].dest].account = d.routes[k].account
  BY DEF Rebound
<1>1. c.dests[c.routes[k].dest].account = c.routes[k].account
  BY DEF Rebound
<1>2. c.routes[k].dest \in DOMAIN c.dests
  BY DEF Sound, RoutesLinked
<1> QED BY <1>1, <1>2

------------------------------------------------------------------------------
(* Bots and accounts *)

\* A bot of a configuration was not deleted.
LEMMA Living ==
  ASSUME NEW c, NEW D, Sound(c, D), NEW b \in DOMAIN c.token
  PROVE  b \in Bots \ D /\ c.token[b] \in Tokens
<1>1. c \in Confs /\ DOMAIN c.token \cap D = {}
  BY DEF Sound, Mirrored
<1> QED BY <1>1, ConfFields

\* An alias of a bot that is there, or of a new one.
LEMMA AliasMoves ==
  ASSUME NEW c, NEW D, Sound(c, D), NEW b \in Bots \ D, NEW t \in Tokens,
         b \in DOMAIN c.token => c.token[b] = t
  PROVE  LET d == NewAccount(NewBot(c, b, t), b) IN
         /\ Moves(c, D, d, D, {}) /\ d.dests = c.dests /\ d.routes = c.routes
         /\ <<b, Len(d.accounts[b])>> \in Ids(d.accounts)
<1> DEFINE x == NewBot(c, b, t)
           d == NewAccount(x, b)
<1>1. Moves(c, D, x, D, {})
  BY NewBotMoves
<1>2. Sound(x, D) /\ x \in Confs /\ c \in Confs
  BY <1>1 DEF Moves, Sound
<1>3. b \in DOMAIN x.token /\ x.dests = c.dests /\ x.routes = c.routes
  BY <1>2 DEF NewBot, With, Confs
<1> HIDE DEF x
<1>4. d.dests = x.dests /\ d.routes = x.routes
  BY <1>2 DEF NewAccount, Confs
<1>5. Moves(x, D, d, D, {}) /\ <<b, Len(d.accounts[b])>> \in Ids(d.accounts)
  BY <1>2, <1>3, NewAccountMoves
<1> HIDE DEF d
<1>6. Moves(c, D, d, D, {}) /\ d.dests = c.dests /\ d.routes = c.routes
  BY <1>1, <1>3, <1>4, <1>5, MovesOn
<1> QED BY <1>5, <1>6 DEF d, x

\* A bot that is new comes with an account of its own.
LEMMA NewAliasMoves ==
  ASSUME NEW c, NEW D, Sound(c, D), NEW b \in Bots \ D, NEW t \in Tokens, b \notin DOMAIN c.token
  PROVE  LET d == NewAccount(NewBot(c, b, t), b) IN
         Moves(c, D, d, D, {}) /\ d.dests = c.dests /\ d.routes = c.routes
  BY AliasMoves

\* A bot that is unused has neither a token nor a past.
LEMMA UnusedNew ==
  ASSUME NEW b \in Unused
  PROVE  b \in Bots \ deleted /\ b \notin DOMAIN conf.token
  BY DEF Unused

\* AddBotAccount and AddBotConfig keep the invariant.
LEMMA AddingBots ==
  ASSUME ConfigInv, ConfigurationAssumption, AddBotAccount \/ AddBotConfig
  PROVE  ConfigInv'
<1>0. /\ deleted' = deleted /\ notes' = notes /\ editor' = editor /\ unchecked' = unchecked
      /\ Sound(conf, deleted) /\ conf \in Confs /\ Rebound(conf.dests, conf.routes, unchecked)
  BY ConfFits DEF AddBotAccount, AddBotConfig
<1>1. ASSUME NEW t \in Tokens, NEW b \in Unused, Commit(NewAccount(NewBot(conf, b, t), b), {})
      PROVE  ConfigInv'
  <2>1. b \in Bots \ deleted /\ b \notin DOMAIN conf.token
    BY UnusedNew
  <2> DEFINE d == NewAccount(NewBot(conf, b, t), b)
  <2>2. Moves(conf, deleted, d, deleted, {}) /\ d.dests = conf.dests /\ d.routes = conf.routes
    BY <1>0, <2>1, NewAliasMoves
  <2>3. Commit(d, {})
    BY <1>1
  <2> HIDE DEF d
  <2> QED BY <1>0, <2>2, <2>3, Committing
<1>2. ASSUME NEW b \in DOMAIN conf.token, Commit(NewAccount(conf, b), {})
      PROVE  ConfigInv'
  <2> DEFINE d == NewAccount(conf, b)
  <2>1. Moves(conf, deleted, d, deleted, {})
    BY <1>0, NewAccountMoves
  <2>2. d.dests = conf.dests /\ d.routes = conf.routes
    BY <1>0 DEF NewAccount, Confs
  <2>3. Commit(d, {})
    BY <1>2
  <2> HIDE DEF d
  <2> QED BY <1>0, <2>1, <2>2, <2>3, Committing
<1>3. CASE AddBotAccount
  <2>1. PICK t \in Tokens :
          \/ \E b \in OwnersOf(conf, t) : Commit(NewAccount(conf, b), {})
          \/ \E b \in Unused : Commit(NewAccount(NewBot(conf, b, t), b), {})
    BY <1>3 DEF AddBotAccount
  <2>2. OwnersOf(conf, t) \subseteq DOMAIN conf.token
    BY DEF OwnersOf
  <2> QED BY <1>1, <1>2, <2>1, <2>2
<1>4. CASE AddBotConfig
  BY <1>1, <1>4 DEF AddBotConfig
<1> QED BY <1>3, <1>4

\* Routes that only follow their accounts stay rebound.
LEMMA SyncedRebound ==
  ASSUME NEW c, NEW D, Sound(c, D), NEW d, NEW u, Rebound(c.dests, c.routes, u),
         d.dests = c.dests, DOMAIN d.routes = DOMAIN c.routes,
         \A k \in DOMAIN c.routes : /\ d.routes[k].account = c.routes[k].account
                                    /\ d.routes[k].dest = c.routes[k].dest
  PROVE  Rebound(d.dests, d.routes, u)
  BY ReboundKept

\* UpdateBotConfig keeps the invariant.
LEMMA UpdatingBots ==
  ASSUME ConfigInv, ConfigurationAssumption, UpdateBotConfig
  PROVE  ConfigInv'
<1>0. /\ deleted' = deleted /\ notes' = notes /\ editor' = editor /\ unchecked' = unchecked
      /\ Sound(conf, deleted) /\ Rebound(conf.dests, conf.routes, unchecked)
  BY ConfFits DEF UpdateBotConfig
<1>1. PICK b \in DOMAIN conf.token, t \in Tokens :
        /\ AllRecipientsValid(Synced(NewBot(conf, b, t), b))
        /\ Commit(Synced(NewBot(conf, b, t), b), RoutesOfBot(Synced(NewBot(conf, b, t), b), b))
  BY Zenon DEF UpdateBotConfig
<1> DEFINE d == Synced(NewBot(conf, b, t), b)
<1>2. /\ Moves(conf, deleted, d, deleted, RoutesOfBot(d, b))
      /\ d.dests = conf.dests /\ DOMAIN d.routes = DOMAIN conf.routes
      /\ \A k \in DOMAIN conf.routes : /\ d.routes[k].account = conf.routes[k].account
                                       /\ d.routes[k].dest = conf.routes[k].dest
  BY <1>0, <1>1, SyncedMoves
<1>3. Commit(d, RoutesOfBot(d, b))
  BY <1>1
<1> HIDE DEF d
<1>4. Rebound(d.dests, d.routes, unchecked')
  BY <1>0, <1>2, SyncedRebound
<1> QED BY <1>0, <1>2, <1>3, <1>4, Committing

\* RotateBotAccount keeps it.
LEMMA RotatingAccounts ==
  ASSUME ConfigInv, ConfigurationAssumption, NEW e \in Editors, RotateBotAccount(e)
  PROVE  ConfigInv'
<1>0. /\ deleted' = deleted /\ notes' = notes /\ unchecked' = unchecked
      /\ Sound(conf, deleted) /\ conf \in Confs /\ Rebound(conf.dests, conf.routes, unchecked)
  BY ConfFits DEF RotateBotAccount
<1> DEFINE b == Id(e)[1]
<1>1. b \in DOMAIN conf.token
  <2>1. Id(e) \in Ids(conf.accounts) /\ conf.accounts \in Accounts
    BY <1>0, IdsOf, ConfFields DEF RotateBotAccount
  <2>2. b \in Bots /\ Id(e)[2] \in DOMAIN conf.accounts[b]
    BY <2>1, InIds
  <2> QED BY <1>0, <2>2 DEF Sound, Mirrored
<1>2. PICK t \in Tokens :
        /\ AllRecipientsValid(Synced(NewBot(conf, b, t), b))
        /\ Save(e, Synced(NewBot(conf, b, t), b), RoutesOfBot(Synced(NewBot(conf, b, t), b), b))
  BY Zenon DEF RotateBotAccount
<1> HIDE DEF b
<1> DEFINE d == Synced(NewBot(conf, b, t), b)
<1>3. /\ Moves(conf, deleted, d, deleted, RoutesOfBot(d, b))
      /\ d.dests = conf.dests /\ DOMAIN d.routes = DOMAIN conf.routes
      /\ \A k \in DOMAIN conf.routes : /\ d.routes[k].account = conf.routes[k].account
                                       /\ d.routes[k].dest = conf.routes[k].dest
  BY <1>0, <1>1, <1>2, SyncedMoves
<1>4. Save(e, d, RoutesOfBot(d, b))
  BY <1>2
<1> HIDE DEF d
<1>5. Rebound(d.dests, d.routes, unchecked')
  BY <1>0, <1>3, SyncedRebound
<1> QED BY <1>0, <1>3, <1>4, <1>5, Saving

\* A bot is deleted: every row of a route, so the newest, is for another.
LEMMA DeletingBots ==
  ASSUME ConfigInv, ConfigurationAssumption, DeleteBotConfig
  PROVE  ConfigInv'
<1>0. /\ notes' = notes /\ editor' = editor /\ unchecked' = unchecked
      /\ Sound(conf, deleted) /\ conf \in Confs /\ Rebound(conf.dests, conf.routes, unchecked)
  BY ConfFits DEF DeleteBotConfig
<1>1. PICK b \in DOMAIN conf.token :
        /\ \A k \in RouteKeys : \A i \in DOMAIN history[k] : history[k][i].account[1] # b
        /\ Commit(BotDropped(conf, b), {})
        /\ deleted' = deleted \cup {b}
  BY Zenon DEF DeleteBotConfig, BotDropped
<1> DEFINE d == BotDropped(conf, b)
<1>2. \A k \in DOMAIN conf.routes : conf.routes[k].account[1] # b
  <2> SUFFICES ASSUME NEW k \in DOMAIN conf.routes PROVE conf.routes[k].account[1] # b
    OBVIOUS
  <2>1. k \in RouteKeys /\ conf.routes[k].rev \in Nat \ {0}
    BY <1>0, ConfFields DEF RouteRows
  <2>2. /\ history[k] \in Seq(RouteContents) /\ Len(history[k]) = conf.routes[k].rev
        /\ history[k][Len(history[k])] = Content(conf.routes[k])
    BY <2>1 DEF ConfigInv, Explained, Last
  <2>3. Len(history[k]) \in DOMAIN history[k]
    BY <2>1, <2>2
  <2>4. history[k][Len(history[k])].account = conf.routes[k].account
    BY <2>2 DEF Content
  <2> QED BY <1>1, <2>1, <2>3, <2>4
<1>3. Moves(conf, deleted, d, deleted', {}) /\ d.dests = conf.dests /\ d.routes = conf.routes
  BY <1>0, <1>1, <1>2, DeletedMoves
<1>4. Commit(d, {})
  BY <1>1
<1> HIDE DEF d
<1> QED BY <1>0, <1>3, <1>4, Committing

------------------------------------------------------------------------------
(* Destinations and routes *)

\* AddTelegramDestination keeps it.
LEMMA AddingDests ==
  ASSUME ConfigInv, ConfigurationAssumption, NEW e \in Editors, AddTelegramDestination(e)
  PROVE  ConfigInv'
<1>0. /\ deleted' = deleted /\ notes' = notes /\ unchecked' = unchecked
      /\ Sound(conf, deleted) /\ conf \in Confs /\ Rebound(conf.dests, conf.routes, unchecked)
  BY ConfFits DEF AddTelegramDestination
<1>1. /\ editor[e].at = "open" /\ editor[e].object[1] = "newDest"
      /\ Id(e) \notin DOMAIN conf.dests
  BY DEF AddTelegramDestination, Holds
<1> DEFINE n == Id(e)
           row == [account |-> Draft(e).account, chat |-> Draft(e).chat, active |-> TRUE, rev |-> 1]
           d == DestAdded(conf, n, row)
<1>2. Save(e, d, {})
  BY DEF AddTelegramDestination, DestAdded
<1>3. /\ editor[e].object \in Objects
      /\ Drafted(conf, deleted, editor[e].object, editor[e].draft)
  BY <1>1, Held
<1>4. /\ Draft(e) \in [account : AccountNames, chat : Chats]
      /\ Named(conf.accounts, deleted, Draft(e).account)
  BY <1>1, <1>3 DEF Drafted, Draft
<1>5. n \in Dests /\ n \notin DOMAIN conf.dests
  BY <1>1, <1>3 DEF Objects, Id
<1>6. row \in DestRows /\ row.account = Draft(e).account
  BY <1>4 DEF DestRows
<1>7. d = DestAdded(conf, n, row)
  OBVIOUS
<1> HIDE DEF d, row, n
<1>8. /\ Moves(conf, deleted, d, deleted, {}) /\ d.routes = conf.routes
      /\ \A x \in DOMAIN conf.dests : d.dests[x] = conf.dests[x]
  BY <1>0, <1>4, <1>5, <1>6, <1>7, DestMoves
<1>9. Rebound(d.dests, d.routes, unchecked')
  BY <1>0, <1>8, ReboundKept
<1> QED BY <1>0, <1>2, <1>8, <1>9, Saving

\* MigrateTelegramDestination keeps it: the routes move with the destination.
LEMMA MigratingDests ==
  ASSUME ConfigInv, ConfigurationAssumption, NEW e \in Editors, MigrateTelegramDestination(e)
  PROVE  ConfigInv'
<1> DEFINE n == Id(e)
           moved == {k \in DOMAIN conf.routes : conf.routes[k].dest = n}
           d == Migrated(conf, n, Draft(e))
<1>0. /\ deleted' = deleted /\ notes' = notes /\ unchecked' = unchecked \ moved
      /\ Sound(conf, deleted) /\ Rebound(conf.dests, conf.routes, unchecked)
  BY ConfFits DEF MigrateTelegramDestination
<1>1. editor[e].at = "open" /\ editor[e].object[1] = "dest"
  BY DEF MigrateTelegramDestination, Holds
<1>2. AllRecipientsValid(d) /\ Save(e, d, moved)
  BY DEF MigrateTelegramDestination
<1>3. n \in DOMAIN conf.dests
  BY <1>1, Held DEF Watched, Present, Id
<1>4. /\ Draft(e) \in [account : AccountNames, chat : Chats]
      /\ Named(conf.accounts, deleted, Draft(e).account)
  BY <1>1, Held DEF Drafted, Draft
<1>5. d = Migrated(conf, n, Draft(e)) /\ moved = {k \in DOMAIN conf.routes : conf.routes[k].dest = n}
  OBVIOUS
<1> HIDE DEF d, moved, n
<1>6. /\ Moves(conf, deleted, d, deleted, moved)
      /\ DOMAIN d.routes = DOMAIN conf.routes /\ d.dests[n].account = Draft(e).account
      /\ \A x \in DOMAIN conf.dests : x # n => d.dests[x] = conf.dests[x]
      /\ \A k \in DOMAIN conf.routes : d.routes[k].dest = conf.routes[k].dest
      /\ \A k \in moved : d.routes[k].account = Draft(e).account
      /\ \A k \in DOMAIN conf.routes \ moved : d.routes[k] = conf.routes[k]
  <2>1. Sound(conf, deleted) /\ AllRecipientsValid(d)
    BY <1>0, <1>2
  <2>2. Moves(conf, deleted, d, deleted, moved)
    BY <1>3, <1>4, <1>5, <2>1, MigratedMoves
  <2> QED BY <1>3, <1>4, <1>5, <2>1, <2>2, MigratedMoves
<1>7. Rebound(d.dests, d.routes, unchecked')
  <2> SUFFICES ASSUME NEW k \in DOMAIN d.routes \ unchecked'
               PROVE  d.dests[d.routes[k].dest].account = d.routes[k].account
    BY DEF Rebound
  <2>1. CASE k \in moved
    BY <1>5, <1>6, <2>1
  <2>2. CASE k \notin moved
    <3>1. k \in DOMAIN conf.routes \ unchecked /\ conf.routes[k].dest # n
      BY <1>0, <1>5, <1>6, <2>2
    <3>2. conf.routes[k].dest \in DOMAIN conf.dests
      BY <1>0, <3>1 DEF Sound, RoutesLinked
    <3>3. conf.dests[conf.routes[k].dest].account = conf.routes[k].account
      BY <1>0, <3>1 DEF Rebound
    <3> QED BY <1>6, <2>2, <3>1, <3>2, <3>3
  <2> QED BY <2>1, <2>2
<1> QED BY <1>0, <1>2, <1>6, <1>7, Saving

\* The draft of a route is written.
LEMMA WritingRoutes ==
  ASSUME ConfigInv, ConfigurationAssumption, NEW e \in Editors, NEW k \in RouteKeys, NEW rev \in Nat \ {0},
         editor[e].at = "open", editor[e].object[1] \in {"route", "newRoute"},
         rev = IF k \in DOMAIN conf.routes THEN conf.routes[k].rev + 1 ELSE 1,
         WriteRoute(e, k, rev)
  PROVE  ConfigInv'
<1> DEFINE row == Route(Draft(e), rev)
           d == RouteSaved(conf, k, row)
<1>0. /\ deleted' = deleted /\ notes' = notes
      /\ Sound(conf, deleted) /\ conf \in Confs /\ Rebound(conf.dests, conf.routes, unchecked)
  BY ConfFits DEF WriteRoute
<1>1. /\ Save(e, d, {k})
      /\ unchecked' = IF References(conf, Draft(e)) THEN unchecked \ {k} ELSE unchecked \cup {k}
  BY DEF WriteRoute, RouteSaved
<1>2. /\ Draft(e) \in RouteContents /\ Named(conf.accounts, deleted, Draft(e).account)
      /\ Draft(e).dest \in DOMAIN conf.dests
  BY Held DEF Drafted, Draft
<1>3. /\ row \in RouteRows /\ row.account = Draft(e).account /\ row.dest = Draft(e).dest
      /\ row.rev = rev
  BY <1>2 DEF Route, RouteRows, RouteContents
<1>4. d = RouteSaved(conf, k, row)
  OBVIOUS
<1> HIDE DEF d, row
<1>5. /\ Moves(conf, deleted, d, deleted, {k})
      /\ d.dests = conf.dests /\ DOMAIN d.routes = DOMAIN conf.routes \cup {k} /\ d.routes[k] = row
      /\ \A x \in DOMAIN conf.routes : x # k => d.routes[x] = conf.routes[x]
  <2>1. Sound(conf, deleted) /\ Named(conf.accounts, deleted, row.account) /\ row.dest \in DOMAIN conf.dests
    BY <1>0, <1>2, <1>3
  <2>2. row \in RouteRows /\ row.rev = IF k \in DOMAIN conf.routes THEN conf.routes[k].rev + 1 ELSE 1
    BY <1>3
  <2>3. Moves(conf, deleted, d, deleted, {k})
    BY <1>4, <2>1, <2>2, RouteMoves
  <2>4. d.dests = conf.dests /\ d.routes = With(conf.routes, k, row)
    BY <1>0, <1>4 DEF RouteSaved, Confs
  <2> QED BY <2>3, <2>4 DEF With
<1>6. Rebound(d.dests, d.routes, unchecked')
  <2> SUFFICES ASSUME NEW x \in DOMAIN d.routes \ unchecked'
               PROVE  d.dests[d.routes[x].dest].account = d.routes[x].account
    BY DEF Rebound
  <2>1. CASE x = k
    <3>1. References(conf, Draft(e))
      BY <1>1, <2>1
    <3> QED BY <1>3, <1>5, <2>1, <3>1 DEF References
  <2>2. CASE x # k
    <3>1. x \in DOMAIN conf.routes \ unchecked
      BY <1>1, <1>5, <2>2
    <3> QED BY <1>0, <1>5, <2>2, <3>1 DEF Rebound
  <2> QED BY <2>1, <2>2
<1> QED BY <1>0, <1>1, <1>5, <1>6, Saving

\* Adding, changing and disabling a route keep it.
LEMMA EditingRoutes ==
  ASSUME ConfigInv, ConfigurationAssumption, NEW e \in Editors,
         AddBusinessRoute(e) \/ UpdateBusinessRouteExpected(e)
  PROVE  ConfigInv'
<1>0. conf \in Confs
  BY ConfFits
<1>1. CASE AddBusinessRoute(e)
  <2>1. /\ editor[e].at = "open" /\ editor[e].object[1] = "newRoute"
        /\ Id(e) \notin DOMAIN conf.routes /\ WriteRoute(e, Id(e), 1)
    BY <1>1 DEF AddBusinessRoute, Holds
  <2>2. editor[e].object \in Objects
    BY <2>1, Held
  <2>3. Id(e) \in RouteKeys
    BY <2>1, <2>2 DEF Objects, Id
  <2> QED BY <2>1, <2>3, WritingRoutes
<1>2. CASE UpdateBusinessRouteExpected(e)
  <2>1. /\ editor[e].at = "open" /\ editor[e].object[1] = "route"
        /\ WriteRoute(e, Id(e), conf.routes[Id(e)].rev + 1)
    BY <1>2 DEF UpdateBusinessRouteExpected, Holds
  <2>2. Watched(conf, deleted, editor[e])
    BY <2>1, Held
  <2>3. Id(e) \in DOMAIN conf.routes
    BY <2>1, <2>2 DEF Watched, Present, Id
  <2>4. Id(e) \in RouteKeys /\ conf.routes[Id(e)].rev + 1 \in Nat \ {0}
    BY <1>0, <2>3, ConfFields DEF RouteRows
  <2> QED BY <2>1, <2>3, <2>4, WritingRoutes
<1> QED BY <1>1, <1>2

\* An account, a destination of it and a route to that.
LEMMA SettingUp ==
  ASSUME ConfigInv, ConfigurationAssumption, CreateBusinessRouteSetup
  PROVE  ConfigInv'
<1>0. /\ deleted' = deleted /\ notes' = notes /\ editor' = editor /\ unchecked' = unchecked
      /\ Sound(conf, deleted) /\ Rebound(conf.dests, conf.routes, unchecked)
  BY ConfFits DEF CreateBusinessRouteSetup
<1>1. PICK t \in Tokens, chat \in Chats, n \in Dests \ DOMAIN conf.dests,
           k \in RouteKeys \ DOMAIN conf.routes, f \in RouteFlags :
        \E b \in IF OwnersOf(conf, t) = {} THEN Unused ELSE OwnersOf(conf, t) :
          LET c == NewAccount(NewBot(conf, b, t), b)
          IN Commit(SetUp(c, <<b, Len(c.accounts[b])>>, chat, n, k, f), {k})
  BY Zenon DEF CreateBusinessRouteSetup
<1>2. PICK b \in IF OwnersOf(conf, t) = {} THEN Unused ELSE OwnersOf(conf, t) :
        LET c == NewAccount(NewBot(conf, b, t), b)
        IN Commit(SetUp(c, <<b, Len(c.accounts[b])>>, chat, n, k, f), {k})
  BY <1>1
<1> DEFINE c == NewAccount(NewBot(conf, b, t), b)
           a == <<b, Len(c.accounts[b])>>
           row == [account |-> a, chat |-> chat, active |-> TRUE, rev |-> 1]
           route == [account |-> a, dest |-> n, inbound |-> f.inbound, enabled |-> f.enabled, rev |-> 1]
           x == DestAdded(c, n, row)
           d == RouteSaved(x, k, route)
<1>3. b \in Bots \ deleted /\ (b \in DOMAIN conf.token => conf.token[b] = t)
  <2>1. CASE b \in Unused
    BY <2>1, UnusedNew
  <2>2. CASE b \in OwnersOf(conf, t)
    BY <1>0, <2>2, Living DEF OwnersOf
  <2> QED BY <2>1, <2>2
<1>4. /\ Moves(conf, deleted, c, deleted, {}) /\ c.dests = conf.dests /\ c.routes = conf.routes
      /\ a \in Ids(c.accounts)
  BY <1>0, <1>3, AliasMoves
<1>5. Sound(c, deleted) /\ c \in Confs
  BY <1>4 DEF Moves, Sound
<1>6. Commit(SetUp(c, a, chat, n, k, f), {k})
  BY <1>2
<1> HIDE DEF c
<1>7. c.accounts \in Accounts
  BY <1>5, ConfFields
<1>8. a \in AccountNames /\ Named(c.accounts, deleted, a)
  BY <1>4, <1>7, InIds DEF Named
<1>9. f.inbound \in BOOLEAN /\ f.enabled \in BOOLEAN
  BY DEF ConfigurationAssumption
<1>10. SetUp(c, a, chat, n, k, f) = d
  BY <1>5, Zenon DEF SetUp, DestAdded, RouteSaved
<1> HIDE DEF a
<1>11. row \in DestRows /\ row.account = a
  BY <1>8 DEF DestRows
<1>12. route \in RouteRows /\ route.account = a /\ route.dest = n /\ route.rev = 1
  BY <1>8, <1>9 DEF RouteRows
<1>13. n \in Dests /\ n \notin DOMAIN c.dests /\ k \in RouteKeys /\ k \notin DOMAIN c.routes
  BY <1>4
<1>14. x = DestAdded(c, n, row) /\ d = RouteSaved(x, k, route)
  OBVIOUS
<1> HIDE DEF row, route, x, d
<1>15. /\ Moves(c, deleted, x, deleted, {})
       /\ x.accounts = c.accounts /\ x.routes = c.routes /\ x.dests[n] = row
       /\ DOMAIN x.dests = DOMAIN c.dests \cup {n}
       /\ \A y \in DOMAIN c.dests : x.dests[y] = c.dests[y]
  BY <1>5, <1>8, <1>11, <1>13, <1>14, DestMoves
<1>16. Sound(x, deleted)
  BY <1>15 DEF Moves
<1>17. Named(x.accounts, deleted, route.account) /\ route.dest \in DOMAIN x.dests
       /\ route.rev = IF k \in DOMAIN x.routes THEN x.routes[k].rev + 1 ELSE 1
  BY <1>8, <1>12, <1>13, <1>15
<1>18. /\ Moves(x, deleted, d, deleted, {k})
       /\ d.dests = x.dests /\ DOMAIN d.routes = DOMAIN x.routes \cup {k} /\ d.routes[k] = route
       /\ \A y \in DOMAIN x.routes : y # k => d.routes[y] = x.routes[y]
  <2>1. k \in RouteKeys /\ route \in RouteRows
    BY <1>12
  <2>2. Moves(x, deleted, d, deleted, {k})
    BY <1>14, <1>16, <1>17, <2>1, RouteMoves
  <2>3. x \in Confs
    BY <1>16 DEF Sound
  <2>4. d.dests = x.dests /\ d.routes = With(x.routes, k, route)
    BY <1>14, <2>3 DEF RouteSaved, Confs
  <2> QED BY <2>2, <2>4 DEF With
<1>19. Moves(c, deleted, d, deleted, {k})
  BY <1>5, <1>15, <1>18, MovesOn
<1>20. Moves(conf, deleted, d, deleted, {k})
  BY <1>0, <1>4, <1>19, MovesOn
<1>21. Rebound(d.dests, d.routes, unchecked)
  <2> SUFFICES ASSUME NEW y \in DOMAIN d.routes \ unchecked
               PROVE  d.dests[d.routes[y].dest].account = d.routes[y].account
    BY DEF Rebound
  <2>1. CASE y = k
    BY <1>11, <1>12, <1>15, <1>18, <2>1
  <2>2. CASE y # k
    <3>1. y \in DOMAIN conf.routes \ unchecked /\ d.routes[y] = conf.routes[y]
      BY <1>4, <1>15, <1>18, <2>2
    <3>2. conf.routes[y].dest \in DOMAIN conf.dests
      BY <1>0, <3>1 DEF Sound, RoutesLinked
    <3>3. conf.dests[conf.routes[y].dest].account = conf.routes[y].account
      BY <1>0, <3>1 DEF Rebound
    <3> QED BY <1>4, <1>15, <1>18, <3>1, <3>2, <3>3
  <2> QED BY <2>1, <2>2
<1>22. Commit(d, {k})
  BY <1>6, <1>10
<1> QED BY <1>0, <1>20, <1>21, <1>22, Committing

------------------------------------------------------------------------------
(* Subscriptions and imports *)

\* The rows of one service are replaced.
LEMMA SavingSubs ==
  ASSUME ConfigInv, ConfigurationAssumption, NEW e \in Editors,
         NEW s \in DOMAIN conf.services, NEW rows \in Seq(SubRows),
         \A i \in DOMAIN rows : rows[i].dest \in DOMAIN conf.dests,
         NEW d, d = Saved(conf, [conf.services EXCEPT ![s] = @ + 1], [conf.subs EXCEPT ![s] = rows]),
         Distinct(Recipients(d, s)), Save(e, d, {}),
         deleted' = deleted, notes' = notes, unchecked' = unchecked
  PROVE  ConfigInv'
<1>1. Sound(conf, deleted) /\ Rebound(conf.dests, conf.routes, unchecked)
  BY ConfFits
<1>2. Moves(conf, deleted, d, deleted, {}) /\ d.dests = conf.dests /\ d.routes = conf.routes
  BY <1>1, SubsMoves
<1> QED BY <1>1, <1>2, Saving

\* A service that an editor holds is there, with its subscriptions.
LEMMA ServiceHeld ==
  ASSUME ConfigInv, NEW e \in Editors, Holds(e, "service")
  PROVE  Id(e) \in DOMAIN conf.services /\ Id(e) \in Services /\ conf.subs[Id(e)] \in Seq(SubRows)
<1>1. editor[e].at = "open" /\ editor[e].object[1] = "service"
  BY DEF Holds
<1>2. Id(e) \in DOMAIN conf.services
  BY <1>1, Held DEF Watched, Present, Id
<1>3. conf \in Confs
  BY ConfFits
<1>4. Id(e) \in Services
  BY <1>2, <1>3, ConfFields
<1>5. conf.subs \in [Services -> Seq(SubRows)]
  BY <1>3, ConfFields DEF Subs
<1> QED BY <1>2, <1>4, <1>5

\* AddServiceSubscription keeps the invariant: no chat is subscribed twice.
LEMMA AddingSubscriptions ==
  ASSUME ConfigInv, ConfigurationAssumption, NEW e \in Editors, AddServiceSubscription(e)
  PROVE  ConfigInv'
<1>0. /\ deleted' = deleted /\ notes' = notes /\ unchecked' = unchecked
      /\ Sound(conf, deleted) /\ conf \in Confs
  BY ConfFits DEF AddServiceSubscription
<1> DEFINE s == Id(e)
<1>1. s \in DOMAIN conf.services /\ s \in Services /\ conf.subs[s] \in Seq(SubRows)
  BY ServiceHeld DEF AddServiceSubscription
<1>2. PICK n \in DOMAIN conf.dests :
        /\ RecipientsValid(Revised(Subscribed(conf, s, n), s), s)
        /\ Save(e, Revised(Subscribed(conf, s, n), s), {})
  BY Zenon DEF AddServiceSubscription
<1> HIDE DEF s
<1> DEFINE row == [dest |-> n, active |-> TRUE]
           rows == Append(conf.subs[s], row)
           d == Revised(Subscribed(conf, s, n), s)
<1>3. row \in SubRows /\ row.dest \in DOMAIN conf.dests
  BY <1>0, ConfFields DEF SubRows
<1>4. d = Saved(conf, [conf.services EXCEPT ![s] = @ + 1], [conf.subs EXCEPT ![s] = rows])
  BY <1>0 DEF Revised, Subscribed, Saved, Confs
<1>5. Distinct(Recipients(d, s)) /\ Save(e, d, {})
  BY <1>2 DEF RecipientsValid
<1> HIDE DEF row, d
<1>6. /\ rows \in Seq(SubRows) /\ Len(rows) = Len(conf.subs[s]) + 1
      /\ \A i \in DOMAIN rows : rows[i] = IF i \in DOMAIN conf.subs[s] THEN conf.subs[s][i] ELSE row
  BY <1>1, <1>3
<1> HIDE DEF rows
<1>7. \A i \in DOMAIN rows : rows[i].dest \in DOMAIN conf.dests
  BY <1>0, <1>1, <1>3, <1>6 DEF Sound, SubsLinked
<1> QED BY <1>0, <1>1, <1>4, <1>5, <1>6, <1>7, SavingSubs

\* A subscription that is cancelled is not active.
LEMMA CancelledRows ==
  ASSUME NEW rows \in Seq(SubRows), NEW i \in DOMAIN rows
  PROVE  LET rows2 == [rows EXCEPT ![i].active = FALSE] IN
         /\ rows2 \in Seq(SubRows) /\ DOMAIN rows2 = DOMAIN rows
         /\ \A j \in DOMAIN rows : rows2[j].dest = rows[j].dest
         /\ \A j \in DOMAIN rows : rows2[j].active => rows[j].active
<1>1. \A j \in DOMAIN rows : rows[j] \in SubRows
  OBVIOUS
<1> DEFINE row == [rows[i] EXCEPT !.active = FALSE]
           rows2 == [rows EXCEPT ![i].active = FALSE]
<1>2. row \in SubRows /\ row.dest = rows[i].dest /\ ~row.active
  <2>1. rows[i] \in SubRows
    BY <1>1
  <2> QED BY <2>1 DEF SubRows
<1>3. rows2 = [rows EXCEPT ![i] = row]
  BY Zenon
<1> HIDE DEF row, rows2
<1>4. i \in 1 .. Len(rows) /\ DOMAIN rows = 1 .. Len(rows)
  OBVIOUS
<1>5. /\ rows2 \in Seq(SubRows) /\ Len(rows2) = Len(rows)
      /\ \A j \in 1 .. Len(rows) : rows2[j] = IF j = i THEN row ELSE rows[j]
  <2>1. row \in SubRows
    BY <1>2
  <2>2. /\ [rows EXCEPT ![i] = row] \in Seq(SubRows) /\ Len([rows EXCEPT ![i] = row]) = Len(rows)
        /\ \A j \in 1 .. Len(rows) : [rows EXCEPT ![i] = row][j] = IF j = i THEN row ELSE rows[j]
    BY <1>4, <2>1, ExceptSeq
  <2> QED BY <1>3, <2>2
<1>6. DOMAIN rows2 = DOMAIN rows
  BY <1>4, <1>5
<1>7. /\ \A j \in DOMAIN rows : rows2[j].dest = rows[j].dest
      /\ \A j \in DOMAIN rows : rows2[j].active => rows[j].active
  BY <1>2, <1>4, <1>5
<1> QED BY <1>5, <1>6, <1>7 DEF rows2

\* CancelServiceSubscription keeps it.
LEMMA CancellingSubscriptions ==
  ASSUME ConfigInv, ConfigurationAssumption, NEW e \in Editors, CancelServiceSubscription(e)
  PROVE  ConfigInv'
<1>0. /\ deleted' = deleted /\ notes' = notes /\ unchecked' = unchecked
      /\ Sound(conf, deleted) /\ conf \in Confs
  BY ConfFits DEF CancelServiceSubscription
<1> DEFINE s == Id(e)
<1>1. s \in DOMAIN conf.services /\ s \in Services /\ conf.subs[s] \in Seq(SubRows)
  BY ServiceHeld DEF CancelServiceSubscription
<1>2. PICK i \in ActiveSubs(conf, s) :
        Save(e, Revised([conf EXCEPT !.subs[s][i].active = FALSE], s), {})
  BY Zenon DEF CancelServiceSubscription
<1> HIDE DEF s
<1> DEFINE rows == [conf.subs[s] EXCEPT ![i].active = FALSE]
           d == Revised([conf EXCEPT !.subs[s][i].active = FALSE], s)
<1>3. i \in DOMAIN conf.subs[s]
  BY DEF ActiveSubs
<1>4. d = Saved(conf, [conf.services EXCEPT ![s] = @ + 1], [conf.subs EXCEPT ![s] = rows])
  BY <1>0 DEF Revised, Saved, Confs
<1>5. Save(e, d, {})
  BY <1>2
<1>6. rows = [conf.subs[s] EXCEPT ![i].active = FALSE]
  OBVIOUS
<1> HIDE DEF rows, d
<1>7. /\ rows \in Seq(SubRows) /\ DOMAIN rows = DOMAIN conf.subs[s]
      /\ \A j \in DOMAIN rows : rows[j].dest = conf.subs[s][j].dest
      /\ \A j \in DOMAIN rows : rows[j].active => conf.subs[s][j].active
  BY <1>1, <1>3, CancelledRows DEF rows
<1>8. \A j \in DOMAIN rows : rows[j].dest \in DOMAIN conf.dests
  BY <1>0, <1>1, <1>7 DEF Sound, SubsLinked
<1>9. d.subs[s] = rows /\ d.dests = conf.dests /\ d.accounts = conf.accounts
  <2>1. conf.services \in [DOMAIN conf.services -> Nat] /\ conf.subs \in [Services -> Seq(SubRows)]
    BY <1>0, ConfFields DEF Subs
  <2> QED BY <1>0, <1>1, <1>4, <2>1 DEF Saved, Confs
<1>10. Distinct(Recipients(d, s))
  <2>1. Distinct(Recipients(conf, s))
    BY <1>0, <1>1 DEF Sound, ChatsOnce
  <2>2. ASSUME NEW j \in ActiveSubs(d, s), Goes(d, s, j).account \in AccountIds(d)
        PROVE  /\ j \in ActiveSubs(conf, s) /\ Goes(conf, s, j).account \in AccountIds(conf)
               /\ Goes(d, s, j).account = Goes(conf, s, j).account
               /\ Goes(d, s, j).chat = Goes(conf, s, j).chat
               /\ TokenOf(d, Goes(d, s, j).account) = TokenOf(conf, Goes(conf, s, j).account)
    <3>1. j \in DOMAIN rows /\ rows[j].active
      BY <1>9, <2>2 DEF ActiveSubs
    <3>2. j \in ActiveSubs(conf, s)
      BY <1>7, <3>1 DEF ActiveSubs
    <3>3. Goes(d, s, j) = Goes(conf, s, j)
      BY <1>7, <1>9, <3>1 DEF Goes
    <3>4. AccountIds(d) = AccountIds(conf)
      BY <1>9 DEF AccountIds
    <3>5. \A a : TokenOf(d, a) = TokenOf(conf, a)
      BY <1>9 DEF TokenOf
    <3> QED BY <2>2, <3>2, <3>3, <3>4, <3>5
  <2> QED BY <2>1, <2>2, Fewer
<1> QED BY <1>0, <1>1, <1>4, <1>5, <1>7, <1>8, <1>10, SavingSubs

\* A service that is new has just the recipients of its manifest.
LEMMA ImportingServices ==
  ASSUME ConfigInv, ConfigurationAssumption, ImportNotificationServices
  PROVE  ConfigInv'
<1>0. /\ deleted' = deleted /\ notes' = notes /\ editor' = editor /\ unchecked' = unchecked
      /\ Sound(conf, deleted) /\ conf \in Confs /\ Rebound(conf.dests, conf.routes, unchecked)
  BY ConfFits DEF ImportNotificationServices
<1>1. PICK m \in Manifests(conf) :
        /\ \A s \in DOMAIN m :
             LET c == Imported(conf, m) IN
             {c.subs[s][i].dest : i \in ActiveSubs(c, s)} = m[s] /\ RecipientsValid(c, s)
        /\ Commit(Imported(conf, m), {})
  BY DEF ImportNotificationServices
<1>2. DOMAIN m \subseteq Services /\ \A s \in DOMAIN m : m[s] \subseteq DOMAIN conf.dests
  <2>1. PICK ss \in SUBSET Services \ {{}} : m \in [ss -> SUBSET (DOMAIN conf.dests) \ {{}}]
    BY DEF Manifests
  <2> QED BY <2>1
<1> DEFINE d == Imported(conf, m)
           new == DOMAIN m \ DOMAIN conf.services
           services == [s \in DOMAIN conf.services \cup new |-> IF s \in new THEN 1 ELSE conf.services[s]]
           rows(s) == [i \in 1 .. Cardinality(m[s]) |-> [dest |-> SetToSeq(m[s])[i], active |-> TRUE]]
           subs == [s \in Services |-> IF s \notin new THEN conf.subs[s] ELSE rows(s)]
<1>3. d = Saved(conf, services, subs)
  BY Zenon DEF Imported, Saved
<1>4. Commit(d, {}) /\ \A s \in DOMAIN m : {d.subs[s][i].dest : i \in ActiveSubs(d, s)} = m[s]
      /\ Distinct(Recipients(d, s))
  BY <1>1 DEF RecipientsValid
<1>5. new \subseteq DOMAIN m /\ new \cap DOMAIN conf.services = {} /\ new \in SUBSET Services
  BY <1>2
<1>6. /\ \A s \in Services \ new : subs[s] = conf.subs[s]
      /\ \A s \in new : subs[s] = rows(s)
      /\ subs = [s \in Services |-> subs[s]]
  BY <1>5
<1>7. services = [s \in DOMAIN conf.services \cup new |-> IF s \in new THEN 1 ELSE conf.services[s]]
  OBVIOUS
<1>8. d.subs = subs
  BY <1>0, <1>3 DEF Saved, Confs
<1> HIDE DEF d, new, services, subs
<1>9. ASSUME NEW s \in new
      PROVE  subs[s] \in Seq(SubRows) /\ \A i \in DOMAIN subs[s] : subs[s][i].dest \in DOMAIN conf.dests
  <2>1. s \in DOMAIN m /\ m[s] \subseteq DOMAIN conf.dests
    BY <1>2, <1>5
  <2>2. DOMAIN conf.dests \subseteq Dests
    BY <1>0, ConfFields
  <2>3. IsFiniteSet(m[s])
    BY <2>1, <2>2, FS_Subset DEF ConfigurationAssumption
  <2>4. Cardinality(m[s]) \in Nat
    BY <2>3, FS_CardinalityType
  <2> DEFINE k == Cardinality(m[s])
  <2>5. subs[s] = rows(s)
    BY <1>6
  <2> HIDE DEF k
  <2>6. /\ DOMAIN subs[s] = 1 .. k
        /\ \A i \in 1 .. k : subs[s][i] = [dest |-> SetToSeq(m[s])[i], active |-> TRUE]
    BY <2>5 DEF k
  <2>7. ASSUME NEW i \in 1 .. k PROVE subs[s][i].dest \in m[s]
    <3>1. i \in ActiveSubs(d, s)
      <4>1. i \in DOMAIN subs[s] /\ subs[s][i] = [dest |-> SetToSeq(m[s])[i], active |-> TRUE]
        BY <2>6
      <4>2. subs[s][i].active
        BY <4>1
      <4> QED BY <1>8, <4>1, <4>2 DEF ActiveSubs
    <3>2. {d.subs[s][j].dest : j \in ActiveSubs(d, s)} = m[s]
      BY <1>4, <2>1
    <3>3. d.subs[s][i].dest \in m[s]
      BY <3>1, <3>2
    <3> QED BY <1>8, <3>3
  <2>8. ASSUME NEW i \in 1 .. k PROVE subs[s][i] \in SubRows
    <3> DEFINE t == SetToSeq(m[s])[i]
    <3>1. subs[s][i] = [dest |-> t, active |-> TRUE]
      BY <2>6
    <3> HIDE DEF t
    <3>2. t = subs[s][i].dest
      BY <3>1
    <3>3. t \in Dests
      BY <2>1, <2>2, <2>7, <3>2
    <3>4. [dest |-> t, active |-> TRUE] \in SubRows
      BY <3>3 DEF SubRows
    <3> QED BY <3>1, <3>4
  <2>9. subs[s] = [i \in 1 .. k |-> subs[s][i]]
    BY <2>5 DEF k
  <2>10. subs[s] \in Seq(SubRows)
    <3> DEFINE q == subs[s]
    <3>1. q = [i \in 1 .. k |-> q[i]] /\ \A i \in 1 .. k : q[i] \in SubRows
      BY <2>8, <2>9
    <3>2. k \in Nat
      BY <2>4 DEF k
    <3> HIDE DEF q
    <3>3. q \in Seq(SubRows)
      BY <3>1, <3>2
    <3> QED BY <3>3 DEF q
  <2> QED BY <2>1, <2>6, <2>7, <2>10
<1>10. subs \in Subs
  <2>1. conf.subs \in [Services -> Seq(SubRows)]
    BY <1>0, ConfFields DEF Subs
  <2>2. \A s \in Services : subs[s] \in Seq(SubRows)
    BY <1>6, <1>9, <2>1
  <2> QED BY <1>6, <2>2 DEF Subs
<1>11. \A s \in new : Distinct(Recipients(d, s))
  BY <1>4, <1>5
<1>12. Moves(conf, deleted, d, deleted, {}) /\ d.dests = conf.dests /\ d.routes = conf.routes
  <2>1. d = Saved(conf, [s \in DOMAIN conf.services \cup new |-> IF s \in new THEN 1 ELSE conf.services[s]], subs)
    BY <1>3, <1>7
  <2>2. \A s \in new : \A i \in DOMAIN subs[s] : subs[s][i].dest \in DOMAIN conf.dests
    BY <1>9
  <2>3. \A s \in Services \ new : subs[s] = conf.subs[s]
    BY <1>6
  <2>4. Moves(conf, deleted, d, deleted, {})
    BY <1>0, <1>5, <1>10, <1>11, <2>1, <2>2, <2>3, ServicesMove
  <2> QED BY <1>0, <2>1, <2>4 DEF Saved, Confs
<1> QED BY <1>0, <1>4, <1>12, Committing

------------------------------------------------------------------------------
(* Workloads and notifications *)

\* CreateGatewayWorkloadAdmin keeps it.
LEMMA CreatingWorkloads ==
  ASSUME ConfigInv, ConfigurationAssumption, CreateGatewayWorkloadAdmin
  PROVE  ConfigInv'
<1>0. /\ deleted' = deleted /\ notes' = notes /\ editor' = editor /\ unchecked' = unchecked
      /\ Sound(conf, deleted) /\ conf \in Confs /\ Rebound(conf.dests, conf.routes, unchecked)
  BY ConfFits DEF CreateGatewayWorkloadAdmin
<1>1. PICK w \in Workloads \ DOMAIN conf.workloads :
        Commit([conf EXCEPT !.workloads = With(@, w, NewWorkload)], {})
  BY DEF CreateGatewayWorkloadAdmin
<1> DEFINE old == conf.workloads
           table == With(old, w, NewWorkload)
           d == [conf EXCEPT !.workloads = table]
<1>2. old \in Table(Workloads, WorkloadRows) /\ GrantsLinked(conf.routes, old)
  BY <1>0 DEF Confs, Sound
<1>3. NewWorkload \in WorkloadRows /\ NewWorkload.grants = {}
  BY DEF NewWorkload, WorkloadRows
<1>4. Commit(d, {})
  BY <1>1
<1> HIDE DEF old
<1>5. table \in Table(Workloads, WorkloadRows)
  <2>1. w \in Workloads
    OBVIOUS
  <2> QED BY <1>2, <1>3, <2>1, WithIn
<1>6. /\ DOMAIN table = DOMAIN old \cup {w} /\ table[w] = NewWorkload
      /\ \A x \in DOMAIN old : x # w => table[x] = old[x]
  BY DEF With
<1>7. w \notin DOMAIN old
  BY DEF old
<1>8. d = [conf EXCEPT !.workloads = table]
  OBVIOUS
<1> HIDE DEF table, d
<1>9. RowsAdvance(old, table) /\ GrantsLinked(conf.routes, table)
  BY <1>2, <1>3, <1>6, <1>7 DEF RowsAdvance, GrantsLinked
<1>10. Moves(conf, deleted, d, deleted, {}) /\ d.dests = conf.dests /\ d.routes = conf.routes
  BY <1>0, <1>5, <1>8, <1>9, WorkloadsMove DEF old
<1> QED BY <1>0, <1>4, <1>10, Committing

\* A workload gets a row of the next revision.
LEMMA RevisingWorkloads ==
  ASSUME ConfigInv, ConfigurationAssumption, NEW e \in Editors, Holds(e, "workload"),
         NEW row \in WorkloadRows, row.rev = conf.workloads[Id(e)].rev,
         row.grants \subseteq DOMAIN conf.routes, ReviseWorkload(e, row)
  PROVE  ConfigInv'
<1>0. /\ deleted' = deleted /\ notes' = notes /\ unchecked' = unchecked
      /\ Sound(conf, deleted) /\ conf \in Confs /\ Rebound(conf.dests, conf.routes, unchecked)
  BY ConfFits DEF ReviseWorkload
<1> DEFINE w == Id(e)
           old == conf.workloads
           next == [row EXCEPT !.rev = @ + 1]
           table == [old EXCEPT ![w] = next]
           d == [conf EXCEPT !.workloads = table]
<1>1. w \in DOMAIN old
  BY Held DEF Holds, Watched, Present, Id
<1>2. old \in [DOMAIN old -> WorkloadRows] /\ DOMAIN old \subseteq Workloads
  BY <1>0, ConfFields
<1>3. next \in WorkloadRows /\ next.rev = row.rev + 1 /\ next.grants = row.grants /\ row.rev \in Nat
  BY DEF WorkloadRows
<1>4. row.rev = old[w].rev
  OBVIOUS
<1>5. Save(e, d, {})
  BY <1>0, Zenon DEF ReviseWorkload
<1>6. d = [conf EXCEPT !.workloads = table]
  OBVIOUS
<1>7. GrantsLinked(conf.routes, old)
  BY <1>0 DEF Sound
<1> HIDE DEF w, old, next, d
<1>8. /\ DOMAIN table = DOMAIN old /\ table[w] = next /\ \A x \in DOMAIN old : x # w => table[x] = old[x]
      /\ table \in [DOMAIN table -> WorkloadRows]
  BY <1>1, <1>2, <1>3
<1> HIDE DEF table
<1>9. table \in Table(Workloads, WorkloadRows)
  BY <1>2, <1>8, InTable
<1>10. RowsAdvance(old, table)
  <2>1. next.rev > old[w].rev
    BY <1>3, <1>4
  <2> QED BY <1>8, <2>1 DEF RowsAdvance
<1>11. GrantsLinked(conf.routes, table)
  BY <1>3, <1>7, <1>8 DEF GrantsLinked
<1>12. Moves(conf, deleted, d, deleted, {}) /\ d.dests = conf.dests /\ d.routes = conf.routes
  BY <1>0, <1>6, <1>9, <1>10, <1>11, WorkloadsMove DEF old
<1> QED BY <1>0, <1>5, <1>12, Saving

\* Changing a workload's status, permissions or routes keeps it.
LEMMA EditingWorkloads ==
  ASSUME ConfigInv, ConfigurationAssumption, NEW e \in Editors,
         \/ SetGatewayWorkloadStatus(e) \/ SetServicePermissions(e)
         \/ RotateGatewayWorkloadCredential(e) \/ SetGatewayPermissions(e)
  PROVE  ConfigInv'
<1> DEFINE row == conf.workloads[Id(e)]
<1>1. Holds(e, "workload")
  BY DEF SetGatewayWorkloadStatus, SetServicePermissions, RotateGatewayWorkloadCredential,
     SetGatewayPermissions
<1>2. Sound(conf, deleted) /\ conf \in Confs
  BY ConfFits
<1>3. Id(e) \in DOMAIN conf.workloads
  BY <1>1, Held DEF Holds, Watched, Present, Id
<1>4. row \in WorkloadRows /\ row.grants \subseteq DOMAIN conf.routes /\ DOMAIN conf.routes \subseteq RouteKeys
  BY <1>2, <1>3, ConfFields DEF Sound, GrantsLinked
<1>5. row.rev = conf.workloads[Id(e)].rev
  OBVIOUS
<1>6. CASE SetGatewayWorkloadStatus(e)
  <2>1. PICK active \in BOOLEAN : ReviseWorkload(e, [row EXCEPT !.active = active])
    BY <1>6 DEF SetGatewayWorkloadStatus
  <2> DEFINE next == [row EXCEPT !.active = active]
  <2> HIDE DEF row
  <2>2. next \in WorkloadRows /\ next.rev = row.rev /\ next.grants = row.grants
    BY <1>4 DEF WorkloadRows
  <2>3. ReviseWorkload(e, next)
    BY <2>1
  <2> HIDE DEF next
  <2> QED BY <1>1, <1>4, <1>5, <2>2, <2>3, RevisingWorkloads
<1>7. CASE SetServicePermissions(e)
  <2>1. PICK publish \in BOOLEAN : ReviseWorkload(e, [row EXCEPT !.publish = publish])
    BY <1>7 DEF SetServicePermissions
  <2> DEFINE next == [row EXCEPT !.publish = publish]
  <2> HIDE DEF row
  <2>2. next \in WorkloadRows /\ next.rev = row.rev /\ next.grants = row.grants
    BY <1>4 DEF WorkloadRows
  <2>3. ReviseWorkload(e, next)
    BY <2>1
  <2> HIDE DEF next
  <2> QED BY <1>1, <1>4, <1>5, <2>2, <2>3, RevisingWorkloads
<1>8. CASE RotateGatewayWorkloadCredential(e)
  <2> DEFINE next == [row EXCEPT !.credentials = @ + 1]
  <2>3. ReviseWorkload(e, next)
    BY <1>8 DEF RotateGatewayWorkloadCredential
  <2> HIDE DEF row
  <2>2. next \in WorkloadRows /\ next.rev = row.rev /\ next.grants = row.grants
    BY <1>4 DEF WorkloadRows
  <2> HIDE DEF next
  <2> QED BY <1>1, <1>4, <1>5, <2>2, <2>3, RevisingWorkloads
<1>9. CASE SetGatewayPermissions(e)
  <2>1. PICK grants \in SUBSET DOMAIN conf.routes : ReviseWorkload(e, [row EXCEPT !.grants = grants])
    BY <1>9 DEF SetGatewayPermissions
  <2> DEFINE next == [row EXCEPT !.grants = grants]
  <2>4. grants \in SUBSET RouteKeys
    BY <1>4
  <2> HIDE DEF row
  <2>2. next \in WorkloadRows /\ next.rev = row.rev /\ next.grants = grants
    BY <1>4, <2>4 DEF WorkloadRows
  <2>3. ReviseWorkload(e, next)
    BY <2>1
  <2> HIDE DEF next
  <2> QED BY <1>1, <1>4, <1>5, <2>2, <2>3, RevisingWorkloads
<1> QED BY <1>6, <1>7, <1>8, <1>9

\* A notification pins the recipients its service has.
LEMMA Publishing ==
  ASSUME ConfigInv, ConfigurationAssumption, NEW p \in Publishers,
         publisher[p].at = "publish" => publisher[p].service \in Services,
         AcceptServiceNotification(p)
  PROVE  ConfigInv'
<1> DEFINE q == publisher[p]
           id == <<q.workload, q.key>>
           s == q.service
           note == [service |-> s, payload |-> q.payload,
                    count |-> Cardinality(Recipients(conf, s)), recipients |-> Recipients(conf, s)]
<1>0. /\ deleted' = deleted /\ history' = history /\ editor' = editor /\ unchecked' = unchecked
      /\ requests' = requests /\ q.at = "publish" /\ s \in Services
      /\ Sound(conf, deleted) /\ conf \in Confs /\ Rebound(conf.dests, conf.routes, unchecked)
  BY ConfFits DEF AcceptServiceNotification
<1>1. history' = [k \in RouteKeys |-> IF k \in {} THEN Append(history[k], Content(conf'.routes[k])) ELSE history[k]]
  BY <1>0 DEF ConfigInv, Explained
<1>2. \/ conf' = conf /\ notes' = notes
      \/ /\ Distinct(Recipients(conf, s))
         /\ notes' = With(notes, id, note)
         /\ conf' = IF s \in DOMAIN conf.services THEN conf
                    ELSE [conf EXCEPT !.services = With(@, s, 1)]
  BY Zenon DEF AcceptServiceNotification, RecipientsValid
<1> HIDE DEF note, id, s, q
<1>3. Pinned(conf.services, notes) /\ requests' \in 0 .. MaxRequests
  BY <1>0 DEF ConfigInv
<1>4. /\ Moves(conf, deleted, conf', deleted, {}) /\ conf'.dests = conf.dests
      /\ conf'.routes = conf.routes
      /\ DOMAIN conf.services \subseteq DOMAIN conf'.services
      /\ notes' # notes => s \in DOMAIN conf'.services
  <2>1. Moves(conf, deleted, conf, deleted, {})
    BY <1>0, Still DEF Moves, Advances
  <2>2. CASE conf' = conf /\ (notes' # notes => s \in DOMAIN conf.services)
    BY <2>1, <2>2
  <2>3. CASE s \notin DOMAIN conf.services /\ conf' = [conf EXCEPT !.services = With(@, s, 1)]
    <3> DEFINE d == [conf EXCEPT !.services = With(@, s, 1)]
               new == {s}
    <3>1. d = Saved(conf, [x \in DOMAIN conf.services \cup new |-> IF x \in new THEN 1 ELSE conf.services[x]],
                    conf.subs)
      <4>1. With(conf.services, s, 1) =
              [x \in DOMAIN conf.services \cup new |-> IF x \in new THEN 1 ELSE conf.services[x]]
        BY DEF With
      <4> QED BY <1>0, <4>1 DEF Saved, Confs
    <3>2. d.subs = conf.subs /\ d.dests = conf.dests /\ d.accounts = conf.accounts
      BY <1>0 DEF Confs
    <3>3. conf' = d
      BY <2>3
    <3> HIDE DEF d
    <3>4. conf.subs \in Subs
      BY <1>0, ConfFields
    <3>5. ASSUME NEW x \in new PROVE Distinct(Recipients(d, x))
      <4>1. Distinct(Recipients(conf, x))
        BY <1>0, <3>5 DEF Sound, ChatsOnce
      <4> QED BY <3>2, <4>1, OthersReached
    <3>6. \A x \in new : \A i \in DOMAIN conf.subs[x] : conf.subs[x][i].dest \in DOMAIN conf.dests
      BY <1>0 DEF Sound, SubsLinked
    <3>7. new \in SUBSET Services /\ new \cap DOMAIN conf.services = {} /\ s \in new
      BY <1>0, <2>3
    <3> HIDE DEF new
    <3>8. /\ Moves(conf, deleted, d, deleted, {}) /\ d.dests = conf.dests /\ d.routes = conf.routes
          /\ DOMAIN d.services = DOMAIN conf.services \cup new
      <4>1. \A x \in Services \ new : conf.subs[x] = conf.subs[x]
        OBVIOUS
      <4>2. \A x \in new : Distinct(Recipients(d, x))
        BY <3>5
      <4>3. Moves(conf, deleted, d, deleted, {})
        BY <1>0, <3>1, <3>4, <3>6, <3>7, <4>1, <4>2, ServicesMove
      <4>4. d.dests = conf.dests /\ d.routes = conf.routes
        BY <1>0, <3>1 DEF Saved, Confs
      <4>5. d.services = [x \in DOMAIN conf.services \cup new |-> IF x \in new THEN 1 ELSE conf.services[x]]
        BY <1>0, <3>1 DEF Saved, Confs
      <4>6. DOMAIN d.services = DOMAIN conf.services \cup new
        BY <4>5
      <4> QED BY <4>3, <4>4, <4>6
    <3> QED BY <3>3, <3>7, <3>8
  <2> QED BY <1>2, <2>2, <2>3
<1>5. notes' = notes \/ Pinned(conf'.services, notes')
  <2>1. CASE Distinct(Recipients(conf, s)) /\ notes' = With(notes, id, note) /\ notes' # notes
    <3>1. /\ note.service = s /\ note.recipients = Recipients(conf, s)
          /\ note.count = Cardinality(note.recipients)
      BY DEF note
    <3>2. ASSUME NEW x \in DOMAIN notes'
          PROVE  \/ x \in DOMAIN notes /\ notes'[x] = notes[x]
                 \/ notes'[x] = note
      BY <2>1 DEF With
    <3>3. s \in DOMAIN conf'.services
      BY <1>4, <2>1
    <3>4. ASSUME NEW x \in DOMAIN notes'
          PROVE  /\ notes'[x].service \in DOMAIN conf'.services
                 /\ Distinct(notes'[x].recipients)
                 /\ notes'[x].count = Cardinality(notes'[x].recipients)
      <4>1. CASE notes'[x] = note
        BY <2>1, <3>1, <3>3, <4>1
      <4>2. CASE x \in DOMAIN notes /\ notes'[x] = notes[x]
        BY <1>3, <1>4, <4>2 DEF Pinned
      <4> QED BY <3>2, <4>1, <4>2
    <3> QED BY <3>4 DEF Pinned
  <2> QED BY <1>2, <2>1
<1>6. Rebound(conf'.dests, conf'.routes, unchecked')
  BY <1>0, <1>4
<1>7. Moves(conf, deleted, conf', deleted', {})
  BY <1>0, <1>4
<1> QED BY <1>0, <1>1, <1>3, <1>5, <1>6, <1>7, Committed

------------------------------------------------------------------------------
(* The whole *)

\* The restore of a snapshot keeps it.
LEMMA Restoring ==
  ASSUME ConfigInv, ConfigurationAssumption, RestoreConfiguration
  PROVE  ConfigInv'
<1>1. PICK s \in Backups :
        /\ Valid(s) /\ conf = EmptyConf /\ Refs(s.bots) \cap deleted = {}
        /\ Commit(Restored(s), {r.key : r \in s.routes})
  BY DEF RestoreConfiguration
<1>2. /\ s \in Snapshots /\ IsFiniteSet(s.dests)
      /\ \A n \in Services : IsFiniteSet(SubsOf(s, n))
      /\ \A n \in Services : Refs(SubsOf(s, n)) = 1 .. Cardinality(SubsOf(s, n))
  <2>1. \A n \in Services : SubsOf(s, n) \in SUBSET s.subs
    BY DEF SubsOf
  <2> QED BY <2>1, BackupsAssumption, FS_Subset
<1>3. deleted' = deleted /\ notes' = notes /\ editor' = editor /\ unchecked' = unchecked
  BY DEF RestoreConfiguration
<1> DEFINE d == Restored(s)
           keys == {r.key : r \in s.routes}
<1>4. Moves(EmptyConf, deleted, d, deleted, keys) /\ \A u : Rebound(d.dests, d.routes, u)
  BY <1>1, <1>2, RestoredMoves
<1>5. Commit(d, keys)
  BY <1>1
<1> HIDE DEF d, keys
<1>6. Moves(conf, deleted, d, deleted, keys) /\ Rebound(d.dests, d.routes, unchecked)
  BY <1>1, <1>4
<1> QED BY <1>3, <1>5, <1>6, Committing

\* A publisher is authorised for a service there is.
Authorized(pub) ==
  /\ pub = [p \in Publishers |-> pub[p]]
  /\ \A p \in Publishers : pub[p] = Idle \/ pub[p].service \in Services

\* A publisher at work was authorized for a service there is.
LEMMA PublishersKept ==
  ASSUME Authorized(publisher), [BackupNext]_backupVars
  PROVE  Authorized(publisher')
<1>1. ASSUME NEW p \in Publishers, NEW x, publisher' = [publisher EXCEPT ![p] = x],
             x = Idle \/ x.service \in Services
      PROVE  Authorized(publisher')
  <2>1. \A r \in Publishers : publisher'[r] = IF r = p THEN x ELSE publisher[r]
    BY <1>1 DEF Authorized
  <2>2. publisher' = [r \in Publishers |-> publisher'[r]]
    BY <1>1 DEF Authorized
  <2> HIDE DEF Idle
  <2>3. ASSUME NEW r \in Publishers PROVE publisher'[r] = Idle \/ publisher'[r].service \in Services
    BY <1>1, <2>1 DEF Authorized
  <2> QED BY <2>2, <2>3 DEF Authorized
<1>2. ASSUME NEW p \in Publishers, Authorize(p) PROVE Authorized(publisher')
  <2>1. PICK w \in DOMAIN conf.workloads, key \in Keys, payload \in Payloads :
          \E s \in {x \in Services : SourceOf[x] = w} : publisher' = [publisher EXCEPT ![p] =
            [at |-> "publish", workload |-> w, service |-> s, key |-> key, payload |-> payload]]
    BY <1>2 DEF Authorize
  <2>2. PICK s \in Services : publisher' = [publisher EXCEPT ![p] =
          [at |-> "publish", workload |-> w, service |-> s, key |-> key, payload |-> payload]]
    BY <2>1
  <2> DEFINE x == [at |-> "publish", workload |-> w, service |-> s, key |-> key, payload |-> payload]
  <2>3. x.service \in Services /\ publisher' = [publisher EXCEPT ![p] = x]
    BY <2>2
  <2> HIDE DEF x
  <2> QED BY <1>1, <2>3
<1>3. ASSUME NEW p \in Publishers, AcceptServiceNotification(p) PROVE Authorized(publisher')
  <2>1. publisher' = [publisher EXCEPT ![p] = Idle]
    BY <1>3 DEF AcceptServiceNotification
  <2> QED BY <1>1, <2>1
<1>4. ASSUME NEW e \in Editors, Administer(e) PROVE publisher' = publisher
  <2>1. CASE Open(e) \/ OpenUnnamed(e) \/ Refuse(e)
    BY <2>1 DEF Open, OpenUnnamed, Refuse
  <2>2. CASE RotateBotAccount(e) \/ AddTelegramDestination(e) \/ MigrateTelegramDestination(e)
    BY <2>2 DEF RotateBotAccount, AddTelegramDestination, MigrateTelegramDestination
  <2>3. CASE AddBusinessRoute(e) \/ UpdateBusinessRouteExpected(e)
    BY <2>3 DEF AddBusinessRoute, UpdateBusinessRouteExpected, WriteRoute
  <2>4. CASE AddServiceSubscription(e) \/ CancelServiceSubscription(e)
    BY <2>4 DEF AddServiceSubscription, CancelServiceSubscription
  <2>5. CASE \/ SetGatewayWorkloadStatus(e) \/ SetServicePermissions(e)
             \/ RotateGatewayWorkloadCredential(e) \/ SetGatewayPermissions(e)
    BY <2>5 DEF SetGatewayWorkloadStatus, SetServicePermissions, RotateGatewayWorkloadCredential,
       SetGatewayPermissions, ReviseWorkload
  <2> QED BY <1>4, <2>1, <2>2, <2>3, <2>4, <2>5 DEF Administer
<1>5. CASE \E e \in Editors : Administer(e)
  BY <1>4, <1>5
<1>6. CASE AddBotAccount \/ AddBotConfig \/ UpdateBotConfig \/ DeleteBotConfig
  BY <1>6 DEF AddBotAccount, AddBotConfig, UpdateBotConfig, DeleteBotConfig
<1>7. CASE CreateBusinessRouteSetup \/ ImportNotificationServices \/ CreateGatewayWorkloadAdmin
  BY <1>7 DEF CreateBusinessRouteSetup, ImportNotificationServices, CreateGatewayWorkloadAdmin
<1>8. CASE RestoreConfiguration
  BY <1>8 DEF RestoreConfiguration
<1>9. CASE UNCHANGED backupVars
  BY <1>9 DEF backupVars, vars
<1> QED BY <1>2, <1>3, <1>5, <1>6, <1>7, <1>8, <1>9 DEF BackupNext, ConfigurationNext

\* A refused edit changes nothing but its editor.
LEMMA Refusing ==
  ASSUME ConfigInv, NEW e \in Editors, Refuse(e)
  PROVE  ConfigInv'
<1>1. /\ conf' = conf /\ deleted' = deleted /\ history' = history /\ notes' = notes
      /\ unchecked' = unchecked /\ requests' = requests /\ editor' = [editor EXCEPT ![e] = Idle]
  BY DEF Refuse
<1>2. Watching(conf, deleted, editor)
  BY DEF ConfigInv
<1>3. /\ editor' = [f \in Editors |-> editor'[f]]
      /\ \A f \in Editors : editor'[f] = IF f = e THEN Idle ELSE editor[f]
  BY <1>1, <1>2 DEF Watching
<1> HIDE DEF Idle
<1>4. Watching(conf, deleted, editor')
  BY <1>2, <1>3 DEF Watching
<1> QED BY <1>1, <1>4 DEF ConfigInv

\* Every step keeps the invariant.
LEMMA ConfigurationKept ==
  ASSUME ConfigurationAssumption, ConfigInv, Authorized(publisher), [BackupNext]_backupVars
  PROVE  ConfigInv'
<1>1. ASSUME NEW e \in Editors, Administer(e) PROVE ConfigInv'
  BY <1>1, OpenSteps, Refusing, RotatingAccounts, AddingDests, MigratingDests, EditingRoutes,
     AddingSubscriptions, CancellingSubscriptions, EditingWorkloads DEF Administer
<1>2. CASE \E e \in Editors : Administer(e)
  BY <1>1, <1>2
<1>3. CASE \/ AddBotAccount \/ AddBotConfig \/ UpdateBotConfig \/ DeleteBotConfig
           \/ CreateBusinessRouteSetup \/ ImportNotificationServices \/ CreateGatewayWorkloadAdmin
  BY <1>3, AddingBots, UpdatingBots, DeletingBots, SettingUp, ImportingServices, CreatingWorkloads
<1>4. ASSUME NEW p \in Publishers, Authorize(p) PROVE ConfigInv'
  <2>1. /\ conf' = conf /\ deleted' = deleted /\ history' = history /\ notes' = notes
        /\ editor' = editor /\ unchecked' = unchecked /\ requests' = requests
    BY <1>4 DEF Authorize
  <2> QED BY <2>1 DEF ConfigInv
<1>5. ASSUME NEW p \in Publishers, AcceptServiceNotification(p) PROVE ConfigInv'
  <2>1. publisher[p].at = "publish" => publisher[p].service \in Services
    BY DEF Authorized, Idle
  <2> QED BY <1>5, <2>1, Publishing
<1>6. CASE RestoreConfiguration
  BY <1>6, Restoring
<1>7. CASE UNCHANGED backupVars
  <2>1. /\ conf' = conf /\ deleted' = deleted /\ history' = history /\ notes' = notes
        /\ editor' = editor /\ unchecked' = unchecked /\ requests' = requests
    BY <1>7 DEF backupVars, vars
  <2> QED BY <2>1 DEF ConfigInv
<1> QED BY <1>2, <1>3, <1>4, <1>5, <1>6, <1>7 DEF BackupNext, ConfigurationNext

\* The tables stay sound, the history explains the routes, routes keep their
\* destinations' accounts, notifications stay pinned, and an administrator's
\* request stays comparable with the object it is about: through every
\* transaction of the store and every restore of a backup.
THEOREM ConfigurationStays == BackupSpec => [](ConfigInv /\ Authorized(publisher))
<1>1. BackupInit => ConfigInv /\ Authorized(publisher)
  <2> SUFFICES ASSUME BackupInit PROVE ConfigInv /\ Authorized(publisher)
    OBVIOUS
  <2>1. Init
    BY DEF BackupInit
  <2>2. ConfigInv
    BY <2>1, ConfigurationAssumption, StartsSound
  <2>3. publisher = [p \in Publishers |-> Idle]
    BY <2>1 DEF Init
  <2> HIDE DEF Idle
  <2>4. Authorized(publisher)
    BY <2>3 DEF Authorized
  <2> QED BY <2>2, <2>4
<1>2. (ConfigInv /\ Authorized(publisher)) /\ [BackupNext]_backupVars
        => (ConfigInv /\ Authorized(publisher))'
  BY ConfigurationAssumption, ConfigurationKept, PublishersKept
<1> QED BY <1>1, <1>2, PTL DEF BackupSpec

------------------------------------------------------------------------------
(* What follows *)

\* Every table holds what its columns say, accounts mirror the token of their
\* bot, and nothing refers to a row that is not there.
THEOREM ConfigurationTyped == BackupSpec => []TypeOK
<1>1. ConfigInv => TypeOK
  <2> SUFFICES ASSUME ConfigInv PROVE TypeOK
    OBVIOUS
  <2>1. Sound(conf, deleted) /\ conf \in Confs
    BY ConfFits
  <2>2. /\ DOMAIN conf.token \subseteq Bots /\ \A b \in DOMAIN conf.token : conf.token[b] \in Tokens
        /\ DOMAIN conf.dests \subseteq Dests /\ \A d \in DOMAIN conf.dests : conf.dests[d] \in DestRows
        /\ DOMAIN conf.services \subseteq Services /\ DOMAIN conf.workloads \subseteq Workloads
    BY <2>1, ConfFields
  <2>3. ASSUME NEW b \in Bots, NEW n \in DOMAIN conf.accounts[b]
        PROVE  /\ conf.accounts[b][n].rev \in Nat \ {0} /\ conf.accounts[b][n].token \in Tokens
               /\ b \in DOMAIN conf.token /\ conf.accounts[b][n].token = conf.token[b]
    <3>1. conf.accounts \in [Bots -> Seq(AccountRows)]
      BY <2>1, ConfFields DEF Accounts
    <3>2. conf.accounts[b][n] \in AccountRows
      BY <3>1
    <3> QED BY <2>1, <3>2 DEF AccountRows, Sound, Mirrored
  <2>4. /\ DOMAIN conf.routes \subseteq RouteKeys
        /\ \A k \in DOMAIN conf.routes :
             Content(conf.routes[k]) \in RouteContents /\ conf.routes[k].rev \in Nat \ {0}
    <3>1. /\ conf.routes \in [DOMAIN conf.routes -> RouteRows] /\ DOMAIN conf.routes \subseteq RouteKeys
      BY <2>1, ConfFields
    <3> QED BY <3>1 DEF RouteRows, Content, RouteContents
  <2>5. ConfTypeOK
    BY <2>1, <2>2, <2>3, <2>4 DEF ConfTypeOK, IsTable, Sound, SubsLinked, GrantsLinked, DestRows
  <2>6. \A k \in RouteKeys : \A i \in DOMAIN history[k] : history[k][i] \in RouteContents
    <3>1. history \in [RouteKeys -> Seq(RouteContents)]
      BY DEF ConfigInv, Explained
    <3> QED BY <3>1
  <2>7. /\ \A n \in DOMAIN notes : notes[n].service \in DOMAIN conf.services
        /\ requests \in 0 .. MaxRequests
    BY DEF ConfigInv, Pinned
  <2> QED BY <2>3, <2>5, <2>6, <2>7 DEF TypeOK
<1> QED BY <1>1, ConfigurationStays, PTL

\* The newest row of a route's history is the route, and its revision counts them.
THEOREM RoutesExplained == BackupSpec => []HistoryExplainsRoutes
<1>1. ConfigInv => HistoryExplainsRoutes
  BY DEF ConfigInv, Explained, HistoryExplainsRoutes
<1> QED BY <1>1, ConfigurationStays, PTL

\* A route and its destination name one account, unless it was written after its
\* destination had moved.
THEOREM RoutesRebound == BackupSpec => []MigrationKeepsRoutes
<1>1. ConfigInv => MigrationKeepsRoutes
  BY DEF ConfigInv, Rebound, MigrationKeepsRoutes
<1> QED BY <1>1, ConfigurationStays, PTL

\* No service reaches a chat through one bot twice, nor does a notification.
THEOREM ChatsReachedOnce == BackupSpec => []EachChatOnce
<1>1. ConfigInv => EachChatOnce
  BY DEF ConfigInv, Sound, ChatsOnce, Pinned, EachChatOnce
<1> QED BY <1>1, ConfigurationStays, PTL

------------------------------------------------------------------------------
(* Revisions *)

\* An object under the revision an administrator saw is what it saw.
LEMMA SameSeen ==
  ASSUME ConfigInv, NEW e \in Editors, editor[e].at = "open", editor[e].rev # 0, Expected(e),
         Present(conf, editor[e].object)
  PROVE  Row(conf, editor[e].object) = editor[e].seen
  BY Held DEF Watched, Expected

\* An edit that is saved was read at the revision it replaces.
LEMMA SavesSeen ==
  ASSUME ConfigInv, NEW f \in Editors, Administer(f), NEW e \in Editors,
         editor[e].at = "open", editor[e].rev # 0, editor'[e].at = "idle", conf' # conf
  PROVE  Expected(e) /\ Present(conf, editor[e].object)
<1>1. /\ Watched(conf, deleted, editor[e])
      /\ editor = [x \in Editors |-> editor[x]]
  BY Held DEF ConfigInv, Watching
<1>2. ASSUME editor' = [editor EXCEPT ![f] = Idle] PROVE f = e
  BY <1>1, <1>2
<1>3. editor[e].object[1] # "account" => Present(conf, editor[e].object)
  BY <1>1 DEF Watched
<1>4. CASE Open(f) \/ OpenUnnamed(f) \/ Refuse(f)
  BY <1>4 DEF Open, OpenUnnamed, Refuse
<1>5. CASE RotateBotAccount(f)
  <2>1. Holds(f, "account") /\ Id(f) \in AccountIds(conf) /\ Expected(f)
    BY <1>5 DEF RotateBotAccount
  <2>2. editor' = [editor EXCEPT ![f] = Idle]
    BY <1>5 DEF RotateBotAccount, Save
  <2>3. f = e
    BY <1>2, <2>2
  <2> QED BY <2>1, <2>3 DEF Holds, Id, Present
<1>6. CASE AddTelegramDestination(f) \/ AddBusinessRoute(f)
  <2>1. editor[f].object[1] \in {"newDest", "newRoute"}
    BY <1>6 DEF AddTelegramDestination, AddBusinessRoute, Holds
  <2>2. editor' = [editor EXCEPT ![f] = Idle]
    BY <1>6 DEF AddTelegramDestination, AddBusinessRoute, WriteRoute, Save
  <2> QED BY <1>1, <1>2, <2>1, <2>2 DEF Watched
<1>7. CASE MigrateTelegramDestination(f)
  <2>1. Holds(f, "dest") /\ Expected(f)
    BY <1>7 DEF MigrateTelegramDestination
  <2>2. editor' = [editor EXCEPT ![f] = Idle]
    BY <1>7 DEF MigrateTelegramDestination, Save
  <2> QED BY <1>2, <1>3, <2>1, <2>2 DEF Holds
<1>8. CASE UpdateBusinessRouteExpected(f)
  <2>1. Holds(f, "route") /\ (editor[f].rev = 0 \/ Expected(f))
    BY <1>8 DEF UpdateBusinessRouteExpected
  <2>2. editor' = [editor EXCEPT ![f] = Idle]
    BY <1>8 DEF UpdateBusinessRouteExpected, WriteRoute, Save
  <2> QED BY <1>2, <1>3, <2>1, <2>2 DEF Holds
<1>9. CASE AddServiceSubscription(f) \/ CancelServiceSubscription(f)
  <2>1. Holds(f, "service") /\ Expected(f)
    BY <1>9 DEF AddServiceSubscription, CancelServiceSubscription
  <2>2. editor' = [editor EXCEPT ![f] = Idle]
    BY <1>9 DEF AddServiceSubscription, CancelServiceSubscription, Save
  <2> QED BY <1>2, <1>3, <2>1, <2>2 DEF Holds
<1>10. CASE \/ SetGatewayWorkloadStatus(f) \/ SetServicePermissions(f)
            \/ RotateGatewayWorkloadCredential(f) \/ SetGatewayPermissions(f)
  <2>1. Holds(f, "workload") /\ Expected(f)
    BY <1>10 DEF SetGatewayWorkloadStatus, SetServicePermissions, RotateGatewayWorkloadCredential,
       SetGatewayPermissions
  <2>2. editor' = [editor EXCEPT ![f] = Idle]
    BY <1>10 DEF SetGatewayWorkloadStatus, SetServicePermissions, RotateGatewayWorkloadCredential,
       SetGatewayPermissions, ReviseWorkload, Save
  <2> QED BY <1>2, <1>3, <2>1, <2>2 DEF Holds
<1> QED BY <1>4, <1>5, <1>6, <1>7, <1>8, <1>9, <1>10 DEF Administer

\* An edit that names a revision replaces what its administrator saw.
THEOREM EditsReplaceTheSeen == BackupSpec => EditsReplaceWhatTheySaw
<1> DEFINE Replaces == \A e \in Editors :
             (editor[e].at = "open" /\ editor[e].rev # 0 /\ editor'[e].at = "idle" /\ conf' # conf)
               => Row(conf, editor[e].object) = editor[e].seen
<1>1. ConfigInv /\ [BackupNext]_backupVars => [Replaces]_vars
  <2> SUFFICES ASSUME ConfigInv, [BackupNext]_backupVars, NEW e \in Editors,
                      editor[e].at = "open", editor[e].rev # 0, editor'[e].at = "idle", conf' # conf
               PROVE  Row(conf, editor[e].object) = editor[e].seen
    BY DEF vars
  <2>1. editor' # editor
    OBVIOUS
  <2>2. CASE \E f \in Editors : Administer(f)
    BY <2>2, SavesSeen, SameSeen
  <2>3. CASE AddBotAccount \/ AddBotConfig \/ UpdateBotConfig \/ DeleteBotConfig
    BY <2>1, <2>3 DEF AddBotAccount, AddBotConfig, UpdateBotConfig, DeleteBotConfig
  <2>4. CASE CreateBusinessRouteSetup \/ ImportNotificationServices \/ CreateGatewayWorkloadAdmin
    BY <2>1, <2>4 DEF CreateBusinessRouteSetup, ImportNotificationServices, CreateGatewayWorkloadAdmin
  <2>5. CASE \E p \in Publishers : Authorize(p) \/ AcceptServiceNotification(p)
    BY <2>1, <2>5 DEF Authorize, AcceptServiceNotification
  <2>6. CASE RestoreConfiguration
    BY <2>1, <2>6 DEF RestoreConfiguration
  <2>7. CASE UNCHANGED backupVars
    BY <2>1, <2>7 DEF backupVars, vars
  <2> QED BY <2>2, <2>3, <2>4, <2>5, <2>6, <2>7 DEF BackupNext, ConfigurationNext
<1> QED BY <1>1, ConfigurationStays, PTL DEF BackupSpec, EditsReplaceWhatTheySaw

------------------------------------------------------------------------------
(* A configuration that is exported and restored *)

\* A set of rows that a table names: a reference leads to the row of its key, and
\* there are as many rows as keys.
LEMMA RowsOf ==
  ASSUME NEW t, \A k \in DOMAIN t : t[k].ref = k, NEW rows,
         \A r : r \in rows <=> \E k \in DOMAIN t : r = t[k]
  PROVE  /\ Refs(rows) = DOMAIN t
         /\ \A k \in DOMAIN t : t[k] \in rows /\ ByRef(rows, k) = t[k]
         /\ IsFiniteSet(DOMAIN t) => IsFiniteSet(rows) /\ Cardinality(rows) = Cardinality(DOMAIN t)
<1>1. Refs(rows) = DOMAIN t
  BY DEF Refs
<1>2. ASSUME NEW k \in DOMAIN t PROVE t[k] \in rows /\ ByRef(rows, k) = t[k]
  <2>1. ByRef(rows, k) \in rows /\ ByRef(rows, k).ref = k
    BY <1>1, ByRefIs
  <2> QED BY <2>1
<1>3. ASSUME IsFiniteSet(DOMAIN t)
      PROVE  IsFiniteSet(rows) /\ Cardinality(rows) = Cardinality(DOMAIN t)
  <2> DEFINE f == [k \in DOMAIN t |-> t[k]]
  <2>1. f \in Bijection(DOMAIN t, rows)
    <3>1. f \in [DOMAIN t -> rows] /\ \A r \in rows : \E k \in DOMAIN t : f[k] = r
      OBVIOUS
    <3>2. \A k, l \in DOMAIN t : f[k] = f[l] => k = l
      OBVIOUS
    <3>3. DOMAIN f = DOMAIN t
      OBVIOUS
    <3> HIDE DEF f
    <3> QED BY <3>1, <3>2, <3>3 DEF Bijection, Injection, Surjection, IsInjective
  <2>2. ExistsBijection(DOMAIN t, rows)
    BY <2>1 DEF ExistsBijection
  <2> QED BY <1>3, <2>2, FS_Bijection
<1> QED BY <1>1, <1>2, <1>3

\* The rows of an export, by the key each has in its table.
ExportedBot(c, b) == [ref |-> b, token |-> c.token[b]]
ExportedDest(c, d) == [ref |-> d, bot |-> BotRef(c, c.dests[d].account), chat |-> c.dests[d].chat,
                  active |-> c.dests[d].active]
ExportedRoute(c, k) == [key |-> k, bot |-> BotRef(c, c.routes[k].account), dest |-> DestRef(c, k),
                   inbound |-> c.routes[k].inbound, enabled |-> c.routes[k].enabled]
ExportedWorkload(c, w) ==
  [name |-> w, active |-> c.workloads[w].active, publish |-> c.workloads[w].publish,
   grants |-> c.workloads[w].grants, credentials |-> c.workloads[w].credentials]
ExportedSub(c, n, i) ==
  [service |-> n, ref |-> i, dest |-> c.subs[n][i].dest, active |-> c.subs[n][i].active]

LEMMA ExportRows ==
  ASSUME NEW c
  PROVE  Export(c) = [
    bots      |-> {ExportedBot(c, b) : b \in DOMAIN c.token},
    dests     |-> {ExportedDest(c, d) : d \in DOMAIN c.dests},
    routes    |-> {ExportedRoute(c, k) : k \in DOMAIN c.routes},
    workloads |-> {ExportedWorkload(c, w) : w \in DOMAIN c.workloads},
    services  |-> DOMAIN c.services,
    subs      |-> UNION {{ExportedSub(c, n, i) : i \in DOMAIN c.subs[n]} : n \in Services}]
BY Zenon DEF Export, ExportedBot, ExportedDest, ExportedRoute, ExportedWorkload, ExportedSub

\* An export has a row for each row of the tables, and finds each by its key.
LEMMA ExportIs ==
  ASSUME NEW c, NEW s, s = Export(c)
  PROVE  /\ Refs(s.bots) = DOMAIN c.token
         /\ \A b \in DOMAIN c.token : ByRef(s.bots, b) = ExportedBot(c, b)
         /\ Refs(s.dests) = DOMAIN c.dests /\ s.dests = {ExportedDest(c, d) : d \in DOMAIN c.dests}
         /\ \A d \in DOMAIN c.dests : ByRef(s.dests, d) = ExportedDest(c, d)
         /\ IsFiniteSet(DOMAIN c.dests) => IsFiniteSet(s.dests)
         /\ s.bots = {ExportedBot(c, b) : b \in DOMAIN c.token}
         /\ s.routes = {ExportedRoute(c, k) : k \in DOMAIN c.routes}
         /\ s.workloads = {ExportedWorkload(c, w) : w \in DOMAIN c.workloads}
         /\ s.services = DOMAIN c.services
<1>1. /\ s.bots = {ExportedBot(c, b) : b \in DOMAIN c.token}
      /\ s.dests = {ExportedDest(c, d) : d \in DOMAIN c.dests}
      /\ s.routes = {ExportedRoute(c, k) : k \in DOMAIN c.routes}
      /\ s.workloads = {ExportedWorkload(c, w) : w \in DOMAIN c.workloads}
      /\ s.services = DOMAIN c.services
  BY ExportRows
<1>2. /\ \A b : ExportedBot(c, b).ref = b
      /\ \A d : ExportedDest(c, d).ref = d
  BY DEF ExportedBot, ExportedDest
<1>3. /\ Refs(s.bots) = DOMAIN c.token
      /\ \A b \in DOMAIN c.token : ByRef(s.bots, b) = ExportedBot(c, b)
  <2> DEFINE t == [b \in DOMAIN c.token |-> ExportedBot(c, b)]
  <2>1. DOMAIN t = DOMAIN c.token /\ \A b \in DOMAIN t : t[b] = ExportedBot(c, b)
    OBVIOUS
  <2> HIDE DEF t
  <2>2. \A k \in DOMAIN t : t[k].ref = k
    BY <1>2, <2>1
  <2>3. \A r : r \in s.bots <=> \E k \in DOMAIN t : r = t[k]
    BY <1>1, <2>1
  <2>4. /\ Refs(s.bots) = DOMAIN t
        /\ \A k \in DOMAIN t : t[k] \in s.bots /\ ByRef(s.bots, k) = t[k]
        /\ IsFiniteSet(DOMAIN t) =>
             IsFiniteSet(s.bots) /\ Cardinality(s.bots) = Cardinality(DOMAIN t)
    BY <2>2, <2>3, RowsOf, Zenon
  <2> QED BY <2>1, <2>4
<1>4. /\ Refs(s.dests) = DOMAIN c.dests
      /\ \A d \in DOMAIN c.dests : ByRef(s.dests, d) = ExportedDest(c, d)
      /\ IsFiniteSet(DOMAIN c.dests) => IsFiniteSet(s.dests)
  <2> DEFINE t == [d \in DOMAIN c.dests |-> ExportedDest(c, d)]
  <2>1. DOMAIN t = DOMAIN c.dests /\ \A d \in DOMAIN t : t[d] = ExportedDest(c, d)
    OBVIOUS
  <2> HIDE DEF t
  <2>2. \A k \in DOMAIN t : t[k].ref = k
    BY <1>2, <2>1
  <2>3. \A r : r \in s.dests <=> \E k \in DOMAIN t : r = t[k]
    BY <1>1, <2>1
  <2>4. /\ Refs(s.dests) = DOMAIN t
        /\ \A k \in DOMAIN t : t[k] \in s.dests /\ ByRef(s.dests, k) = t[k]
        /\ IsFiniteSet(DOMAIN t) =>
             IsFiniteSet(s.dests) /\ Cardinality(s.dests) = Cardinality(DOMAIN t)
    BY <2>2, <2>3, RowsOf, Zenon
  <2> QED BY <2>1, <2>4
<1> QED BY <1>1, <1>3, <1>4

\* The subscriptions of a service are numbered as in its table.
LEMMA ExportedSubs ==
  ASSUME NEW c \in Confs, NEW s, s = Export(c), NEW n \in Services
  PROVE  /\ SubsOf(s, n) = {ExportedSub(c, n, i) : i \in DOMAIN c.subs[n]}
         /\ IsFiniteSet(SubsOf(s, n)) /\ Cardinality(SubsOf(s, n)) = Len(c.subs[n])
         /\ Refs(SubsOf(s, n)) = 1 .. Cardinality(SubsOf(s, n))
         /\ \A i \in DOMAIN c.subs[n] : ByRef(SubsOf(s, n), i) = ExportedSub(c, n, i)
<1> DEFINE t == [i \in DOMAIN c.subs[n] |-> ExportedSub(c, n, i)]
           rows == SubsOf(s, n)
<1>1. DOMAIN t = DOMAIN c.subs[n] /\ \A i \in DOMAIN t : t[i] = ExportedSub(c, n, i)
  OBVIOUS
<1>2. s.subs = UNION {{ExportedSub(c, m, i) : i \in DOMAIN c.subs[m]} : m \in Services}
  BY ExportRows
<1>3. \A m : \A i : ExportedSub(c, m, i).service = m /\ ExportedSub(c, m, i).ref = i
  BY DEF ExportedSub
<1> HIDE DEF t
<1>4. \A p : p \in rows <=> \E k \in DOMAIN t : p = t[k]
  <2>1. \A p : p \in s.subs <=> \E m \in Services : \E i \in DOMAIN c.subs[m] : p = ExportedSub(c, m, i)
    BY <1>2
  <2>2. \A p : p \in rows <=> p \in s.subs /\ p.service = n
    BY DEF SubsOf
  <2> QED BY <1>1, <1>3, <2>1, <2>2
<1>5. c.subs[n] \in Seq(SubRows)
  BY ConfFields DEF Subs
<1>6. DOMAIN t = 1 .. Len(c.subs[n]) /\ Len(c.subs[n]) \in Nat
  BY <1>1, <1>5
<1>7. IsFiniteSet(DOMAIN t) /\ Cardinality(DOMAIN t) = Len(c.subs[n])
  <2>1. ASSUME NEW m \in Nat PROVE IsFiniteSet(1 .. m) /\ Cardinality(1 .. m) = m
    <3>1. 1 \in Int /\ m \in Int
      OBVIOUS
    <3>2. IsFiniteSet(1 .. m) /\ Cardinality(1 .. m) = IF 1 > m THEN 0 ELSE m - 1 + 1
      BY <3>1, FS_Interval
    <3> QED BY <3>2
  <2> QED BY <1>6, <2>1
<1> HIDE DEF rows
<1>8. \A k \in DOMAIN t : t[k].ref = k
  BY <1>1, <1>3
<1>9. /\ Refs(rows) = DOMAIN t
      /\ \A k \in DOMAIN t : t[k] \in rows /\ ByRef(rows, k) = t[k]
      /\ IsFiniteSet(DOMAIN t) =>
           IsFiniteSet(rows) /\ Cardinality(rows) = Cardinality(DOMAIN t)
  BY <1>4, <1>8, RowsOf, Zenon
<1> QED BY <1>1, <1>4, <1>6, <1>7, <1>9 DEF rows

\* An export is a snapshot that a restore can read.
LEMMA ExportFits ==
  ASSUME ConfigurationAssumption, NEW c \in Confs, NEW s, s = Export(c)
  PROVE  /\ s \in Snapshots /\ IsFiniteSet(s.dests)
         /\ \A n \in Services : /\ IsFiniteSet(SubsOf(s, n))
                                /\ Refs(SubsOf(s, n)) = 1 .. Cardinality(SubsOf(s, n))
<1>1. /\ DOMAIN c.token \subseteq Bots /\ \A b \in DOMAIN c.token : c.token[b] \in Tokens
      /\ DOMAIN c.dests \subseteq Dests /\ \A n \in DOMAIN c.dests : c.dests[n] \in DestRows
      /\ DOMAIN c.routes \subseteq RouteKeys /\ \A k \in DOMAIN c.routes : c.routes[k] \in RouteRows
      /\ DOMAIN c.services \subseteq Services
      /\ DOMAIN c.workloads \subseteq Workloads
      /\ \A w \in DOMAIN c.workloads : c.workloads[w] \in WorkloadRows
      /\ c.subs \in Subs
  BY ConfFields
<1>2. \A a \in AccountNames : BotRef(c, a) \in Bots \cup {0}
  BY DEF BotRef, NoRef, AccountNames
<1>3. \A b \in DOMAIN c.token : ExportedBot(c, b) \in [ref : Bots, token : Tokens]
  BY <1>1 DEF ExportedBot
<1>4. \A n \in DOMAIN c.dests : ExportedDest(c, n) \in
        [ref : Dests, bot : Bots \cup {0}, chat : Chats, active : BOOLEAN]
  BY <1>1, <1>2 DEF ExportedDest, DestRows
<1>5. \A k \in DOMAIN c.routes : ExportedRoute(c, k) \in
        [key : RouteKeys, bot : Bots \cup {0}, dest : Dests \cup {0},
         inbound : BOOLEAN, enabled : BOOLEAN]
  <2>1. \A k \in DOMAIN c.routes : DestRef(c, k) \in Dests \cup {0}
    BY <1>1 DEF DestRef, NoRef, RouteRows
  <2> QED BY <1>1, <1>2, <2>1 DEF ExportedRoute, RouteRows
<1>6. \A w \in DOMAIN c.workloads : ExportedWorkload(c, w) \in
        [name : Workloads, active : BOOLEAN, publish : BOOLEAN,
         grants : SUBSET RouteKeys, credentials : Nat]
  BY <1>1 DEF ExportedWorkload, WorkloadRows
<1>7. \A n \in Services : \A i \in DOMAIN c.subs[n] : ExportedSub(c, n, i) \in
        [service : Services, ref : Nat, dest : Dests, active : BOOLEAN]
  <2> SUFFICES ASSUME NEW n \in Services, NEW i \in DOMAIN c.subs[n]
               PROVE  ExportedSub(c, n, i) \in
                        [service : Services, ref : Nat, dest : Dests, active : BOOLEAN]
    OBVIOUS
  <2>1. c.subs[n] \in Seq(SubRows)
    BY <1>1 DEF Subs
  <2>2. c.subs[n][i] \in SubRows /\ i \in Nat
    BY <2>1
  <2> QED BY <2>2 DEF ExportedSub, SubRows
<1>8. s \in Snapshots
  <2> DEFINE bots == {ExportedBot(c, b) : b \in DOMAIN c.token}
             dests == {ExportedDest(c, n) : n \in DOMAIN c.dests}
             routes == {ExportedRoute(c, k) : k \in DOMAIN c.routes}
             workloads == {ExportedWorkload(c, w) : w \in DOMAIN c.workloads}
             subs == UNION {{ExportedSub(c, n, i) : i \in DOMAIN c.subs[n]} : n \in Services}
  <2>1. s = [bots |-> bots, dests |-> dests, routes |-> routes, workloads |-> workloads,
             services |-> DOMAIN c.services, subs |-> subs]
    BY ExportRows
  <2>2. bots \in SUBSET [ref : Bots, token : Tokens]
    BY <1>3
  <2>3. dests \in SUBSET [ref : Dests, bot : Bots \cup {0}, chat : Chats, active : BOOLEAN]
    BY <1>4
  <2>4. routes \in SUBSET [key : RouteKeys, bot : Bots \cup {0}, dest : Dests \cup {0},
                           inbound : BOOLEAN, enabled : BOOLEAN]
    BY <1>5
  <2>5. workloads \in SUBSET [name : Workloads, active : BOOLEAN, publish : BOOLEAN,
                              grants : SUBSET RouteKeys, credentials : Nat]
    BY <1>6
  <2>6. subs \in SUBSET [service : Services, ref : Nat, dest : Dests, active : BOOLEAN]
    BY <1>7
  <2> HIDE DEF bots, dests, routes, workloads, subs
  <2> QED BY <1>1, <2>1, <2>2, <2>3, <2>4, <2>5, <2>6 DEF Snapshots
<1>9. IsFiniteSet(s.dests)
  <2>1. DOMAIN c.dests \in SUBSET Dests /\ IsFiniteSet(Dests)
    BY <1>1 DEF ConfigurationAssumption
  <2>2. IsFiniteSet(DOMAIN c.dests)
    BY <2>1, FS_Subset
  <2> QED BY <2>2, ExportIs
<1> QED BY <1>8, <1>9, ExportedSubs

\* An export that is valid can be restored, and gives sound tables.
LEMMA RestoredSound ==
  ASSUME ConfigurationAssumption, NEW c \in Confs, NEW s, s = Export(c), Valid(s),
         NEW d, d = Restored(s)
  PROVE  Sound(d, {}) /\ d \in Confs
<1>1. Moves(EmptyConf, {}, d, {}, {r.key : r \in s.routes})
  <2>1. Refs(s.bots) \cap {} = {}
    OBVIOUS
  <2> QED BY <2>1, ExportFits, RestoredMoves
<1> QED BY <1>1 DEF Moves, Sound

\* The destinations come back under their bot, at the account of their rank.
LEMMA RestoredDestsAre ==
  ASSUME ConfigurationAssumption, NEW c \in Confs, Exportable(c), NEW s, s = Export(c), Valid(s),
         NEW d, d = Restored(s)
  PROVE  /\ DOMAIN d.dests = DOMAIN c.dests
         /\ \A n \in DOMAIN c.dests :
              /\ c.dests[n].account \in AccountIds(c) /\ d.dests[n].account \in AccountIds(d)
              /\ ExportedDest(c, n) \in s.dests /\ ExportedDest(c, n).ref = n
              /\ ExportedDest(c, n).bot = c.dests[n].account[1]
              /\ ExportedDest(c, n).chat = c.dests[n].chat
              /\ d.dests[n].account = <<c.dests[n].account[1], Rank(s, ExportedDest(c, n))>>
              /\ d.dests[n].account[1] = c.dests[n].account[1]
              /\ d.dests[n].chat = c.dests[n].chat /\ d.dests[n].active = c.dests[n].active
<1>1. d.dests = RestoredDests(s)
  BY DEF Restored
<1>2. DOMAIN d.dests = DOMAIN c.dests
  BY <1>1, ExportIs DEF RestoredDests
<1>3. ASSUME NEW n \in DOMAIN c.dests
      PROVE  /\ c.dests[n].account \in AccountIds(c) /\ d.dests[n].account \in AccountIds(d)
             /\ ExportedDest(c, n) \in s.dests /\ ExportedDest(c, n).ref = n
             /\ ExportedDest(c, n).bot = c.dests[n].account[1]
             /\ ExportedDest(c, n).chat = c.dests[n].chat
             /\ d.dests[n].account = <<c.dests[n].account[1], Rank(s, ExportedDest(c, n))>>
             /\ d.dests[n].account[1] = c.dests[n].account[1]
             /\ d.dests[n].chat = c.dests[n].chat /\ d.dests[n].active = c.dests[n].active
  <2>1. c.dests[n].account \in AccountIds(c)
    BY DEF Exportable
  <2>2. BotRef(c, c.dests[n].account) = c.dests[n].account[1]
    BY <2>1 DEF BotRef
  <2>3. ExportedDest(c, n) =
          [ref |-> n, bot |-> c.dests[n].account[1], chat |-> c.dests[n].chat,
           active |-> c.dests[n].active]
    BY <2>2 DEF ExportedDest
  <2>4. n \in Refs(s.dests) /\ ByRef(s.dests, n) = ExportedDest(c, n)
    BY ExportIs
  <2> DEFINE row == ExportedDest(c, n)
  <2>5. d.dests[n] = [account |-> <<row.bot, Rank(s, row)>>, chat |-> row.chat,
                      active |-> row.active, rev |-> 1]
    BY <1>1, <2>4 DEF RestoredDests
  <2>6. row.bot = c.dests[n].account[1] /\ row.chat = c.dests[n].chat /\ row.active = c.dests[n].active
    BY <2>3
  <2>7. d.dests[n].account \in AccountIds(d)
    <3>1. DestsLinked(d.accounts, d.dests, {})
      BY RestoredSound DEF Sound
    <3> QED BY <1>2, <3>1, IdsOf DEF DestsLinked, Named
  <2>8. d.dests[n].account = <<row.bot, Rank(s, row)>> /\ d.dests[n].account[1] = row.bot
        /\ d.dests[n].chat = row.chat /\ d.dests[n].active = row.active
    <3> HIDE DEF row
    <3> QED BY <2>5
  <2>9. row \in s.dests /\ row.ref = n
    BY <2>3, <2>4, ByRefIs
  <2> HIDE DEF row
  <2> QED BY <2>1, <2>6, <2>7, <2>8, <2>9 DEF row
<1> QED BY <1>2, <1>3

\* A row of an export that is chosen by its key is the row of that key.
LEMMA RestoredRoutesAre ==
  ASSUME ConfigurationAssumption, NEW c \in Confs, Exportable(c), NEW s, s = Export(c), Valid(s),
         NEW d, d = Restored(s)
  PROVE  /\ DOMAIN d.routes = DOMAIN c.routes
         /\ \A k \in DOMAIN c.routes :
              /\ c.routes[k].dest \in DOMAIN c.dests
              /\ c.routes[k].account = c.dests[c.routes[k].dest].account
              /\ d.routes[k].dest = c.routes[k].dest /\ d.routes[k].inbound = c.routes[k].inbound
              /\ d.routes[k].enabled = c.routes[k].enabled
              /\ DestRef(c, k) = c.routes[k].dest
              /\ ExportedRoute(d, k) = ExportedRoute(c, k)
<1>1. d.routes = RestoredRoutes(s) /\ d.dests = RestoredDests(s)
  BY DEF Restored
<1>2. s.routes = {ExportedRoute(c, k) : k \in DOMAIN c.routes}
      /\ \A k : ExportedRoute(c, k).key = k
  BY ExportIs DEF ExportedRoute
<1>3. {r.key : r \in s.routes} = DOMAIN c.routes
  BY <1>2
<1>4. DOMAIN d.routes = DOMAIN c.routes
  BY <1>1, <1>3 DEF RestoredRoutes
<1>5. \A n \in DOMAIN c.dests :
        /\ c.dests[n].account \in AccountIds(c) /\ d.dests[n].account \in AccountIds(d)
        /\ d.dests[n].account[1] = c.dests[n].account[1]
  BY RestoredDestsAre
<1>6. ASSUME NEW k \in DOMAIN c.routes
      PROVE  /\ c.routes[k].dest \in DOMAIN c.dests
             /\ c.routes[k].account = c.dests[c.routes[k].dest].account
             /\ d.routes[k].dest = c.routes[k].dest /\ d.routes[k].inbound = c.routes[k].inbound
             /\ d.routes[k].enabled = c.routes[k].enabled
             /\ DestRef(c, k) = c.routes[k].dest
             /\ ExportedRoute(d, k) = ExportedRoute(c, k)
  <2> DEFINE row == CHOOSE r \in s.routes : r.key = k
             dest == c.routes[k].dest
  <2>1. row = ExportedRoute(c, k)
    <3>1. row \in s.routes /\ row.key = k
      BY <1>3
    <3> HIDE DEF row
    <3> QED BY <1>2, <3>1
  <2> HIDE DEF row
  <2>2. row.dest = DestRef(c, k) /\ row.inbound = c.routes[k].inbound /\ row.enabled = c.routes[k].enabled
    BY <2>1 DEF ExportedRoute
  <2>3. DestRef(c, k) \in DOMAIN c.dests
    <3>1. row \in s.routes
      BY <1>2, <2>1
    <3>2. row.dest \in Refs(s.dests)
      BY <3>1 DEF Valid, ValidRoutes
    <3> QED BY <2>2, <3>2, ExportIs
  <2>4. 0 \notin DOMAIN c.dests
    BY ConfFields DEF ConfigurationAssumption
  <2>5. DestRef(c, k) = dest /\ c.routes[k].account = c.dests[dest].account /\ dest \in DOMAIN c.dests
    BY <2>3, <2>4 DEF DestRef, NoRef
  <2>6. RestoredRoutes(s)[k] =
          [account |-> RestoredDests(s)[row.dest].account, dest |-> row.dest,
           inbound |-> row.inbound, enabled |-> row.enabled, rev |-> 1]
    BY <1>3 DEF RestoredRoutes, row
  <2>7. d.routes[k] =
          [account |-> d.dests[dest].account, dest |-> dest,
           inbound |-> c.routes[k].inbound, enabled |-> c.routes[k].enabled, rev |-> 1]
    BY <1>1, <2>2, <2>5, <2>6
  <2>8. /\ d.routes[k].account = d.dests[dest].account /\ d.routes[k].dest = dest
        /\ d.routes[k].inbound = c.routes[k].inbound /\ d.routes[k].enabled = c.routes[k].enabled
    BY <2>7
  <2>9. DestRef(d, k) = DestRef(c, k)
    BY <2>5, <2>8 DEF DestRef
  <2>10. BotRef(d, d.routes[k].account) = BotRef(c, c.routes[k].account)
    BY <1>5, <2>5, <2>8 DEF BotRef
  <2>11. ExportedRoute(d, k) = ExportedRoute(c, k)
    BY <2>8, <2>9, <2>10 DEF ExportedRoute
  <2> QED BY <2>5, <2>8, <2>11
<1> QED BY <1>4, <1>6

\* Bots, services, subscriptions and workloads come back row by row.
LEMMA RestoredRowsAre ==
  ASSUME ConfigurationAssumption, NEW c \in Confs, NEW s, s = Export(c), NEW d, d = Restored(s)
  PROVE  /\ DOMAIN d.token = DOMAIN c.token /\ \A b \in DOMAIN c.token : d.token[b] = c.token[b]
         /\ DOMAIN d.services = DOMAIN c.services
         /\ \A n \in Services :
              /\ DOMAIN d.subs[n] = DOMAIN c.subs[n]
              /\ \A i \in DOMAIN c.subs[n] : /\ d.subs[n][i].dest = c.subs[n][i].dest
                                             /\ d.subs[n][i].active = c.subs[n][i].active
         /\ DOMAIN d.workloads = DOMAIN c.workloads
         /\ \A w \in DOMAIN c.workloads : ExportedWorkload(d, w) = ExportedWorkload(c, w)
<1>1. /\ d.token = [b \in Refs(s.bots) |-> ByRef(s.bots, b).token]
      /\ d.services = [n \in s.services |-> 1]
      /\ d.subs = RestoredSubs(s) /\ d.workloads = RestoredWorkloads(s)
  BY DEF Restored
<1>2. DOMAIN d.token = DOMAIN c.token /\ \A b \in DOMAIN c.token : d.token[b] = c.token[b]
  <2>1. Refs(s.bots) = DOMAIN c.token
        /\ \A b \in DOMAIN c.token : ByRef(s.bots, b).token = c.token[b]
    <3>1. Refs(s.bots) = DOMAIN c.token
          /\ \A b \in DOMAIN c.token : ByRef(s.bots, b) = ExportedBot(c, b)
      BY ExportIs
    <3>2. \A b : ExportedBot(c, b).token = c.token[b]
      BY DEF ExportedBot
    <3> QED BY <3>1, <3>2
  <2>2. DOMAIN d.token = Refs(s.bots) /\ \A b \in Refs(s.bots) : d.token[b] = ByRef(s.bots, b).token
    BY <1>1
  <2> QED BY <2>1, <2>2
<1>3. DOMAIN d.services = DOMAIN c.services
  BY <1>1, ExportIs
<1>4. ASSUME NEW n \in Services
      PROVE  /\ DOMAIN d.subs[n] = DOMAIN c.subs[n]
             /\ \A i \in DOMAIN c.subs[n] : /\ d.subs[n][i].dest = c.subs[n][i].dest
                                            /\ d.subs[n][i].active = c.subs[n][i].active
  <2> DEFINE rows == SubsOf(s, n)
             m == Cardinality(rows)
  <2>1. d.subs[n] = [i \in 1 .. m |-> [dest |-> ByRef(rows, i).dest, active |-> ByRef(rows, i).active]]
    BY <1>1 DEF RestoredSubs
  <2>2. c.subs[n] \in Seq(SubRows)
    BY ConfFields DEF Subs
  <2>3. m = Len(c.subs[n]) /\ \A i \in DOMAIN c.subs[n] : ByRef(rows, i) = ExportedSub(c, n, i)
    BY ExportedSubs
  <2> HIDE DEF rows, m
  <2>4. DOMAIN c.subs[n] = 1 .. m
    BY <2>2, <2>3
  <2>5. \A i \in DOMAIN c.subs[n] :
          ByRef(rows, i).dest = c.subs[n][i].dest /\ ByRef(rows, i).active = c.subs[n][i].active
    BY <2>3 DEF ExportedSub
  <2> QED BY <2>1, <2>4, <2>5
<1>5. DOMAIN d.workloads = DOMAIN c.workloads
      /\ \A w \in DOMAIN c.workloads : ExportedWorkload(d, w) = ExportedWorkload(c, w)
  <2>1. s.workloads = {ExportedWorkload(c, w) : w \in DOMAIN c.workloads}
        /\ \A w : ExportedWorkload(c, w).name = w
    BY ExportIs DEF ExportedWorkload
  <2>2. {x.name : x \in s.workloads} = DOMAIN c.workloads
    BY <2>1
  <2>3. ASSUME NEW w \in DOMAIN c.workloads PROVE ExportedWorkload(d, w) = ExportedWorkload(c, w)
    <3> DEFINE row == CHOOSE x \in s.workloads : x.name = w
    <3>1. row = ExportedWorkload(c, w)
      <4>1. row \in s.workloads /\ row.name = w
        BY <2>2
      <4> HIDE DEF row
      <4> QED BY <2>1, <4>1
    <3>2. RestoredWorkloads(s)[w] =
            [rev |-> 1, active |-> row.active, publish |-> row.publish,
             grants |-> row.grants, credentials |-> row.credentials]
      BY <2>2 DEF RestoredWorkloads
    <3> HIDE DEF row
    <3>3. /\ row.active = c.workloads[w].active /\ row.publish = c.workloads[w].publish
          /\ row.grants = c.workloads[w].grants /\ row.credentials = c.workloads[w].credentials
      BY <3>1 DEF ExportedWorkload
    <3>4. /\ d.workloads[w].active = c.workloads[w].active
          /\ d.workloads[w].publish = c.workloads[w].publish
          /\ d.workloads[w].grants = c.workloads[w].grants
          /\ d.workloads[w].credentials = c.workloads[w].credentials
      BY <1>1, <3>2, <3>3
    <3> QED BY <3>4 DEF ExportedWorkload
  <2> QED BY <1>1, <2>2, <2>3 DEF RestoredWorkloads
<1> QED BY <1>2, <1>3, <1>4, <1>5

\* Of two destinations of one bot and chat the later has the higher rank.
LEMMA RanksDiffer ==
  ASSUME NEW s \in Snapshots, ConfigurationAssumption, IsFiniteSet(s.dests),
         NEW p \in s.dests, NEW q \in s.dests, p.bot = q.bot, p.chat = q.chat, p.ref < q.ref
  PROVE  Rank(s, p) # Rank(s, q)
<1> DEFINE Below(x) == {y \in s.dests : y.bot = x.bot /\ y.chat = x.chat /\ y.ref <= x.ref}
<1>1. \A x \in s.dests : x.ref \in Nat
  BY DEF Snapshots, ConfigurationAssumption
<1>2. Below(p) \subseteq Below(q) /\ q \in Below(q) /\ q \notin Below(p)
  BY <1>1
<1>3. IsFiniteSet(Below(q))
  <2>1. Below(q) \in SUBSET s.dests
    OBVIOUS
  <2> HIDE DEF Below
  <2> QED BY <2>1, FS_Subset
<1>4. Rank(s, p) = Cardinality(Below(p)) /\ Rank(s, q) = Cardinality(Below(q))
  BY DEF Rank
<1> HIDE DEF Below
<1>5. Cardinality(Below(p)) = Cardinality(Below(q)) => Below(p) = Below(q)
  <2>1. Below(p) \in SUBSET Below(q)
    BY <1>2
  <2> QED BY <1>3, <2>1, FS_Subset
<1> QED BY <1>2, <1>4, <1>5

\* The indexes of the tables let the restored rows in.
LEMMA RestoredConstraints ==
  ASSUME ConfigurationAssumption, NEW c \in Confs, Exportable(c), NEW s, s = Export(c), Valid(s),
         NEW d, d = Restored(s)
  PROVE  Constraints(d)
<1>1. /\ DOMAIN d.dests = DOMAIN c.dests
      /\ \A n \in DOMAIN c.dests :
           /\ ExportedDest(c, n) \in s.dests /\ ExportedDest(c, n).ref = n
           /\ ExportedDest(c, n).bot = c.dests[n].account[1]
           /\ ExportedDest(c, n).chat = c.dests[n].chat
           /\ d.dests[n].account = <<c.dests[n].account[1], Rank(s, ExportedDest(c, n))>>
           /\ d.dests[n].chat = c.dests[n].chat
  BY RestoredDestsAre
<1>2. \A n \in DOMAIN c.dests : n \in Nat
  BY ConfFields DEF ConfigurationAssumption
<1>3. s \in Snapshots /\ IsFiniteSet(s.dests)
  BY ExportFits
<1>4. ASSUME NEW n \in DOMAIN c.dests, NEW x \in DOMAIN c.dests, n < x
      PROVE  d.dests[n].account # d.dests[x].account \/ d.dests[n].chat # d.dests[x].chat
  <2> SUFFICES ASSUME d.dests[n].account = d.dests[x].account, d.dests[n].chat = d.dests[x].chat
               PROVE  FALSE
    OBVIOUS
  <2> DEFINE p == ExportedDest(c, n)
             q == ExportedDest(c, x)
  <2>1. p \in s.dests /\ q \in s.dests
    BY <1>1
  <2>2. c.dests[n].account[1] = c.dests[x].account[1] /\ Rank(s, p) = Rank(s, q)
    BY <1>1
  <2>3. p.bot = q.bot /\ p.chat = q.chat /\ p.ref < q.ref
    BY <1>1, <1>4, <2>2
  <2> HIDE DEF p, q
  <2> QED BY <1>3, <2>1, <2>2, <2>3, RanksDiffer
<1>5. ASSUME NEW n \in DOMAIN d.dests, NEW x \in DOMAIN d.dests, n # x
      PROVE  <<d.dests[n].account, d.dests[n].chat>> # <<d.dests[x].account, d.dests[x].chat>>
  <2>1. n \in DOMAIN c.dests /\ x \in DOMAIN c.dests
    BY <1>1
  <2>2. n < x \/ x < n
    BY <1>2, <1>5, <2>1
  <2>3. d.dests[n].account # d.dests[x].account \/ d.dests[n].chat # d.dests[x].chat
    BY <1>4, <2>1, <2>2, Zenon
  <2> QED BY <2>3
<1>6. /\ DOMAIN d.routes = DOMAIN c.routes
      /\ \A k \in DOMAIN c.routes :
           /\ d.routes[k].dest = c.routes[k].dest /\ d.routes[k].inbound = c.routes[k].inbound
           /\ d.routes[k].enabled = c.routes[k].enabled
           /\ ExportedRoute(c, k).dest = d.routes[k].dest
           /\ ExportedRoute(c, k).inbound = d.routes[k].inbound
           /\ ExportedRoute(c, k).enabled = d.routes[k].enabled
           /\ ExportedRoute(c, k).key = k /\ ExportedRoute(c, k) \in s.routes
  <2>1. DOMAIN d.routes = DOMAIN c.routes
    BY RestoredRoutesAre
  <2>2. \A k \in DOMAIN c.routes :
          /\ d.routes[k].dest = c.routes[k].dest /\ d.routes[k].inbound = c.routes[k].inbound
          /\ d.routes[k].enabled = c.routes[k].enabled
          /\ DestRef(c, k) = c.routes[k].dest
    BY RestoredRoutesAre
  <2>3. \A k \in DOMAIN c.routes :
          /\ ExportedRoute(c, k).dest = DestRef(c, k)
          /\ ExportedRoute(c, k).inbound = c.routes[k].inbound
          /\ ExportedRoute(c, k).enabled = c.routes[k].enabled
          /\ ExportedRoute(c, k).key = k
    BY DEF ExportedRoute
  <2>4. \A k \in DOMAIN c.routes : ExportedRoute(c, k) \in s.routes
    BY ExportIs
  <2> QED BY <2>1, <2>2, <2>3, <2>4
<1>7. ASSUME NEW k \in DOMAIN d.routes, d.routes[k].inbound, d.routes[k].enabled,
             NEW l \in DOMAIN d.routes, d.routes[l].inbound, d.routes[l].enabled, k # l
      PROVE  d.routes[k].dest # d.routes[l].dest
  <2> DEFINE r == ExportedRoute(c, k)
             q == ExportedRoute(c, l)
  <2>1. /\ r \in s.routes /\ q \in s.routes /\ r.enabled /\ r.inbound /\ q.enabled /\ q.inbound
        /\ r.key = k /\ q.key = l /\ r.dest = d.routes[k].dest /\ q.dest = d.routes[l].dest
    BY <1>6, <1>7
  <2> HIDE DEF r, q
  <2>2. r # q
    BY <1>7, <2>1
  <2>3. Target(s, r.dest) # Target(s, q.dest)
    BY <2>1, <2>2 DEF Valid, ValidRoutes
  <2>4. ASSUME r.dest = q.dest PROVE FALSE
    BY <2>3, <2>4
  <2> QED BY <2>1, <2>4
<1> QED BY <1>5, <1>7 DEF Constraints

\* A snapshot that was restored is exported again.
LEMMA ExportedAgain ==
  ASSUME ConfigurationAssumption, NEW c \in Confs, Exportable(c), NEW s, s = Export(c), Valid(s),
         NEW d, d = Restored(s)
  PROVE  Export(d) = s
<1>1. /\ DOMAIN d.token = DOMAIN c.token /\ \A b \in DOMAIN c.token : d.token[b] = c.token[b]
      /\ DOMAIN d.services = DOMAIN c.services
      /\ \A n \in Services :
           /\ DOMAIN d.subs[n] = DOMAIN c.subs[n]
           /\ \A i \in DOMAIN c.subs[n] : /\ d.subs[n][i].dest = c.subs[n][i].dest
                                          /\ d.subs[n][i].active = c.subs[n][i].active
      /\ DOMAIN d.workloads = DOMAIN c.workloads
      /\ \A w \in DOMAIN c.workloads : ExportedWorkload(d, w) = ExportedWorkload(c, w)
  BY RestoredRowsAre
<1>2. {ExportedBot(d, b) : b \in DOMAIN d.token} = {ExportedBot(c, b) : b \in DOMAIN c.token}
  <2>1. \A b \in DOMAIN c.token : ExportedBot(d, b) = ExportedBot(c, b)
    BY <1>1 DEF ExportedBot
  <2> QED BY <1>1, <2>1
<1>3. {ExportedDest(d, n) : n \in DOMAIN d.dests} = {ExportedDest(c, n) : n \in DOMAIN c.dests}
  <2>1. /\ DOMAIN d.dests = DOMAIN c.dests
        /\ \A n \in DOMAIN c.dests :
             /\ c.dests[n].account \in AccountIds(c) /\ d.dests[n].account \in AccountIds(d)
             /\ d.dests[n].account[1] = c.dests[n].account[1]
             /\ d.dests[n].chat = c.dests[n].chat /\ d.dests[n].active = c.dests[n].active
    BY RestoredDestsAre
  <2>2. \A n \in DOMAIN c.dests : BotRef(d, d.dests[n].account) = BotRef(c, c.dests[n].account)
    BY <2>1 DEF BotRef
  <2>3. \A n \in DOMAIN c.dests : ExportedDest(d, n) = ExportedDest(c, n)
    BY <2>1, <2>2 DEF ExportedDest
  <2> QED BY <2>1, <2>3
<1>4. {ExportedRoute(d, k) : k \in DOMAIN d.routes} = {ExportedRoute(c, k) : k \in DOMAIN c.routes}
  <2>1. /\ DOMAIN d.routes = DOMAIN c.routes
        /\ \A k \in DOMAIN c.routes : ExportedRoute(d, k) = ExportedRoute(c, k)
    BY RestoredRoutesAre
  <2> QED BY <2>1
<1>5. {ExportedWorkload(d, w) : w \in DOMAIN d.workloads}
        = {ExportedWorkload(c, w) : w \in DOMAIN c.workloads}
  BY <1>1
<1>6. UNION {{ExportedSub(d, n, i) : i \in DOMAIN d.subs[n]} : n \in Services}
        = UNION {{ExportedSub(c, n, i) : i \in DOMAIN c.subs[n]} : n \in Services}
  <2>1. \A n \in Services : \A i \in DOMAIN c.subs[n] : ExportedSub(d, n, i) = ExportedSub(c, n, i)
    BY <1>1 DEF ExportedSub
  <2>2. \A n \in Services : {ExportedSub(d, n, i) : i \in DOMAIN d.subs[n]}
                              = {ExportedSub(c, n, i) : i \in DOMAIN c.subs[n]}
    BY <1>1, <2>1
  <2> QED BY <2>2
<1>7. Export(d) = Export(c)
  BY <1>1, <1>2, <1>3, <1>4, <1>5, <1>6, ExportRows
<1> QED BY <1>7

\* A service of the restored tables has the recipients it had, in other accounts.
LEMMA RecipientsAgain ==
  ASSUME ConfigurationAssumption, NEW c, NEW D, Sound(c, D), Exportable(c), NEW s, s = Export(c),
         Valid(s), NEW d, d = Restored(s)
  PROVE  AllRecipientsValid(d) <=> AllRecipientsValid(c)
<1>1. c \in Confs /\ SubsLinked(c.dests, c.services, c.subs) /\ ChatsOnce(c)
  BY DEF Sound
<1>2. ChatsOnce(d)
  BY <1>1, RestoredSound DEF Sound
<1>3. \A n \in DOMAIN c.dests :
        /\ c.dests[n].account \in AccountIds(c) /\ d.dests[n].account \in AccountIds(d)
        /\ d.dests[n].active = c.dests[n].active
  BY <1>1, RestoredDestsAre
<1>4. \A n \in Services :
        /\ DOMAIN d.subs[n] = DOMAIN c.subs[n]
        /\ \A i \in DOMAIN c.subs[n] : /\ d.subs[n][i].dest = c.subs[n][i].dest
                                       /\ d.subs[n][i].active = c.subs[n][i].active
                                       /\ c.subs[n][i].dest \in DOMAIN c.dests
  BY <1>1, RestoredRowsAre DEF SubsLinked
<1> DEFINE Reachable(t, n) == \A i \in ActiveSubs(t, n) :
             t.dests[t.subs[n][i].dest].account \in AccountIds(t) => t.dests[t.subs[n][i].dest].active
<1>5. ASSUME NEW n \in Services PROVE Reachable(d, n) <=> Reachable(c, n)
  <2>1. ActiveSubs(d, n) = ActiveSubs(c, n) /\ ActiveSubs(c, n) \subseteq DOMAIN c.subs[n]
    BY <1>4 DEF ActiveSubs
  <2> QED BY <1>3, <1>4, <2>1
<1>6. \A t : AllRecipientsValid(t) <=> ChatsOnce(t) /\ \A n \in Services : Reachable(t, n)
  BY DEF AllRecipientsValid, RecipientsValid, ChatsOnce
<1> HIDE DEF Reachable
<1> QED BY <1>1, <1>2, <1>5, <1>6

\* A valid export of any configuration is a backup: it can be restored, by every
\* index of the tables and every check of the recipients, and comes back the same.
THEOREM RoundTrip == BackupSpec => []RestoreRoundTrip
<1>1. ConfigInv => RestoreRoundTrip
  <2> SUFFICES ASSUME ConfigInv, Exportable(conf), Valid(Export(conf))
               PROVE  /\ Constraints(Restored(Export(conf)))
                      /\ AllRecipientsValid(Restored(Export(conf))) <=> AllRecipientsValid(conf)
                      /\ Export(Restored(Export(conf))) = Export(conf)
    BY DEF RestoreRoundTrip
  <2>1. Sound(conf, deleted) /\ conf \in Confs
    BY ConfFits
  <2> QED BY <2>1, ConfigurationAssumption, RestoredConstraints, RecipientsAgain, ExportedAgain
<1> QED BY <1>1, ConfigurationStays, PTL

==============================================================================
