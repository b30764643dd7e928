------------------------ MODULE GatewayConfiguration ------------------------
(***************************************************************************)
(* The tables an administrator edits: bots and the gateway accounts that   *)
(* mirror them, Telegram destinations, business routes with their history, *)
(* notification services with their subscriptions, workloads, and the      *)
(* notifications a workload publishes to a service.                        *)
(*                                                                         *)
(* One record, conf, holds the tables; a transaction of the store is one   *)
(* step.  A handler that reads and validates before it opens its           *)
(* transaction takes two steps, and an administrator who names a revision  *)
(* names the one it saw: opening and validating are one step, because a    *)
(* change of the object in between only gets the save refused.             *)
(* A request the code refuses changes nothing: the editor or the publisher *)
(* goes back to idle by Refuse.                                            *)
(***************************************************************************)
EXTENDS Integers, FiniteSets, SequencesExt

CONSTANTS
  Bots,        \* config_ref of a native bot, positive numbers
  Tokens,      \* Telegram tokens
  IdentityOf,  \* the Telegram bot a token belongs to
  Chats,       \* Telegram chats
  Dests,       \* config_ref of a destination, positive numbers
  RouteKeys,   \* route keys
  RouteFlags,  \* what requests say of a route: [inbound, enabled]
  Workloads,   \* names of workloads
  Services,    \* notification services: a workload and a fingerprint
  SourceOf,    \* the workload of a service
  Migrations,  \* ids of import manifests
  Keys,        \* idempotency keys of notifications
  Payloads,    \* hashes of notification payloads
  Editors,     \* concurrent administrators
  Publishers,  \* concurrent requests of workloads
  MaxRequests  \* bound: requests that administrators begin

ASSUME ConfigurationAssumption ==
  /\ Bots \subseteq Nat \ {0} /\ Dests \subseteq Nat \ {0} /\ IsFiniteSet(Dests)
  /\ DOMAIN IdentityOf = Tokens
  /\ SourceOf \in [Services -> Workloads]
  /\ RouteFlags \subseteq [inbound : BOOLEAN, enabled : BOOLEAN]
  /\ MaxRequests \in Nat

VARIABLES
  conf,       \* the tables that configuration lives in
  history,    \* gateway_route_revisions: per route key, the rows by revision
  deleted,    \* bots that were deleted; an account id is never given out again
  notes,      \* gateway_service_notifications and their recipients
  imports,    \* gateway_service_imports: the manifest of a migration id
  editor,     \* what each administrator has open
  publisher,  \* the workload a publishing request was authorised for
  unchecked,  \* history: routes written after their destination had moved
  requests

vars == <<conf, history, deleted, notes, imports, editor, publisher, unchecked, requests>>

------------------------------------------------------------------------------
(* The tables. *)

Nothing == <<>>  \* a table without rows

EmptyConf == [token |-> Nothing, accounts |-> [b \in Bots |-> <<>>],
              dests |-> Nothing, routes |-> Nothing,
              services |-> Nothing, subs |-> [s \in Services |-> <<>>],
              workloads |-> Nothing]

\* A gateway account is named by its native bot and its number among the aliases.
AccountIds(c) == UNION {{<<b, n>> : n \in DOMAIN c.accounts[b]} : b \in Bots}
TokenOf(c, a) == c.accounts[a[1]][a[2]].token

\* A table with the row of one key added or replaced.
With(table, key, row) ==
  [x \in DOMAIN table \cup {key} |-> IF x = key THEN row ELSE table[x]]

Content(route) == [account |-> route.account, dest |-> route.dest,
                   inbound |-> route.inbound, enabled |-> route.enabled]
Route(draft, rev) == [account |-> draft.account, dest |-> draft.dest,
                      inbound |-> draft.inbound, enabled |-> draft.enabled, rev |-> rev]

\* UNIQUE(bot_account_id, chat_id), and the index over routes that take updates.
Constraints(c) ==
  /\ \A d, e \in DOMAIN c.dests :
       d # e => <<c.dests[d].account, c.dests[d].chat>> # <<c.dests[e].account, c.dests[e].chat>>
  /\ \A k, l \in {r \in DOMAIN c.routes : c.routes[r].inbound /\ c.routes[r].enabled} :
       k # l => <<c.routes[k].account, c.routes[k].dest>> # <<c.routes[l].account, c.routes[l].dest>>

ActiveSubs(c, s) == {i \in DOMAIN c.subs[s] : c.subs[s][i].active}

\* serviceRecipients: the active subscriptions joined with their accounts.
Recipients(c, s) ==
  {[sub |-> i, account |-> c.dests[c.subs[s][i].dest].account,
    bot |-> IdentityOf[TokenOf(c, c.dests[c.subs[s][i].dest].account)],
    chat |-> c.dests[c.subs[s][i].dest].chat] :
     i \in {j \in ActiveSubs(c, s) : c.dests[c.subs[s][j].dest].account \in AccountIds(c)}}

Distinct(recipients) ==
  \A r, q \in recipients : r # q => <<r.bot, r.chat>> # <<q.bot, q.chat>>

\* Mutant: recipients are compared by their account, not by the Telegram bot.
RecipientsValidByAccount(c, s) ==
  /\ \A i \in ActiveSubs(c, s) : c.dests[c.subs[s][i].dest].account \in AccountIds(c)
       => c.dests[c.subs[s][i].dest].active
  /\ \A r, q \in Recipients(c, s) : r # q => <<r.account, r.chat>> # <<q.account, q.chat>>

\* Its errors: a destination that is not active, or one chat reached twice.
RecipientsValid(c, s) ==
  /\ \A i \in ActiveSubs(c, s) : c.dests[c.subs[s][i].dest].account \in AccountIds(c)
       => c.dests[c.subs[s][i].dest].active
  /\ Distinct(Recipients(c, s))

AllRecipientsValid(c) == \A s \in Services : RecipientsValid(c, s)

------------------------------------------------------------------------------
(* Steps shared by the transactions. *)

Idle == [at |-> "idle"]

\* A transaction: the rows become c, and the history gets the rows of ks.
Write(c, ks) ==
  /\ Constraints(c)
  /\ conf' = c
  /\ history' = [k \in RouteKeys |->
       IF k \in ks THEN Append(history[k], Content(c.routes[k])) ELSE history[k]]

Begun == requests < MaxRequests /\ requests' = requests + 1

\* A request that is one transaction, and the end of one that was open.
Commit(c, ks) == Write(c, ks) /\ Begun
Save(e, c, ks) ==
  /\ Write(c, ks)
  /\ editor' = [editor EXCEPT ![e] = Idle]
  /\ UNCHANGED requests

\* The routes ks with the next revision.
Bumped(c, ks) ==
  [c EXCEPT !.routes = [k \in DOMAIN c.routes |->
     IF k \in ks THEN [c.routes[k] EXCEPT !.rev = @ + 1] ELSE c.routes[k]]]

RoutesOfBot(c, b) == {k \in DOMAIN c.routes : c.routes[k].account[1] = b}

\* Mutant: only the first alias of the bot follows it.
SyncedFirst(c, b) ==
  Bumped([c EXCEPT !.accounts[b] = [n \in DOMAIN @ |->
            IF n = 1 THEN [rev |-> @[n].rev + 1, token |-> c.token[b]] ELSE @[n]]],
         RoutesOfBot(c, b))

\* Mutant: the accounts follow their bot under the revision they had.
SyncedQuietly(c, b) ==
  Bumped([c EXCEPT !.accounts[b] = [n \in DOMAIN @ |-> [@[n] EXCEPT !.token = c.token[b]]]],
         RoutesOfBot(c, b))

\* syncBotAccountsTx: every alias of the bot, and every route of an alias.
Synced(c, b) ==
  Bumped([c EXCEPT !.accounts[b] = [n \in DOMAIN @ |->
            [rev |-> @[n].rev + 1, token |-> c.token[b]]]], RoutesOfBot(c, b))

Opened(o, rev, seen, draft) ==
  [at |-> "open", object |-> o, rev |-> rev, seen |-> seen, draft |-> draft]

\* e has object kind open, under the revision the row still has.
Holds(e, kind) == editor[e].at = "open" /\ editor[e].object[1] = kind
Id(e) == editor[e].object[2]
Draft(e) == editor[e].draft

RevisionOf(c, o) ==
  CASE o[1] = "account"  -> c.accounts[o[2][1]][o[2][2]].rev
    [] o[1] = "dest"     -> c.dests[o[2]].rev
    [] o[1] = "route"    -> c.routes[o[2]].rev
    [] o[1] = "service"  -> c.services[o[2]]
    [] o[1] = "workload" -> c.workloads[o[2]].rev

\* What an administrator sees of an object.
Row(c, o) == <<o[1],
  CASE o[1] = "account"  -> TokenOf(c, o[2])
    [] o[1] = "dest"     -> <<c.dests[o[2]].account, c.dests[o[2]].chat>>
    [] o[1] = "route"    -> <<Content(c.routes[o[2]]),
                              {TokenOf(c, a) : a \in AccountIds(c) \cap {c.routes[o[2]].account}}>>
    [] o[1] = "service"  -> {c.subs[o[2]][i].dest : i \in ActiveSubs(c, o[2])}
    [] o[1] = "workload" -> [c.workloads[o[2]] EXCEPT !.rev = 0]>>

Expected(e) == editor[e].rev = RevisionOf(conf, editor[e].object)

\* ValidateBusinessRouteReferences, and the account an enabled route is tested with.
References(c, draft) ==
  /\ draft.dest \in DOMAIN c.dests
  /\ c.dests[draft.dest].account = draft.account
  /\ draft.enabled => draft.account \in AccountIds(c)

\* A route is drafted with the account of its destination, which may be gone.
RouteDrafts(c) ==
  {r \in {[account |-> c.dests[d].account, dest |-> d,
           inbound |-> f.inbound, enabled |-> f.enabled] :
           d \in DOMAIN c.dests, f \in RouteFlags} : References(c, r)}
DestDrafts(c) == [account : AccountIds(c), chat : Chats]
NoDraft == {[none |-> TRUE]}

\* The objects that can be opened, each with the drafts that pass validation.
Openable(c) ==
  ({<<"account", a>> : a \in AccountIds(c)} \X NoDraft)
    \cup ({<<"dest", d>> : d \in DOMAIN c.dests} \X DestDrafts(c))
    \cup ({<<"route", k>> : k \in DOMAIN c.routes} \X RouteDrafts(c))
    \cup ({<<"service", s>> : s \in DOMAIN c.services} \X NoDraft)
    \cup ({<<"workload", w>> : w \in DOMAIN c.workloads} \X NoDraft)

Creatable(c) ==
  ({<<"newDest", d>> : d \in Dests \ DOMAIN c.dests} \X DestDrafts(c))
    \cup ({<<"newRoute", k>> : k \in RouteKeys \ DOMAIN c.routes} \X RouteDrafts(c))

------------------------------------------------------------------------------
Init ==
  /\ conf = EmptyConf
  /\ history = [k \in RouteKeys |-> <<>>]
  /\ deleted = {}
  /\ notes = Nothing
  /\ imports = Nothing
  /\ editor = [e \in Editors |-> Idle]
  /\ publisher = [p \in Publishers |-> Idle]
  /\ unchecked = {}
  /\ requests = 0

\* An administrator looks at an object, and its request is validated.
Open(e) ==
  /\ editor[e].at = "idle"
  /\ Begun
  /\ \E p \in Openable(conf) : editor' = [editor EXCEPT ![e] =
       Opened(p[1], RevisionOf(conf, p[1]), Row(conf, p[1]), p[2])]
  /\ UNCHANGED <<conf, history, deleted, notes, imports, publisher, unchecked>>

\* A request that creates an object, or changes a route and names no revision:
\* handleBusinessRoutes then takes the revision it finds when it saves.
OpenUnnamed(e) ==
  /\ editor[e].at = "idle"
  /\ Begun
  /\ \E p \in Creatable(conf) \cup {q \in Openable(conf) : q[1][1] = "route"} :
       editor' = [editor EXCEPT ![e] = Opened(p[1], 0, Nothing, p[2])]
  /\ UNCHANGED <<conf, history, deleted, notes, imports, publisher, unchecked>>

\* A request is refused, or given up.
Refuse(e) ==
  /\ editor[e].at = "open"
  /\ editor' = [editor EXCEPT ![e] = Idle]
  /\ UNCHANGED <<conf, history, deleted, notes, imports, publisher, unchecked, requests>>

------------------------------------------------------------------------------
(* Bots and their accounts. *)

OwnersOf(c, t) == {b \in DOMAIN c.token : c.token[b] = t}
Unused == Bots \ (DOMAIN conf.token \cup deleted)
NewBot(c, b, t) == [c EXCEPT !.token = With(@, b, t)]
NewAccount(c, b) == [c EXCEPT !.accounts[b] = Append(@, [rev |-> 1, token |-> c.token[b]])]

\* AddBotAccount: one more alias of the bot that has the token, or a new bot.
AddBotAccount ==
  /\ \E t \in Tokens :
       \/ \E b \in OwnersOf(conf, t) : Commit(NewAccount(conf, b), {})
       \/ /\ OwnersOf(conf, t) = {}
          /\ \E b \in Unused : Commit(NewAccount(NewBot(conf, b, t), b), {})
  /\ UNCHANGED <<deleted, notes, imports, editor, publisher, unchecked>>

\* AddBotConfig: a token that is known gives the bot that has it, unchanged.
AddBotConfig ==
  /\ \E t \in Tokens, b \in Unused :
       /\ OwnersOf(conf, t) = {}
       /\ Commit(NewAccount(NewBot(conf, b, t), b), {})
  /\ UNCHANGED <<deleted, notes, imports, editor, publisher, unchecked>>

\* UpdateBotConfig: a bot edited outside the gateway; nothing names a revision.
\* The accounts follow when a name or the token changed.
UpdateBotConfig ==
  /\ \E b \in DOMAIN conf.token, t \in Tokens :
       LET c == Synced(NewBot(conf, b, t), b) IN
       /\ OwnersOf(conf, t) \subseteq {b}
       /\ AllRecipientsValid(c)
       /\ Commit(c, RoutesOfBot(c, b))
  /\ UNCHANGED <<deleted, notes, imports, editor, publisher, unchecked>>

\* RotateBotAccount: a new token, or a new name with the token kept.
RotateBotAccount(e) ==
  /\ Holds(e, "account") /\ Id(e) \in AccountIds(conf) /\ Expected(e)
  /\ LET b == Id(e)[1] IN \E t \in Tokens :
       LET c == Synced(NewBot(conf, b, t), b) IN
       /\ OwnersOf(conf, t) \subseteq {b}
       /\ AllRecipientsValid(c)
       /\ Save(e, c, RoutesOfBot(c, b))
  /\ UNCHANGED <<deleted, notes, imports, publisher, unchecked>>

\* DeleteBotConfig: refused while a row, a past one included, names an account.
DeleteBotConfig ==
  /\ \E b \in DOMAIN conf.token :
       /\ \A d \in DOMAIN conf.dests : conf.dests[d].account \notin {b} \X DOMAIN conf.accounts[b]
       /\ \A k \in RouteKeys : \A i \in DOMAIN history[k] : history[k][i].account[1] # b
       /\ \A n \in DOMAIN notes : \A r \in notes[n].recipients : r.account[1] # b
       /\ Commit([conf EXCEPT !.token = [x \in DOMAIN @ \ {b} |-> @[x]],
                              !.accounts[b] = <<>>], {})
       /\ deleted' = deleted \cup {b}
  /\ UNCHANGED <<notes, imports, editor, publisher, unchecked>>

------------------------------------------------------------------------------
(* Destinations and routes. *)

\* AddTelegramDestination, after validatedDestination.
AddTelegramDestination(e) ==
  /\ Holds(e, "newDest") /\ Id(e) \notin DOMAIN conf.dests
  /\ Save(e, [conf EXCEPT !.dests = With(@, Id(e),
        [account |-> Draft(e).account, chat |-> Draft(e).chat, active |-> TRUE, rev |-> 1])], {})
  /\ UNCHANGED <<deleted, notes, imports, publisher, unchecked>>

\* Mutant: the routes stay with the account they had.
MigratedAlone(c, d, draft) ==
  Bumped([c EXCEPT !.dests[d] =
            [account |-> draft.account, chat |-> draft.chat, active |-> TRUE, rev |-> @.rev + 1]],
         {k \in DOMAIN c.routes : c.routes[k].dest = d})

\* Mutant: the routes follow without a revision of their own.
MigratedUnrevised(c, d, draft) ==
  [c EXCEPT
    !.dests[d] = [account |-> draft.account, chat |-> draft.chat, active |-> TRUE, rev |-> @.rev + 1],
    !.routes = [k \in DOMAIN @ |-> IF @[k].dest = d
                  THEN [@[k] EXCEPT !.account = draft.account] ELSE @[k]]]

\* MigrateTelegramDestination: the routes of the destination follow its account.
Migrated(c, d, draft) ==
  LET moved == {k \in DOMAIN c.routes : c.routes[k].dest = d} IN
  Bumped([c EXCEPT
    !.dests[d] = [account |-> draft.account, chat |-> draft.chat, active |-> TRUE, rev |-> @.rev + 1],
    !.routes = [k \in DOMAIN @ |-> IF k \in moved
                  THEN [@[k] EXCEPT !.account = draft.account] ELSE @[k]]], moved)

MigrateTelegramDestination(e) ==
  LET moved == {k \in DOMAIN conf.routes : conf.routes[k].dest = Id(e)} IN
  /\ Holds(e, "dest") /\ Expected(e)
  /\ LET c == Migrated(conf, Id(e), Draft(e)) IN AllRecipientsValid(c) /\ Save(e, c, moved)
  /\ unchecked' = unchecked \ moved
  /\ UNCHANGED <<deleted, notes, imports, publisher>>

\* The route k is written with a draft that was validated when it was opened.
WriteRoute(e, k, rev) ==
  /\ Save(e, [conf EXCEPT !.routes = With(@, k, Route(Draft(e), rev))], {k})
  /\ unchecked' = IF References(conf, Draft(e)) THEN unchecked \ {k} ELSE unchecked \cup {k}
  /\ UNCHANGED <<deleted, notes, imports, publisher>>

AddBusinessRoute(e) ==
  /\ Holds(e, "newRoute") /\ Id(e) \notin DOMAIN conf.routes
  /\ WriteRoute(e, Id(e), 1)

UpdateBusinessRouteExpected(e) ==
  /\ Holds(e, "route")
  /\ editor[e].rev = 0 \/ Expected(e)
  /\ WriteRoute(e, Id(e), conf.routes[Id(e)].rev + 1)

\* CreateBusinessRouteSetup: account, destination and route in one transaction.
SetUp(c, a, chat, d, k, f) ==
  [c EXCEPT !.dests = With(@, d, [account |-> a, chat |-> chat, active |-> TRUE, rev |-> 1]),
            !.routes = With(@, k, [account |-> a, dest |-> d, inbound |-> f.inbound,
                                   enabled |-> f.enabled, rev |-> 1])]

CreateBusinessRouteSetup ==
  /\ \E t \in Tokens, chat \in Chats, d \in Dests \ DOMAIN conf.dests,
        k \in RouteKeys \ DOMAIN conf.routes, f \in RouteFlags :
       \E b \in IF OwnersOf(conf, t) = {} THEN Unused ELSE OwnersOf(conf, t) :
         LET c == NewAccount(NewBot(conf, b, t), b)
         IN Commit(SetUp(c, <<b, Len(c.accounts[b])>>, chat, d, k, f), {k})
  /\ UNCHANGED <<deleted, notes, imports, editor, publisher, unchecked>>

------------------------------------------------------------------------------
(* Subscriptions and imports. *)

Subscribed(c, s, d) == [c EXCEPT !.subs[s] = Append(@, [dest |-> d, active |-> TRUE])]
Revised(c, s) == [c EXCEPT !.services[s] = @ + 1]

AddServiceSubscription(e) ==
  /\ Holds(e, "service") /\ Expected(e)
  /\ \E d \in DOMAIN conf.dests : LET s == Id(e) c == Revised(Subscribed(conf, s, d), s) IN
       /\ conf.dests[d].active
       /\ \A i \in ActiveSubs(conf, s) : conf.subs[s][i].dest # d
       /\ RecipientsValid(c, s)
       /\ Save(e, c, {})
  /\ UNCHANGED <<deleted, notes, imports, publisher, unchecked>>

CancelServiceSubscription(e) ==
  /\ Holds(e, "service") /\ Expected(e)
  /\ \E i \in ActiveSubs(conf, Id(e)) :
       Save(e, Revised([conf EXCEPT !.subs[Id(e)][i].active = FALSE], Id(e)), {})
  /\ UNCHANGED <<deleted, notes, imports, publisher, unchecked>>

\* A manifest: a service that exists must have exactly the recipients of the
\* manifest; a new one gets them.
Imported(c, m) ==
  LET new == DOMAIN m \ DOMAIN c.services IN
  [c EXCEPT
    !.services = [s \in DOMAIN @ \cup new |-> IF s \in new THEN 1 ELSE @[s]],
    !.subs = [s \in Services |-> IF s \notin new THEN @[s] ELSE
      [i \in 1 .. Cardinality(m[s]) |-> [dest |-> SetToSeq(m[s])[i], active |-> TRUE]]]]
Manifests(c) == UNION {[ss -> SUBSET (DOMAIN c.dests) \ {{}}] : ss \in SUBSET Services \ {{}}}

ImportNotificationServices ==
  /\ \E id \in Migrations \ DOMAIN imports, m \in Manifests(conf) :
       LET c == Imported(conf, m) IN
       /\ \A s \in DOMAIN m :
            /\ SourceOf[s] \in DOMAIN conf.workloads /\ conf.workloads[SourceOf[s]].active
            /\ \A d \in m[s] : conf.dests[d].active /\ conf.dests[d].account \in AccountIds(conf)
            /\ {c.subs[s][i].dest : i \in ActiveSubs(c, s)} = m[s]
            /\ RecipientsValid(c, s)
       /\ imports' = With(imports, id, m)
       /\ Commit(c, {})
  /\ UNCHANGED <<deleted, notes, editor, publisher, unchecked>>

------------------------------------------------------------------------------
(* Workloads. *)

NewWorkload == [rev |-> 1, active |-> TRUE, publish |-> FALSE, grants |-> {}, credentials |-> 1]

CreateGatewayWorkloadAdmin ==
  /\ \E w \in Workloads \ DOMAIN conf.workloads :
       Commit([conf EXCEPT !.workloads = With(@, w, NewWorkload)], {})
  /\ UNCHANGED <<deleted, notes, imports, editor, publisher, unchecked>>

ReviseWorkload(e, row) ==
  /\ Save(e, [conf EXCEPT !.workloads[Id(e)] = [row EXCEPT !.rev = @ + 1]], {})
  /\ UNCHANGED <<deleted, notes, imports, publisher, unchecked>>

SetGatewayWorkloadStatus(e) ==
  /\ Holds(e, "workload") /\ Expected(e)
  /\ \E active \in BOOLEAN : ReviseWorkload(e, [conf.workloads[Id(e)] EXCEPT !.active = active])

SetServicePermissions(e) ==
  /\ Holds(e, "workload") /\ Expected(e)
  /\ \E publish \in BOOLEAN : ReviseWorkload(e, [conf.workloads[Id(e)] EXCEPT !.publish = publish])

\* The old credentials are disabled, not forgotten.
RotateGatewayWorkloadCredential(e) ==
  /\ Holds(e, "workload") /\ Expected(e)
  /\ ReviseWorkload(e, [conf.workloads[Id(e)] EXCEPT !.credentials = @ + 1])

SetGatewayPermissions(e) ==
  /\ Holds(e, "workload") /\ Expected(e)
  /\ \E grants \in SUBSET DOMAIN conf.routes :
       ReviseWorkload(e, [conf.workloads[Id(e)] EXCEPT !.grants = grants])

------------------------------------------------------------------------------
(* Publishing. *)

\* The credential and the permission are read in transactions of their own.
Authorize(p) ==
  /\ publisher[p].at = "idle"
  /\ \E w \in DOMAIN conf.workloads, key \in Keys, payload \in Payloads :
       /\ conf.workloads[w].active /\ conf.workloads[w].publish
       /\ \E s \in {x \in Services : SourceOf[x] = w} : publisher' = [publisher EXCEPT ![p] =
            [at |-> "publish", workload |-> w, service |-> s, key |-> key, payload |-> payload]]
  /\ UNCHANGED <<conf, history, deleted, notes, imports, editor, unchecked, requests>>

\* AcceptServiceNotification: a key seen before returns what is stored, or a
\* conflict; a new one registers the service and pins its recipients.
AcceptServiceNotification(p) ==
  /\ publisher[p].at = "publish"
  /\ LET q == publisher[p] id == <<q.workload, q.key>> s == q.service IN
       \/ /\ id \in DOMAIN notes \/ ~RecipientsValid(conf, s)
          /\ UNCHANGED <<conf, notes>>
       \/ /\ id \notin DOMAIN notes /\ RecipientsValid(conf, s)
          /\ conf' = IF s \in DOMAIN conf.services THEN conf
                     ELSE [conf EXCEPT !.services = With(@, s, 1)]
          /\ notes' = With(notes, id, [service |-> s, payload |-> q.payload,
               count |-> Cardinality(Recipients(conf, s)), recipients |-> Recipients(conf, s)])
  /\ publisher' = [publisher EXCEPT ![p] = Idle]
  /\ UNCHANGED <<history, deleted, imports, editor, unchecked, requests>>

------------------------------------------------------------------------------
Administer(e) ==
  \/ Open(e) \/ OpenUnnamed(e) \/ Refuse(e)
  \/ RotateBotAccount(e)
  \/ AddTelegramDestination(e) \/ MigrateTelegramDestination(e)
  \/ AddBusinessRoute(e) \/ UpdateBusinessRouteExpected(e)
  \/ AddServiceSubscription(e) \/ CancelServiceSubscription(e)
  \/ SetGatewayWorkloadStatus(e) \/ SetServicePermissions(e)
  \/ RotateGatewayWorkloadCredential(e) \/ SetGatewayPermissions(e)

ConfigurationNext ==
  \/ \E e \in Editors : Administer(e)
  \/ AddBotAccount \/ AddBotConfig \/ UpdateBotConfig \/ DeleteBotConfig
  \/ CreateBusinessRouteSetup \/ ImportNotificationServices \/ CreateGatewayWorkloadAdmin
  \/ \E p \in Publishers : Authorize(p) \/ AcceptServiceNotification(p)

------------------------------------------------------------------------------
(* Properties. *)

AccountNames == Bots \X (Nat \ {0})
RouteContents == [account : AccountNames, dest : Dests, inbound : BOOLEAN, enabled : BOOLEAN]
IsTable(t, keys) == DOMAIN t \subseteq keys

ConfTypeOK ==
  /\ IsTable(conf.token, Bots) /\ \A b \in DOMAIN conf.token : conf.token[b] \in Tokens
  /\ \A b \in Bots : \A n \in DOMAIN conf.accounts[b] :
       conf.accounts[b][n].rev \in Nat \ {0} /\ conf.accounts[b][n].token \in Tokens
  /\ IsTable(conf.dests, Dests) /\ \A d \in DOMAIN conf.dests :
       conf.dests[d] \in [account : AccountNames, chat : Chats, active : BOOLEAN, rev : Nat \ {0}]
  /\ IsTable(conf.routes, RouteKeys) /\ \A k \in DOMAIN conf.routes :
       Content(conf.routes[k]) \in RouteContents /\ conf.routes[k].rev \in Nat \ {0}
  /\ IsTable(conf.services, Services) /\ \A s \in Services : \A i \in DOMAIN conf.subs[s] :
       conf.subs[s][i].dest \in DOMAIN conf.dests /\ s \in DOMAIN conf.services
  /\ IsTable(conf.workloads, Workloads) /\ \A w \in DOMAIN conf.workloads :
       conf.workloads[w].grants \subseteq DOMAIN conf.routes

\* The tables hold what their columns say; accounts mirror the token of their
\* bot, and a bot that is gone leaves no account.
TypeOK ==
  /\ ConfTypeOK
  /\ \A k \in RouteKeys : \A i \in DOMAIN history[k] : history[k][i] \in RouteContents
  /\ \A b \in Bots : \A n \in DOMAIN conf.accounts[b] :
       b \in DOMAIN conf.token /\ conf.accounts[b][n].token = conf.token[b]
  /\ \A n \in DOMAIN notes : notes[n].service \in DOMAIN conf.services
  /\ requests \in 0 .. MaxRequests

\* gateway_route_revisions explains every route: the newest of its rows is the
\* route as it is, under the revision the route has.  A delivery pins a route
\* by its revision, so a change that is not recorded cannot be explained later.
HistoryExplainsRoutes ==
  \A k \in DOMAIN conf.routes :
    /\ Len(history[k]) = conf.routes[k].rev
    /\ Last(history[k]) = Content(conf.routes[k])

\* MigrateTelegramDestination rebinds every route of a destination with it.  A
\* route and its destination name one account, except a route that was written
\* after its destination had moved under the validation of its editor.
MigrationKeepsRoutes ==
  \A k \in DOMAIN conf.routes \ unchecked :
    conf.dests[conf.routes[k].dest].account = conf.routes[k].account

\* No service reaches one Telegram chat through one bot twice, however accounts
\* were rotated, destinations moved, manifests imported or backups restored; and
\* a notification counts exactly the recipients it is pinned to.
EachChatOnce ==
  /\ \A s \in Services : Distinct(Recipients(conf, s))
  /\ \A n \in DOMAIN notes :
       /\ Distinct(notes[n].recipients)
       /\ notes[n].count = Cardinality(notes[n].recipients)

\* An edit that names a revision replaces exactly what its administrator saw:
\* whatever changes an object under an open editor makes the save conflict.
EditsReplaceWhatTheySaw ==
  [][\A e \in Editors :
       (editor[e].at = "open" /\ editor[e].rev # 0 /\ editor'[e].at = "idle" /\ conf' # conf)
         => Row(conf, editor[e].object) = editor[e].seen]_vars
=============================================================================
