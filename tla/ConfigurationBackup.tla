------------------------- MODULE ConfigurationBackup -------------------------
(***************************************************************************)
(* Backup and restore of the configuration.  An export is read in one      *)
(* transaction and names objects by references that survive a restore; a   *)
(* restore validates the snapshot, requires an empty configuration, and    *)
(* writes everything with a receipt in one transaction.                    *)
(*                                                                         *)
(* Conditional routes between bots are copied row by row; they are left    *)
(* out here.                                                               *)
(*                                                                         *)
(* What is not in a snapshot is lost by a restore: the revisions and their *)
(* history, which account of a bot a destination hung on, notifications.   *)
(***************************************************************************)
EXTENDS GatewayConfiguration

CONSTANT Backups  \* snapshots an administrator may bring from elsewhere

Refs(rows) == {r.ref : r \in rows}
SubsOf(s, n) == {p \in s.subs : p.service = n}

\* What a snapshot can hold; 0 is no reference.  The subscriptions of a service
\* are numbered in the order of the snapshot.
Snapshots == [
  bots      : SUBSET [ref : Bots, token : Tokens],
  dests     : SUBSET [ref : Dests, bot : Bots \cup {0}, chat : Chats, active : BOOLEAN],
  routes    : SUBSET [key : RouteKeys, bot : Bots \cup {0}, dest : Dests \cup {0},
                      inbound : BOOLEAN, enabled : BOOLEAN],
  workloads : SUBSET [name : Workloads, active : BOOLEAN, publish : BOOLEAN,
                      grants : SUBSET RouteKeys, credentials : Nat],
  services  : SUBSET Services,
  subs      : SUBSET [service : Services, ref : Nat, dest : Dests, active : BOOLEAN]]

ASSUME BackupsAssumption == \A s \in Backups :
  /\ s \in Snapshots /\ IsFiniteSet(s.dests) /\ IsFiniteSet(s.subs)
  /\ \A n \in Services : Refs(SubsOf(s, n)) = 1 .. Cardinality(SubsOf(s, n))

VARIABLE restored \* configuration_restores: the digests, one per snapshot

backupVars == <<vars, restored>>

------------------------------------------------------------------------------
(* exportConfigurationTx: the tables, by reference. *)

NoRef == 0  \* COALESCE(config_ref, '')

BotRef(c, a) == IF a \in AccountIds(c) THEN a[1] ELSE NoRef

\* A destination whose account is gone has no bot to name: the export fails.
Exportable(c) == \A d \in DOMAIN c.dests : c.dests[d].account \in AccountIds(c)

\* The destination of a route, if both are of one account.
DestRef(c, k) ==
  IF c.dests[c.routes[k].dest].account = c.routes[k].account THEN c.routes[k].dest ELSE NoRef

Export(c) == [
  bots      |-> {[ref |-> b, token |-> c.token[b]] : b \in DOMAIN c.token},
  dests     |-> {[ref |-> d, bot |-> BotRef(c, c.dests[d].account), chat |-> c.dests[d].chat,
                  active |-> c.dests[d].active] : d \in DOMAIN c.dests},
  routes    |-> {[key |-> k, bot |-> BotRef(c, c.routes[k].account), dest |-> DestRef(c, k),
                  inbound |-> c.routes[k].inbound, enabled |-> c.routes[k].enabled] :
                    k \in DOMAIN c.routes},
  workloads |-> {[name |-> w, active |-> c.workloads[w].active, publish |-> c.workloads[w].publish,
                  grants |-> c.workloads[w].grants, credentials |-> c.workloads[w].credentials] :
                    w \in DOMAIN c.workloads},
  services  |-> DOMAIN c.services,
  subs      |-> UNION {{[service |-> s, ref |-> i, dest |-> c.subs[s][i].dest,
                         active |-> c.subs[s][i].active] : i \in DOMAIN c.subs[s]} : s \in Services}]

------------------------------------------------------------------------------
(* Snapshot.Validate. *)

ByRef(rows, ref) == CHOOSE r \in rows : r.ref = ref
\* The Telegram bot and chat that a destination of the snapshot reaches.
Target(s, d) == LET row == ByRef(s.dests, d) IN
  <<IdentityOf[ByRef(s.bots, row.bot).token], row.chat>>

ValidBots(s) == \A b, x \in s.bots : b # x => b.ref # x.ref /\ b.token # x.token
ValidDests(s) ==
  /\ \A d, x \in s.dests : d # x => d.ref # x.ref
  /\ \A d \in s.dests : d.bot \in Refs(s.bots)

ValidRoutes(s) ==
  /\ \A r, x \in s.routes : r # x => r.key # x.key
  /\ \A r \in s.routes : /\ r.bot \in Refs(s.bots)
                         /\ r.dest \in Refs(s.dests)
                         /\ ByRef(s.dests, r.dest).bot = r.bot
  /\ \A r, x \in {q \in s.routes : q.enabled /\ q.inbound} :
       r # x => Target(s, r.dest) # Target(s, x.dest)

ValidNotifications(s) ==
  /\ \A w, x \in s.workloads : w # x => w.name # x.name
  /\ \A w \in s.workloads : w.grants \subseteq {r.key : r \in s.routes}
  /\ \A n \in s.services : SourceOf[n] \in {w.name : w \in s.workloads}
  /\ \A p \in s.subs : p.service \in s.services /\ p.dest \in Refs(s.dests)
  /\ \A p, x \in {q \in s.subs : q.active} :
       p # x /\ p.service = x.service => Target(s, p.dest) # Target(s, x.dest)

Valid(s) == ValidBots(s) /\ ValidDests(s) /\ ValidRoutes(s) /\ ValidNotifications(s)

------------------------------------------------------------------------------
(* RestoreConfiguration. *)

\* Destinations of one bot and chat go to the accounts of the bot in order; an
\* account is added when they are more than the bot has.
Rank(s, d) == Cardinality({x \in s.dests : x.bot = d.bot /\ x.chat = d.chat /\ x.ref <= d.ref})
AccountsNeeded(s, b) == Max({1} \cup {Rank(s, d) : d \in {x \in s.dests : x.bot = b}})

\* Mutant: every destination goes to the first account of its bot.
RestoredDestsFirst(s) == [d \in Refs(s.dests) |-> LET row == ByRef(s.dests, d) IN
  [account |-> <<row.bot, 1>>, chat |-> row.chat, active |-> row.active, rev |-> 1]]

RestoredDests(s) == [d \in Refs(s.dests) |-> LET row == ByRef(s.dests, d) IN
  [account |-> <<row.bot, Rank(s, row)>>, chat |-> row.chat, active |-> row.active, rev |-> 1]]

RestoredAccounts(s) == [b \in Bots |-> IF b \notin Refs(s.bots) THEN <<>> ELSE
  [n \in 1 .. AccountsNeeded(s, b) |-> [rev |-> 1, token |-> ByRef(s.bots, b).token]]]

RestoredRoutes(s) == [k \in {r.key : r \in s.routes} |->
  LET row == CHOOSE r \in s.routes : r.key = k IN
  [account |-> RestoredDests(s)[row.dest].account, dest |-> row.dest,
   inbound |-> row.inbound, enabled |-> row.enabled, rev |-> 1]]

RestoredSubs(s) == [n \in Services |-> LET rows == SubsOf(s, n) IN
  [i \in 1 .. Cardinality(rows) |->
     [dest |-> ByRef(rows, i).dest, active |-> ByRef(rows, i).active]]]

RestoredWorkloads(s) == [w \in {x.name : x \in s.workloads} |->
  LET row == CHOOSE x \in s.workloads : x.name = w IN
  [rev |-> 1, active |-> row.active, publish |-> row.publish,
   grants |-> row.grants, credentials |-> row.credentials]]

Restored(s) == [
  token     |-> [b \in Refs(s.bots) |-> ByRef(s.bots, b).token],
  accounts  |-> RestoredAccounts(s),
  dests     |-> RestoredDests(s),
  routes    |-> RestoredRoutes(s),
  services  |-> [n \in s.services |-> 1],
  subs      |-> RestoredSubs(s),
  workloads |-> RestoredWorkloads(s)]

\* A restore whose digest is recorded changes nothing: it is repeated, or refused.
\* Bound: a snapshot that brings back a deleted bot is left out, because the rows
\* it makes have new ids and the model names accounts by their bot.
RestoreConfiguration ==
  /\ \E s \in Backups \ restored :
       /\ Valid(s)
       /\ conf = EmptyConf /\ Refs(s.bots) \cap deleted = {}
       /\ Commit(Restored(s), {r.key : r \in s.routes})
       /\ restored' = restored \cup {s}
  /\ UNCHANGED <<deleted, notes, imports, editor, publisher, unchecked>>

------------------------------------------------------------------------------
BackupInit == Init /\ restored = {}

BackupNext ==
  \/ ConfigurationNext /\ UNCHANGED restored
  \/ RestoreConfiguration

BackupSpec == BackupInit /\ [][BackupNext]_backupVars

\* Whatever was configured, an export that passes its own validation can be
\* restored into an empty installation, which then exports the same snapshot:
\* no destination loses its bot to the accounts that are merged, no constraint
\* of the tables refuses a row, nobody is subscribed who was not.
RestoreRoundTrip ==
  (Exportable(conf) /\ Valid(Export(conf))) =>
    LET c == Restored(Export(conf)) IN
    /\ Constraints(c)
    /\ AllRecipientsValid(c) <=> AllRecipientsValid(conf)
    /\ Export(c) = Export(conf)
=============================================================================
