------------------------------ MODULE ProfileSet ------------------------------
(***************************************************************************)
(* Which profiles run: the configuration file (internal/config), the CLI   *)
(* commands that edit it (cmd/tsmultitail profiles add, remove, move) and  *)
(* the daemon that starts an engine per profile (Supervisor.Start and, on  *)
(* every login, Supervisor.StartConfiguredProfiles).                       *)
(*                                                                         *)
(* An edit loads the file and later replaces it as a whole; the lock and   *)
(* the rename cover only the replacement.  A login loads the file, notes   *)
(* which profiles run, and then starts the others one by one; the lock of  *)
(* the profile list covers each append only.  Handlers run concurrently.   *)
(***************************************************************************)
EXTENDS Naturals, Sequences, FiniteSets

CONSTANTS
  Names,      \* profile names, up to case
  Ids,        \* what newID may return: bounds the number of profiles ever added
  Editors,    \* concurrent CLI processes
  Handlers,   \* goroutines of the control server
  Ops         \* the edits: a subset of {"add", "remove", "move"}

ASSUME NamesAssumption == Names # {}

ASSUME EditsAssumption == Ops \subseteq {"add", "remove", "move"}

VARIABLES
  config,     \* the profiles of the configuration file, in order
  moved,      \* history: the file was reordered since the daemon loaded it
  used,       \* the ids handed out
  cli,        \* each editor: whether it has loaded the file, and what it loaded
  daemon,     \* "down", "starting" or "up"
  boot,       \* Start: the profiles it has not started yet
  profiles,   \* Supervisor.profiles: one engine each, in order
  raced,      \* history: the ids that two logins have had to start at the same time
  login       \* each handler: its login in progress

vars == <<config, moved, used, cli, daemon, boot, profiles, raced, login>>

Elements(s) == {s[i] : i \in DOMAIN s}

IdsOf(s) == {x.id : x \in Elements(s)}

Entry == [id : Ids, name : Names]

\* Validate: ids and names are unique.
Valid(c) == \A i, j \in DOMAIN c : i # j => c[i].id # c[j].id /\ c[i].name # c[j].name

NoEdit == [pc |-> "idle", c |-> <<>>]

\* A handler: its step, the file it loaded, and the positions of the profiles it still
\* has to start.
NoLogin == [pc |-> "idle", c |-> <<>>, todo |-> {}]

Init ==
  /\ config = <<>>
  /\ moved = FALSE
  /\ used = {}
  /\ cli = [e \in Editors |-> NoEdit]
  /\ daemon = "down"
  /\ boot = <<>>
  /\ profiles = <<>>
  /\ raced = {}
  /\ login = [h \in Handlers |-> NoLogin]

-----------------------------------------------------------------------------
\* The CLI.

\* profilesCmd loads the file.
CliLoad(e) ==
  /\ cli[e].pc = "idle"
  /\ cli' = [cli EXCEPT ![e] = [pc |-> "loaded", c |-> config]]
  /\ UNCHANGED <<config, moved, used, daemon, boot, profiles, raced, login>>

\* writeConfig: WriteAtomic, by the CLI or by the daemon's config_write.
WriteAtomic(e, c) ==
  /\ Valid(c)
  /\ config' = c
  /\ cli' = [cli EXCEPT ![e] = NoEdit]
  /\ UNCHANGED <<daemon, boot, profiles, raced, login>>

\* profiles add appends an entry with a fresh id.
CliAdd(e) ==
  /\ "add" \in Ops
  /\ cli[e].pc = "loaded"
  /\ \E i \in Ids \ used, n \in Names :
       /\ WriteAtomic(e, Append(cli[e].c, [id |-> i, name |-> n]))
       /\ used' = used \cup {i}
  /\ UNCHANGED moved

Without(c, i) == SubSeq(c, 1, i - 1) \o SubSeq(c, i + 1, Len(c))

CliRemove(e) ==
  /\ "remove" \in Ops
  /\ cli[e].pc = "loaded"
  /\ \E i \in DOMAIN cli[e].c : WriteAtomic(e, Without(cli[e].c, i))
  /\ UNCHANGED <<moved, used>>

\* profiles move takes an entry out and puts it back at a position.
CliMove(e) ==
  /\ "move" \in Ops
  /\ cli[e].pc = "loaded"
  /\ \E i \in DOMAIN cli[e].c : \E pos \in 0 .. Len(cli[e].c) - 1 :
       LET rest == Without(cli[e].c, i) IN
       WriteAtomic(e, SubSeq(rest, 1, pos) \o <<cli[e].c[i]>> \o SubSeq(rest, pos + 1, Len(rest)))
  /\ moved' = TRUE
  /\ UNCHANGED used

\* The command dies: unknown profile, duplicate name, bad position, no daemon.
CliDies(e) ==
  /\ cli[e].pc = "loaded"
  /\ cli' = [cli EXCEPT ![e] = NoEdit]
  /\ UNCHANGED <<config, moved, used, daemon, boot, profiles, raced, login>>

-----------------------------------------------------------------------------
\* Starting and stopping the daemon.

\* main loads the configuration; no handler runs before Start has returned.
BootLoad ==
  /\ daemon = "down"
  /\ daemon' = "starting"
  /\ boot' = config
  /\ moved' = FALSE
  /\ UNCHANGED <<config, used, cli, profiles, raced, login>>

BootStarts ==
  /\ daemon = "starting"
  /\ boot # <<>>
  /\ profiles' = Append(profiles, Head(boot))
  /\ boot' = Tail(boot)
  /\ UNCHANGED <<config, moved, used, cli, daemon, raced, login>>

\* Every profile runs: the control socket is opened.
BootDone ==
  /\ daemon = "starting"
  /\ boot = <<>>
  /\ daemon' = "up"
  /\ UNCHANGED <<config, moved, used, cli, boot, profiles, raced, login>>

\* The process ends: a profile that does not start, a fatal conflict, a restart
\* request, a crash.  Engines end with it.
Exit ==
  /\ daemon # "down"
  /\ daemon' = "down"
  /\ boot' = <<>>
  /\ profiles' = <<>>
  /\ raced' = {}
  /\ login' = [h \in Handlers |-> NoLogin]
  /\ UNCHANGED <<config, moved, used, cli>>

-----------------------------------------------------------------------------
\* The control operation "login".

LoginLoad(h) ==
  /\ daemon = "up"
  /\ login[h].pc = "idle"
  /\ login' = [login EXCEPT ![h] = [pc |-> "snapshot", c |-> config, todo |-> {}]]
  /\ UNCHANGED <<config, moved, used, cli, daemon, boot, profiles, raced>>

\* The ids that handler h still has to start.
ToStart(h) == {login[h].c[k].id : k \in login[h].todo}

\* Mutant of Missing: every configured profile is started.
MissingAll(c) == DOMAIN c

\* StartConfiguredProfiles looks up which profiles exist.
Missing(c) == {k \in DOMAIN c : c[k].id \notin IdsOf(profiles)}

LoginSnapshot(h) ==
  /\ login[h].pc = "snapshot"
  /\ login' = [login EXCEPT ![h].pc = "start", ![h].todo = Missing(login[h].c)]
  /\ raced' = raced \cup ({login[h].c[k].id : k \in Missing(login[h].c)}
                            \cap UNION {ToStart(g) : g \in Handlers})
  /\ UNCHANGED <<config, moved, used, cli, daemon, boot, profiles>>

\* Mutant of First: the profile found last is started first.
FinalFirst(todo) == {k \in todo : \A j \in todo : j <= k}

\* The loop over the file takes the profiles in its order.
First(todo) == {k \in todo : \A j \in todo : k <= j}

\* startProfile succeeds: an engine runs on the profile's state directory.
startProfile(h) ==
  /\ login[h].pc = "start"
  /\ login[h].todo # {}
  /\ login' = [login EXCEPT ![h].pc = "append"]
  /\ UNCHANGED <<config, moved, used, cli, daemon, boot, profiles, raced>>

\* Mutant of startProfileFails: the profile is skipped.
startProfileSkips(h) ==
  /\ login[h].pc = "start"
  /\ login[h].todo # {}
  /\ login' = [login EXCEPT ![h].todo = @ \ First(@)]
  /\ UNCHANGED <<config, moved, used, cli, daemon, boot, profiles, raced>>

\* startProfile fails: the engine is closed and the login ends with the error.
startProfileFails(h) ==
  /\ login[h].pc = "start"
  /\ login[h].todo # {}
  /\ login' = [login EXCEPT ![h] = NoLogin]
  /\ UNCHANGED <<config, moved, used, cli, daemon, boot, profiles, raced>>

\* Mutant of AppendProfile: the id is stored where the entry belongs.
AppendProfileId(h) ==
  /\ login[h].pc = "append"
  /\ \E k \in First(login[h].todo) :
       /\ profiles' = Append(profiles, login[h].c[k].id)
       /\ login' = [login EXCEPT ![h].pc = "start", ![h].todo = @ \ {k}]
  /\ UNCHANGED <<config, moved, used, cli, daemon, boot, raced>>

AppendProfile(h) ==
  /\ login[h].pc = "append"
  /\ \E k \in First(login[h].todo) :
       /\ profiles' = Append(profiles, login[h].c[k])
       /\ login' = [login EXCEPT ![h].pc = "start", ![h].todo = @ \ {k}]
  /\ UNCHANGED <<config, moved, used, cli, daemon, boot, raced>>

\* profileByName: the first profile of that name.
profileByName(n) == {i \in DOMAIN profiles : /\ profiles[i].name = n
                                             /\ \A j \in 1 .. i - 1 : profiles[j].name # n}

\* Everything is started: Login finds a profile of the name asked for.
Login(h) ==
  /\ login[h].pc = "start"
  /\ login[h].todo = {}
  /\ \E n \in Names : profileByName(n) # {}
  /\ login' = [login EXCEPT ![h].pc = "login"]
  /\ UNCHANGED <<config, moved, used, cli, daemon, boot, profiles, raced>>

LoginUnknown(h) ==
  /\ login[h].pc = "start"
  /\ login[h].todo = {}
  /\ \E n \in Names : profileByName(n) = {}
  /\ login' = [login EXCEPT ![h] = NoLogin]
  /\ UNCHANGED <<config, moved, used, cli, daemon, boot, profiles, raced>>

LoginReturns(h) ==
  /\ login[h].pc = "login"
  /\ login' = [login EXCEPT ![h] = NoLogin]
  /\ UNCHANGED <<config, moved, used, cli, daemon, boot, profiles, raced>>

-----------------------------------------------------------------------------

edit(e) == CliLoad(e) \/ CliAdd(e) \/ CliRemove(e) \/ CliMove(e) \/ CliDies(e)

handle(h) ==
  \/ LoginLoad(h) \/ LoginSnapshot(h)
  \/ startProfile(h) \/ startProfileFails(h) \/ AppendProfile(h)
  \/ Login(h) \/ LoginUnknown(h) \/ LoginReturns(h)

Next ==
  \/ \E e \in Editors : edit(e)
  \/ \E h \in Handlers : handle(h)
  \/ BootLoad \/ BootStarts \/ BootDone \/ Exit

Spec == Init /\ [][Next]_vars

-----------------------------------------------------------------------------
\* Properties.

\* Every variable has its type.
TypeOK ==
  /\ config \in Seq(Entry)
  /\ moved \in BOOLEAN
  /\ used \subseteq Ids
  /\ cli \in [Editors -> [pc : {"idle", "loaded"}, c : Seq(Entry)]]
  /\ daemon \in {"down", "starting", "up"}
  /\ boot \in Seq(Entry)
  /\ profiles \in Seq(Entry)
  /\ raced \subseteq Ids
  /\ login \in [Handlers -> [pc : {"idle", "snapshot", "start", "append", "login"},
                             c : Seq(Entry), todo : SUBSET Nat]]

\* The handlers whose engine for profile i is started and not yet listed.
Starting(i) ==
  {h \in Handlers : /\ login[h].pc = "append"
                    /\ \E k \in First(login[h].todo) : login[h].c[k].id = i}

\* No profile has two engines, for tsnet owns the profile's state directory alone,
\* unless two logins at the same time had it still to start: logins that overlap in any
\* other way, edits, failed starts and restarts give none a second one.
OneEngineUnlessRaced ==
  \A i \in Ids \ raced :
    Cardinality({k \in DOMAIN profiles : profiles[k].id = i}) + Cardinality(Starting(i)) <= 1

\* A login that goes through has every profile of the file it loaded running: no
\* failure and no other handler makes it pass over one.
LoginStartsAll ==
  \A h \in Handlers : login[h].pc = "login" => IdsOf(login[h].c) \subseteq IdsOf(profiles)

\* Until the file is reordered, every running profile comes after those that stand
\* before it in the file, and these run too: the first of the list wins where two
\* targets have one canonical address.  So for profiles started at once and for those
\* that concurrent logins have added since.
OrderAsConfigured ==
  ~moved => \A x, y \in DOMAIN config : \A k \in DOMAIN profiles :
    x < y /\ profiles[k].id = config[y].id
      => \E m \in DOMAIN profiles : m < k /\ profiles[m].id = config[x].id
===============================================================================
