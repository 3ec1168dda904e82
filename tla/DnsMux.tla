-------------------------------- MODULE DnsMux --------------------------------
(***************************************************************************)
(* internal/dnsmux: the merged DNS server.  Query handlers hold a read     *)
(* lock on the tables from the lookup until the answer is written, across  *)
(* the query to a profile's engine; the main loop replaces the tables under*)
(* the write lock.  A Go RWMutex admits no new reader while a writer waits.*)
(*                                                                         *)
(* Targets are numbers in the order inventory.Build sorts them, profile    *)
(* order first.  A lease is stable and belongs to one target (Leases), so  *)
(* the effective address of target t is represented by t itself.           *)
(***************************************************************************)
EXTENDS Naturals, FiniteSets, FiniteSetsExt

CONSTANTS
  Targets,    \* every target that may appear, as its rank in inventory order
  Profile,    \* the profile of each target
  FQDN,       \* its name [label, zone] in the inventory; NoName for a service
  MagicName,  \* the name its profile's engine resolves to it
  Canonical,  \* its canonical address
  Inventories,\* the sets of targets the supervisor may report
  EndsWith,   \* <<z, y>>: zone z, as a string, ends with zone y
  Questions,  \* what may be asked: [type, name], or [type, addr] for PTR
  Queries,    \* handler goroutines
  NoName, NoZone, NoProfile

ASSUME TargetsAssumption == Targets \subseteq Nat

ASSUME InventoriesAssumption == Inventories \subseteq SUBSET Targets

VARIABLES
  inventory,  \* what the supervisor would report now
  due,        \* the profiles whose targets were stored and not yet notified
  changed,    \* a notification waits in the changes channel
  round,      \* the main loop's round and the snapshots it took
  tables,     \* Server.targets, and the keys of Server.effective
  readers,    \* the queries that hold the read lock
  query       \* each handler: its question, the profile it asked, its answer

vars == <<inventory, due, changed, round, tables, readers, query>>

Profiles == {Profile[t] : t \in Targets}

\* Answers: a lease, an address the engine gave that is passed on unchanged, a
\* name, or no data with a response code.
Lease(t) == [kind |-> "effective", of |-> t]
Address(a) == [kind |-> "address", of |-> a]
Name(n) == [kind |-> "name", of |-> n]
Rcode(r) == [kind |-> "rcode", of |-> r]

NoAnswer == Rcode("none")

NoQuestion == [type |-> "none", name |-> NoName]

Quiet == [pc |-> "idle", question |-> NoQuestion, asked |-> NoProfile, answer |-> NoAnswer]

\* The main loop waits; failed: its last round ended with an error.
Resting(failed) == [pc |-> "idle", targets |-> {}, leased |-> {}, failed |-> failed]

\* New is given two snapshots taken during startup; the first refresh of every
\* profile has left a notification.
Init ==
  /\ inventory \in Inventories
  /\ due = {}
  /\ changed = TRUE
  /\ round = Resting(FALSE)
  /\ tables \in [targets : Inventories, leased : Inventories]
  /\ readers = {}
  /\ query = [q \in Queries |-> Quiet]

-----------------------------------------------------------------------------
\* Lookups in the tables.

\* The targets that have a valid address in Server.effective.
Mapped == tables.targets \cap tables.leased

\* A fully qualified name, or a bare one that is some target's first label.
Matches(t, n) ==
  /\ FQDN[t] # NoName
  /\ FQDN[t].label = n.label
  /\ n.zone \in {NoZone, FQDN[t].zone}

Local(n) == {t \in Mapped : Matches(t, n)}

\* localA: the first matching target in inventory order that has a lease.
localA(n) == Lease(Min(Local(n)))

\* The suffix map of New: for each zone the profile of the last target in it.
Zones == {FQDN[t].zone : t \in {u \in tables.targets : FQDN[u] # NoName}}

suffix(z) ==
  Profile[Max({t \in tables.targets : FQDN[t] # NoName /\ FQDN[t].zone = z})]

\* profileFor: any zone the name ends with, in the random order of a Go map.
profileFor(n) ==
  {suffix(z) : z \in {y \in Zones : n.zone = y \/ <<n.zone, y>> \in EndsWith}}

\* profileForPTR: the profile of the first target with this canonical address.
profileForPTR(a) ==
  {Profile[Min(T)] : T \in {{t \in tables.targets : Canonical[t] = a}} \ {{}}}

\* Mutant of rewrite: only the targets of the first profile are mapped.
rewriteFirst(a) ==
  LET known == {t \in Mapped : Canonical[t] = a /\ Profile[t] = Profile[Min(Targets)]}
  IN  IF known = {} THEN Address(a) ELSE Lease(Max(known))

\* rewrite: an A record with the canonical address of a mapped target, of any
\* profile, gets its lease; of several such targets the last one wins.
rewrite(a) ==
  LET known == {t \in Mapped : Canonical[t] = a}
  IN  IF known = {} THEN Address(a) ELSE Lease(Max(known))

-----------------------------------------------------------------------------
\* ServeDNS.

Answer(q, a) ==
  query' = [query EXCEPT ![q] = [Quiet EXCEPT !.pc = "answered", !.answer = a]]

\* A packet arrives; its handler goroutine waits for the read lock.
Arrive(q) ==
  /\ round.pc # "closed"
  /\ query[q].pc \in {"idle", "answered"}
  /\ \E question \in Questions :
       query' = [query EXCEPT ![q] = [Quiet EXCEPT !.pc = "lock", !.question = question]]
  /\ UNCHANGED <<inventory, due, changed, round, tables, readers>>

\* RLock: blocked as soon as a writer waits.
CanRead(q) == query[q].pc = "lock" /\ round.pc # "lock"

\* What ServeDNS answers from the tables alone: NODATA for AAAA, a PTR of a
\* leased address, the first local match, NOTIMP for other types, FORMERR.
LocalAnswer(question) ==
  IF question.type = "bad" THEN {Rcode("FORMERR")}
  ELSE IF question.type = "AAAA" THEN {Rcode("NODATA")}
  ELSE IF question.type = "PTR"
       THEN {Name(FQDN[t]) : t \in {u \in Mapped : FQDN[u] # NoName /\ question.addr = Lease(u)}}
  ELSE IF question.type = "A"
       THEN IF Local(question.name) = {} THEN {} ELSE {localA(question.name)}
  ELSE {Rcode("NOTIMP")}

\* The profiles the question may be forwarded to.
Forward(question) ==
  IF question.type = "A" THEN profileFor(question.name)
  ELSE IF question.type = "PTR" /\ question.addr.kind = "address"
       THEN profileForPTR(question.addr.of)
  ELSE {}

\* The tables have the answer.
ServeLocal(q) ==
  /\ CanRead(q)
  /\ \E a \in LocalAnswer(query[q].question) : Answer(q, a)
  /\ UNCHANGED <<inventory, due, changed, round, tables, readers>>

\* Neither the tables nor any profile has it: NXDOMAIN.
ServeUnknown(q) ==
  /\ CanRead(q)
  /\ LocalAnswer(query[q].question) = {}
  /\ Forward(query[q].question) = {}
  /\ Answer(q, Rcode("NXDOMAIN"))
  /\ UNCHANGED <<inventory, due, changed, round, tables, readers>>

\* Mutant of Ask: the read lock is released before the engine is asked.
AskUnlocked(q) ==
  /\ CanRead(q)
  /\ LocalAnswer(query[q].question) = {}
  /\ \E p \in Forward(query[q].question) :
       query' = [query EXCEPT ![q].pc = "upstream", ![q].asked = p]
  /\ UNCHANGED <<inventory, due, changed, round, tables, readers>>

\* The query goes to a profile's engine, with the read lock held.
Ask(q) ==
  /\ CanRead(q)
  /\ LocalAnswer(query[q].question) = {}
  /\ \E p \in Forward(query[q].question) :
       query' = [query EXCEPT ![q].pc = "upstream", ![q].asked = p]
  /\ readers' = readers \cup {q}
  /\ UNCHANGED <<inventory, due, changed, round, tables>>

\* What an engine may answer, by its own netmap: the canonical address of a
\* target of its tailnet, an address of somewhere else, or a name for a PTR.
EngineAnswers(p, question) ==
  IF question.type = "PTR"
  THEN {Name(MagicName[t]) : t \in {u \in inventory :
          Profile[u] = p /\ Address(Canonical[u]) = question.addr}}
  ELSE {Address(Canonical[t]) : t \in {u \in inventory :
          Profile[u] = p /\ MagicName[u] = question.name}}
       \cup {Address("elsewhere")}

\* The engine's message is passed on, with the addresses of an A answer rewritten;
\* or the engine fails, and the answer is NXDOMAIN.
Replies(q) ==
  {Rcode("NXDOMAIN")} \cup
  {IF query[q].question.type = "A" THEN rewrite(a.of) ELSE a :
     a \in EngineAnswers(query[q].asked, query[q].question)}

\* Mutant of Upstream: rewrite takes the read lock once more.
UpstreamRelocks(q) ==
  /\ query[q].pc = "upstream"
  /\ round.pc # "lock"
  /\ \E a \in Replies(q) : Answer(q, a)
  /\ readers' = readers \ {q}
  /\ UNCHANGED <<inventory, due, changed, round, tables>>

\* The engine's query returns; the answer is written and the lock released.
Upstream(q) ==
  /\ query[q].pc = "upstream"
  /\ \E a \in Replies(q) : Answer(q, a)
  /\ readers' = readers \ {q}
  /\ UNCHANGED <<inventory, due, changed, round, tables>>

-----------------------------------------------------------------------------
\* The main loop.

\* setStatusAndTargets or degrade stores the targets of a profile ...
InventoryChanges ==
  /\ \E p \in Profiles :
       /\ inventory' \in Inventories \ {inventory}
       /\ \A t \in Targets : Profile[t] # p => (t \in inventory' <=> t \in inventory)
       /\ due' = due \cup {p}
  /\ UNCHANGED <<changed, round, tables, readers, query>>

\* ... and notifies, after it has released the profile's lock.
Notify ==
  /\ \E p \in due : due' = due \ {p}
  /\ changed' = TRUE
  /\ UNCHANGED <<inventory, round, tables, readers, query>>

\* The round takes the notification and the inventory ...
RoundInventory ==
  /\ round.pc = "idle"
  /\ changed
  /\ changed' = FALSE
  /\ round' = [round EXCEPT !.pc = "leases", !.targets = inventory]
  /\ UNCHANGED <<inventory, due, tables, readers, query>>

\* ... and then the leases, of the inventory EffectiveLeases takes itself; then
\* dnsServer.Update asks for the write lock.
RoundLeases ==
  /\ round.pc = "leases"
  /\ round' = [round EXCEPT !.pc = "lock", !.leased = inventory]
  /\ UNCHANGED <<inventory, due, changed, tables, readers, query>>

\* EffectiveLeases fails: logged, and the round is over.
RoundLeasesFail ==
  /\ round.pc = "leases"
  /\ round' = Resting(TRUE)
  /\ UNCHANGED <<inventory, due, changed, tables, readers, query>>

\* The main loop returns: a signal, a restart, or a notification after which two
\* profiles have one suffix (Supervisor has when).  dnsServer.Close stops the
\* listeners and waits for the handlers.
Close ==
  /\ round.pc = "idle"
  /\ round' = [round EXCEPT !.pc = "closed"]
  /\ changed' \in {changed, FALSE}
  /\ UNCHANGED <<inventory, due, tables, readers, query>>

\* Mutant of Update: the changes channel is drained when the round is done.
UpdateDrains ==
  /\ round.pc = "lock"
  /\ readers = {}
  /\ tables' = [targets |-> round.targets, leased |-> round.leased]
  /\ round' = Resting(FALSE)
  /\ changed' = FALSE
  /\ UNCHANGED <<inventory, due, readers, query>>

\* Update: once the readers are gone, all tables are replaced together.
Update ==
  /\ round.pc = "lock"
  /\ readers = {}
  /\ tables' = [targets |-> round.targets, leased |-> round.leased]
  /\ round' = Resting(FALSE)
  /\ UNCHANGED <<inventory, due, changed, readers, query>>

Serve(q) == ServeLocal(q) \/ ServeUnknown(q) \/ Ask(q)

Round == RoundInventory \/ RoundLeases \/ RoundLeasesFail \/ Update

Next ==
  \/ InventoryChanges \/ Notify
  \/ Round \/ Close
  \/ \E q \in Queries : Arrive(q) \/ Serve(q) \/ Upstream(q)

Spec == Init /\ [][Next]_vars

\* Goroutines run, a waiting writer admits no new readers, the readers it let
\* in before run on, and engines answer or fail in the end (their queries have
\* no deadline in the code).
FairSpec ==
  /\ Spec
  /\ WF_vars(Round)
  /\ \A q \in Queries : SF_vars(Serve(q)) /\ WF_vars(Upstream(q))

-----------------------------------------------------------------------------
\* Properties.

\* Every variable has its type, and the readers are the queries that wait for an
\* engine.
TypeOK ==
  /\ inventory \in Inventories
  /\ changed \in BOOLEAN
  /\ due \subseteq Profiles
  /\ round.pc \in {"idle", "leases", "lock", "closed"} /\ round.failed \in BOOLEAN
  /\ round.targets \cup round.leased \subseteq Targets
  /\ tables.targets \in Inventories /\ tables.leased \in Inventories
  /\ \A q \in Queries : query[q].pc \in {"idle", "lock", "upstream", "answered"}
  /\ readers = {q \in Queries : query[q].pc = "upstream"}

\* A change is stored and not notified, waits for the main loop, or is on its way
\* through a round.
Settling == due # {} \/ changed \/ round.pc # "idle"

\* When no change is on its way, and the last round did not fail, names resolve by
\* exactly what the supervisor has: every target is listed with its lease and no
\* withdrawn one is.  A round takes targets and leases from two snapshots, so in
\* between the tables may list a target without its lease, and its name is skipped.
TablesCurrent ==
  Settling \/ round.failed \/ (tables.targets = inventory /\ tables.leased = inventory)

\* q is answered in this step, with an answer of this kind.
Answers(q, kind) ==
  /\ query[q].pc # "answered"
  /\ query'[q].pc = "answered"
  /\ query'[q].answer.kind = kind

\* An answer never shows the canonical address of a target that has a lease in
\* the tables, whichever profile's engine it came from.
NeverCanonical ==
  [][\A q \in Queries :
       Answers(q, "address") => \A t \in Mapped : Canonical[t] # query'[q].answer.of]_vars

\* The answer of an engine is passed on only if the tables would still send the
\* question to that profile: no update comes between the choice of the profile
\* and the rewriting of its answer, however long the engine takes.
ForwardedByCurrentTables ==
  [][\A q \in Queries :
       query[q].pc = "upstream" /\ query'[q].pc = "answered" =>
         query[q].asked \in Forward(query[q].question)]_vars

\* Every query is answered: handlers, a waiting Update and the engines' answers
\* never wait for each other in a circle.
QueriesAnswered ==
  \A q \in Queries : query[q].pc = "lock" ~> query[q].pc = "answered"
===============================================================================
