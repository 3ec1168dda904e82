# tailscale-multitail: TLA+ models and proofs

`tailscale-multitaild` joins several tailnets at once: one embedded Tailscale
engine (tsnet) per profile, one host TUN, one packet mux that translates between
the host and the engines, and a lease table that gives every remote target an
*effective* IPv4 address of its own, because canonical Tailscale addresses of two
tailnets may collide. This directory holds the specification of the parts whose
correctness depends on the order in which goroutines, database statements,
crashes and packets happen.

## The system and its parts

| part | state | operations | talks to |
|---|---|---|---|
| allocator (`internal/allocator`) | leases and used addresses of one call | `Reserve`, `Allocate`, `lease` | called by `EffectiveLeases` |
| runtime database (`internal/state`) | tables `meta(cidr)` and `leases` | `OpenRecovering`, `Open`, `Leases`, `Put` | SQLite |
| supervisor (`internal/runtime`) | profile list; status and targets of each profile; a change channel of capacity 1 | `Start`, `StartConfiguredProfiles`, `watch`, `refresh`, `degrade`, `Login`, `Logout`, `Inventory`, `EffectiveLeases`, `DatapathProfiles`, `ValidateDNSSuffixes`, `Close` | engines (LocalAPI, IPN bus), database, main loop |
| daemon main loop (`cmd/tailscale-multitaild`) | the plan in effect | startup, one reconcile round per change, control operations | all of them |
| packet mux (`internal/mux`) | bindings, raw flow table, fragment table, one goroutine per TUN | `hostLoop`, `profileLoop`, `addFlow`, `touchFlow`, `putFragment`, `getFragment`, `Update`, `purgeProfiles` | host TUN, profile TUNs |
| inventory (`internal/inventory`) | none: a snapshot | `Build`, `ResolveRaw`, `Collisions`, `Key` | supervisor, mux, DNS |
| configuration (`internal/config`) | the YAML file | `Load`, `Validate`, `WriteAtomic` | CLI, daemon |
| CLI (`cmd/tsmultitail`) | none | `profiles add/remove/move/set`, `config set`, `login`, `logout`, `status`, `doctor` | file, control socket |
| control socket (`internal/control`) | listener, at most 64 handlers | `accept`, `handle`, `Close` | main loop's handler |
| host TUN (`internal/hosttun`) | device, routes, rule | `Create`, `ReconcileTargets`, `AddTargets`, `ReadPacket`, `Close` | kernel |
| profile TUNs (`internal/packettun`) | two bounded queues | `TryInject`, `Receive`, `Read`, `Write`, `Close` | engine, mux |
| merged DNS (`internal/dnsmux`) | targets and leases of the last update | `Update`, `ServeDNS` | engines |
| systemd-resolved client (`internal/resolved`) | its connection; the link's settings are the service's | `Configure`, `Revert` | D-Bus |
| systemd unit (external) | active, to be restarted, inactive, failed | start, stop (SIGTERM), restart after exit status 75 | the daemon process |

What is hard about it:

* **Goroutines that share state piecewise.** Control handlers, one watch per
  profile, one packet loop per TUN and the main loop run concurrently. Locks
  cover single reads and writes; operations made of several of them
  (`EffectiveLeases`, `refresh`, `Logout`, `StartConfiguredProfiles`, a packet's
  way through the mux, a reconcile round) are not atomic.
* **Failure.** The process may stop between any two database statements; watches
  fail and are retried with backoff; a database that does not open is replaced; a
  round whose leases or routes fail is abandoned or continued, and only logged.
* **Limits.** The address pool, the flow table, the fragment table, the packet
  queues, the handlers' semaphore and the change channel (one element) all have
  limits that are reached in normal operation.
* **The end of the process.** Six deferred calls, each pushed at its own point of
  startup, close components that other goroutines still use; the kernel's rule
  outlives a process that does not reach them.

What makes the parts correct, in one line each: leases are unique, in the pool,
stable and persisted before use; a peer is shown to the host under an address that
is its own and that the host may expect; no change of a profile is lost on its way
to routes and mux; a logged-out profile is withdrawn; a profile runs once, in the
order of the file; a datagram still verifies after its addresses are translated; a
packet of the host reaches its engine or is counted as dropped, and no profile delays
another; a name resolves by the current tables, to a leased address; whatever ends
the daemon, it takes everything it has put on the host away again, in an order in
which nothing runs against what is already closed.

## Modules

`Leases` — allocator, runtime database and `Supervisor.EffectiveLeases`. A key is
its rank in string order, a CIDR a record `[base, size]`, SHA-256 an arbitrary
function `Hash`. A call of `EffectiveLeases` is the steps `Begin` (inventory),
`ReadLeases` (the query and the `Reserve` of every row), `AllocateKey` per sorted
key, `Put` per row and `Return`. `Callers` are the goroutines that call it: the main
loop (`Main`) and status handlers. `Writers` are the goroutines that store targets:
`InventoryChanges` stores under the profile's lock and `Notify`, later, sends the
notification; with `StartFaults` it may be skipped, as when a login has appended a
profile and fails to start the next (`supervisor.go:388`). `mode` follows the process:
`open` → (`deleted`) → `starting` → `up`, with `reopen` and `redeleted` for the second
attempt of `OpenRecovering` and `failed` for a refused start. `OpenRecover` ignores the
errors of its renames, so the second attempt finds an empty database or the old one.
`Crash` may happen anywhere. A `/0` pool has `total = 0` (the
`uint32` shift), which `total` keeps.

`Mux` — the packet mux. One step is one critical section: `HostRead` (lookup under
`bindingsMu`), `AddFlow*` (under `flowMu`), `HostInject`; for each profile `Receive`,
`TouchFlow*`/`Lookup*`, `PutFragment`, `GetFragment*`, `WritePacket`; and `UpdateSwap`,
`PurgeFlows`, `PurgeFragments`, `ensureProfileLoops` for `Update`. A packet is its
addresses, its conversation (protocol with ports or ICMP identifier, `NoConv` where
`flowKey` is empty), its IP identification and its place among fragments. Time is
the state `idle` of an entry. `rewrite` is the choice of the new addresses;
checksums, statistics and invalid packets are left out. Two history variables serve
the properties: `opened`, the conversations the host has opened, and `raced`, the
profiles withdrawn while a loop held one of their packets.

`Supervisor` — status of profiles and the reconcile round. The engine of a profile
is external: a state and a netmap that change at will, and a bus that is posted to
while a watch is subscribed. Every goroutine (a watch per profile, a handler) has a
program counter; `refresh` is `RefreshReads` and, later, `SetStatusAndTargets` and
`Notify`. A backend that does not run may still know its netmap; `Offered` is what is
taken of it. The main loop is `TakeChange`, four passes that read one profile per step
under its lock (`Validate`, `TakeInventory`, `TakeLeases`, `DatapathProfiles`), and
between and after them `ReconcileRoutes` and `UpdateMux`. The history variable `raced`
holds the profiles whose targets a refresh has stored between the two critical sections
of a `Logout`. `Ops` and `Faults` select which operations and failures an
instance has; `RoutesFail` is a route that cannot be added. Leases are abstracted to
"every target of the snapshot has one".

`ProfileSet` — which profiles run: the file, CLI edits (load, then replace), the
daemon's start, exit and restart, and the control operation `login` up to the choice
of the engine. What a login has still to start is a set of positions in the file it
loaded, taken from the lowest. The history variable `raced` holds the ids that two logins
had still to start at the same time.

`LeaseMap` — the abstract specification of the lease service: a table and the leases
in use, with the steps `Grant`, `Publish`, `Withdraw` and `Reset`. `Leases` instantiates
it with `table <- disk.leases` and `inUse <- plan`; `ImplementsLeaseMap` is its `Spec`.

`Checksum` — `rewrite` of one datagram. Bytes are digits of a base (256 in the code), a
word is two of them and an address one word; the transport part is its data, with its
checksum apart. Words that precede the data in a sum enter it as the number they add up
to, since a sum does not depend on their order. The four cases of the code are kept:
computed anew, adjusted in a first fragment, left alone in a fragmented ICMP message,
zero avoided in UDP. The lengths are three classes: shorter than every check asks, long enough for the check of an
unfragmented segment but not for its checksum field, and full.

`PacketTun` — the two bounded queues of a profile's TUN and its `done` channel, as
formulas over them; a `select` with two ready cases takes either. `Datapath` composes
it with the host TUN's batches (`hosttun.ReadPacket` and its `pending`), `hostLoop`, one
`profileLoop` per device, two goroutines per engine, `Update` and `ensureProfileLoops` (the
swap of the bindings and the start of missing loops are two steps), profiles that start
late, and the closes at exit. Packets are numbers; which device a packet is for is chosen
when it arrives. `hostLoop` may drop any packet (invalid, no binding, a full flow table, a
failed `rewrite`) and counts it; `profileLoop` drops without counting, so a packet on its
way to the host is followed only until its loop takes it. An engine's reader takes what is
queued or, once the device is closed, the EOF.

`HostTun`, `Resolved`, `Control` — the operations of the host TUN against the kernel's
link, rule and table; of the systemd-resolved client, call by call; and of the control
socket with its accept loop, semaphore and handlers. Each is a set of formulas over its
own variables. `Daemon` composes them: `run` as a program counter, the stack of deferred
calls, the exit status, signals before and after they are caught, and the unit that
starts, stops and restarts the process. A call that fails is an alternative of the step
that makes it, with the effects it may have had by then. Where profiles and leases come
from is left to the modules above: a plan is a sequence of addresses out of `Plans`.

`DnsMux` — the merged DNS server: the tables and their lock, queries as goroutines that
are answered from the tables or ask an engine while they hold the read lock, and the
main loop's round that takes the inventory, takes the leases and replaces the tables, or is
given up when the leases fail (`RoundLeasesFail`, `main.go:340`). A profile's change is
stored (`InventoryChanges`) before it is notified (`Notify`). `Close` stands for every way
out of the main loop. A Go `RWMutex` admits no reader once a writer waits. `EndsWith` says which zones end with
which other, because `profileFor` compares strings, not labels.

`LeasesProofs`, `SupervisorProofs`, `ProfileSetProofs`, `MuxProofs`, `ChecksumProofs`,
`DatapathProofs`, `DnsMuxProofs` and `DaemonProofs` — theorems. `MCLeases`, `MCMux`,
`MCChecksum`, `MCDatapath`, `MCSupervisor`, `MCProfileSet`, `MCDnsMux` and `MCDaemon`
give the constants for TLC.

Each definition marked *Mutant* is a plausible wrong version of the definition its
comment names; it is used by no specification, only to show that a property would
notice the mistake.

The modules meet in these places: `Mux` assumes of `Lease` what
`Leases!PlanCollisionFree` establishes, that it is injective (a lease may be a canonical
address, since `config.Validate` and `CheckPoolOverlap` accept a pool inside
100.64.0.0/10); `Supervisor.TakeLeases`/`LeasesFail` are the
outcome of the main loop's call in `Leases`, whose `InventoryChanges` and `Notify` are the
stores and notifications of `Supervisor`; `Mux.UpdateSwap` is `Supervisor.UpdateMux`; the profiles of
`Supervisor` are those `ProfileSet` has started. `Daemon.Plan` and `Daemon.LoopChange`
stand for the snapshots `Supervisor`, `Leases` and `DnsMux` take step by step;
`Daemon.UnwindHost` and `UnwindSupervisor` are `Datapath.CloseHost` and `CloseEngine`;
`Datapath.Take` and `Inject` frame what `Mux` and `Checksum` do with a packet.

## Runs

Passing runs:

| run | bounds | shows |
|---|---|---|
| `leases_one_caller` | the main loop only, one goroutine that stores targets; three keys, two of which hash to one slot; a pool of five addresses and one of a single address; a crash at every step | types; no address twice in the database; every address in the pool; the plan persisted; no lease moves; whenever the loop waits, and in the end for an inventory that stays, exactly the inventory is leased, unless it and the rows of old targets outnumber the pool; and the whole implements `LeaseMap` |
| `leases_two_callers` | main loop and one status handler; pools with five, one and (`/0`) no leaseable address; every database statement may fail | each plan is in the pool and injective, even though the table may not be |
| `mux_two_tailnets` | two profiles with the same canonical address, one conversation each, tables with one entry | no peer is taken for another; canonical addresses only in conversations the host opened; purge complete but for packets in flight; tables bounded; entries in use not evicted |
| `checksum` | words of four bits; all-zeros, all-ones and carrying addresses; up to three bytes of data, every protocol, length class and fragment flag | a datagram that verifies still does after any number of translations |
| `datapath` | two devices, one of whose engines may stall; queues of one packet, batches of two; two packets from the host, two from an engine | order of packets both ways, and accounting of those of the host; a stalled profile delays nobody; the loops and a blocked write end |
| `supervisor_watch` | one profile, no handler, two watch or route failures | the daemon follows the engine |
| `supervisor_login` | one profile, one handler that logs in and out, two failures of watch, message or refresh | no change is lost; a profile that does not run offers no targets, but for the one race of `Logout`; what the mux binds is routed |
| `supervisor_suffix` | two profiles with one MagicDNS suffix, logouts, one failing lease computation | an ambiguity that stays stops the daemon |
| `profiles_edits` | three ids, two names, one editor, two handlers, restarts | a second engine of a profile only by two logins that both had to start it; profiles run in the order of the file; a login starts everything configured |
| `dns` | two profiles whose nodes share a label and a canonical address; one logs out and in; two queries at a time; any round may fail | the tables end up current unless the last round failed; no canonical address of a leased target in an answer; no update between the choice of a profile and its answer; every query is answered |
| `daemon` | plans with none, one and two targets, two of which share an address; two clients for one slot; one step in which any of its calls fail, or a crash, at any point | nothing left at exit; handlers before closes; routes and resolved in step; shutdown ends; a restart comes back |

Two keys or profiles are enough for a collision, two callers for a race between two
goroutines, a table with one entry and two candidates for a full table, one fault
(two, where a fault during recovery matters) for a failure at any step. Three keys,
two of which probe from the same address, make probing pass over a used one. State
is otherwise unbounded only in the bus (`MaxBus`), in the number of failures
(`MaxFaults`), of ids (`Ids`) and of packets (`MaxArrived`, `MaxSent`), and these bounds
appear in the guards. In `Checksum`, ones'-complement arithmetic is the same for every
word size; four bits give carries out of the word, both zeros and odd lengths.
`datapath` and `checksum` turn the deadlock check off: after the closes, or when its
bounded packets are spent or the datagram is dropped, the system has nothing left to do.

One run is refuted by TLC, and states what a document says (the finding in
`PROJECT.json` quotes it): `leases_race`, `StoreCollisionFree`. A status request and the
main loop persist one address for two targets. The passing runs leave out, or their
properties except by name, exactly the cases of this run and of the list below:
`leases_one_caller` has no status handler, and `FullyOperating` excepts a pool without room;
`PurgedUnlessInFlight` excepts packets in flight; `supervisor_watch` has no handlers;
`OfferedUnlessRaced` and `OneEngineUnlessRaced` except the profiles of one race each;
`TablesCurrent` excepts a last round that failed.

### Other instances

Further cases, shown by the same modules with other constants:

* In `leases_one_caller`, `FullyOperating` without its exception `NoRoom` is refuted: when
  `EffectiveLeases` fails after an inventory update the main loop logs it and keeps the
  previous plan (`main.go:340`), where `docs/architecture.md:178` says it "exits rather than
  partially operating". With `StartFaults = TRUE` the property itself is refuted: a login
  that appends one profile and fails to start the next returns before `notify`
  (`supervisor.go:388`), and the targets of the first wait for another notification.
* `Mux` with one profile, canonical address, conversation and IP identification,
  `MaxFlows = 2` and `MaxFrags = 1` refutes `PurgedOnWithdrawal`: a packet whose binding
  was looked up before `Update` swapped the bindings adds its flow after the purge
  (`mux.go:260`), where `docs/security-review.md:64` says "Withdrawn profiles purge their
  associated state."
* `supervisor_watch` with one handler and `Ops = {"login", "logout"}` refutes
  `FollowsEngine`: a refresh that read the engine before another goroutine's change stores
  its status after it (`supervisor.go:170`), or the second half of a `Logout` comes after
  the engine has logged in again (`supervisor.go:568`), and nothing refreshes the profile
  until the engine has something new to say. `docs/architecture.md:94` says "on
  failure/logout, withdraw that profile's routes, DNS records, and flows".
* In `profiles_edits`, `OneEngineUnlessRaced` without its exception `raced` is refuted: two
  logins after one added profile both find it missing and start it (`supervisor.go:376`),
  where `docs/architecture.md:9` speaks of "one embedded Tailscale node per profile".
* `profiles_edits` with two editors and three names refutes `OrderAsConfigured`: a command that loaded the
  file before `profiles move` replaces it afterwards with the old order
  (`cmd/tsmultitail/main.go:274`), and so undoes the move that the daemon has loaded.
* In `daemon`, a process that is killed, or stopped before its signals are caught
  (`main.go:209`) or after the deferred `stop`, leaves its rule: `NothingLeftAtExit` and
  `RestartComesBack` name this exception (`leaks`, `unit = "failed"`), because the next
  start is refused (`hosttun/linux.go:154`) with a status the unit does not restart.
* In `daemon`, `RoutesFollowTargets` excepts a reconciliation in which a call to the kernel
  failed (`routeErr`, `leaks`): `AddTargets` stops at the first failing addition, and only
  the next change tries again (`hosttun/linux.go:194-217`).
* In `dns`, `TablesCurrent` without its exception `round.failed` is refuted: a round whose
  lease computation fails has consumed the notification and skips `dnsServer.Update`
  (`main.go:340-343`), so the tables keep what is withdrawn until the next change.
* In `dns`, an answer from profile p with a canonical address that a later target of
  profile q shares is rewritten to q's lease (`dnsmux/server.go:266`); `NeverCanonical`
  asks only that it be a lease.
* In `checksum`, fragmented UDP sent without a checksum has its zero adjusted as if it
  were one (`mux.go:549`), the exception of `StaysVerified`. An unfragmented TCP segment of
  8 to 17 bytes passes the length check and is indexed at its checksum field
  (`mux.go:567-576`): the outcome `panic`, of which `StaysVerified` says nothing.
* `supervisor_watch` with `"message"` among the `Faults` refutes `FollowsEngine`: an
  error message on the bus (`supervisor.go:252`) degrades a healthy profile, and
  nothing refreshes it until the engine has something new to say.
* In `supervisor_login`, `OfferedUnlessRaced` without its exception `raced` is refuted: a
  refresh between the two critical sections of `Logout` (`supervisor.go:566-569`) leaves a
  profile in `NeedsLogin` with its targets.
* `leases_two_callers` refutes `LeaseNeverMoves`: the slower of two overlapping calls
  overwrites the other's row (`supervisor.go:624`).
* In `profiles_edits` a login may act on a removed profile that still runs under the
  name of one added since (`profileByName`, `supervisor.go:471`). The comment of
  `StartConfiguredProfiles` says that removing a profile still requires a restart, so no
  property forbids it.
* `AddFlowFull` in `Mux` drops the packets of a flow that is in the full table:
  `addFlow` compares the size before it looks up the key (`mux.go:411`).

### Fairness

`Leases!FairSpec` assumes weak fairness of the main loop's `EffectiveLeases` and of the
`Notify` that follows a store: the goroutines are never blocked for ever and every
statement returns. Nothing obliges a
status client to call. `Supervisor!FairSpec` assumes that every goroutine that can
take its next step does (the Go scheduler; LocalAPI calls return, backoff timers
fire), and that the main loop does. Engines, failures, logins and logouts happen at
will, and no fairness is assumed of them. The liveness properties speak only of
behaviours in which an engine or the inventory in the end stays as it is.

`Daemon!FairSpec`: the main goroutine's next step and the unit's `RestartSec` are weakly
fair, as is the step of some handler. Most steps of a handler have a deadline in the code
(5 seconds to read and write, 30 seconds for a logout, two minutes for the poll of a
login); a login's `StartConfiguredProfiles` runs under `context.Background()`
(`main.go:262`), so that it returns is an assumption. Another one is that the DNS server's
`Shutdown` returns: it waits for handlers whose query to an engine has no deadline
(`dnsmux/server.go:133`, `:161`). `ShutdownEnds` and `RestartComesBack` rest on both. The exits of the
select loop are strongly fair: `select` chooses at random among its ready cases, so
notifications that keep coming do not hide a closed channel for ever. Clients, signals,
notifications, faults and the administrator are free.

`DnsMux!FairSpec`: the main loop is weakly fair; taking the read lock is strongly fair,
because a Go `RWMutex` lets the readers that wait in when a writer leaves; engines answer
or fail in the end, which no deadline of the code ensures (`context.Background()` in
`ServeDNS`), so `QueriesAnswered` rests on that assumption.

`Datapath!FairSpec`: `hostLoop` goes on with what it has and notices a closed TUN, the
profile loops and blocked writes go on, an `Update` that has swapped the bindings comes to
`ensureProfileLoops`, and only the engines in `Lively` have to read, packets or the EOF.

## Theorems

TLC's instances are small; TLAPS proves the following for every value of the
constants, from the named assumptions of the modules (finite pools inside the address
space with at least four addresses, any hash function, injective leases for `Mux`, table limits above zero, plans that are sequences of
addresses, disjoint sets of goroutines). Where a theorem needs more, the hypothesis
stands in its statement. Each inductive invariant was checked by TLC on the runs'
instances first.

`LeasesProofs`
* For any number of concurrent callers: `TypeOK`, `StoreInPool`, `PlanCollisionFree`.
  The invariant `AnyCallersInv` adds what every call in progress holds: its table is
  in the pool of the running CIDR and injective, and the running process's database
  is stamped with that CIDR. Injectivity per call comes from `Reserve`, which checks
  what was read, and from `lease`, which takes only unused addresses.
* For any number of callers of which no two are in `EffectiveLeases` at once
  (`[]Serialized`): `StoreCollisionFree`, `PlanIsPersisted`, `LeaseNeverMoves`. The
  additional invariant `CallExtendsStore` says that the call in progress has every row of
  the database unchanged, so that writing any part of it back, and crashing after any
  `Put`, leaves an injective extension. A lock around `EffectiveLeases` would give the
  hypothesis; `leases_race` shows that it is needed.
* `FullyOperating` (`OperatesFully`), for serialised calls, if moreover no database statement
  and no start fails (`NoFaults`); pools may be of any size. The probes of one key are
  pairwise different (`ProbesDistinct`), so a call that finds none free has every address
  of the pool in its table, and by the pigeonhole principle the inventory and the rows
  outnumber the pool (`ExhaustedFull`), which stays so as long as the inventory does
  (`NoRoomStays`); a table in the pool and free of collisions is always accepted by
  `Reserve`; and `OperatingInv` says that a call works on the present inventory or a
  notification is pending or due.
* `ImplementsMap`: with serialised calls, `Leases` implements `LeaseMap`.
  Initial states map to initial states. Under the same invariant a `Put` rewrites a row as
  it was or is a `Grant` (the call extends the table and is injective, so a new address
  is nobody's), the end of a call is a `Publish` of rows that are all written, `Crash` is
  `Withdraw`, and `OpenDelete` and `OpenRecover` are `Reset`, since `LifeCycle` says no
  plan is in use before the daemon is up. Every other step is a stutter.

`SupervisorProofs`
* `TypeOK` for any profiles, handlers, netmaps and failures.
* `NoChangeIsLost`, as long as leases and routes can be had (`Quiet`), whoever logs in or
  out. The property speaks of the moment the main loop waits; the
  invariant `UpToDate` says of each point of the round what has been seen so far and is
  still so: as long as the channel is empty and no goroutine stands before its `notify`,
  what a pass has read of a profile (`Seen`) is what the profile has. It is inductive because a change is
  stored before it is notified and the channel is emptied before the first snapshot.
* `OfferedUnlessRaced` whatever fails, for any goroutines. Status and targets are replaced
  in one critical section everywhere but in `Logout`; `OfferInv` says that between its two
  sections the profile offers nothing either, unless it is raced, which is what the second
  section needs.
* `BoundIsRouted` as long as routes can be added, logouts and failing leases included:
  between `ReconcileRoutes` and `UpdateMux` the routes are those of the very snapshots that
  the mux will get (`RoutedInv`). With `"routes"` among the `Faults` TLC refutes it.

`ProfileSetProofs`
* `TypeOK` and `LoginStartsAll` for any number of editors and concurrent logins.
  `StartsInv`: what a login passed over, or has started, is running, and profiles only grow
  while a daemon is up.
* `OneEngineUnlessRaced` for any number of editors and handlers. `AloneInv`: an id that is
  not raced stands once in the list, and what `Start` or a login still has to start is not
  in it and is nobody else's to start.
* `OrderAsConfigured` if no two edits overlap (`[]EditsApart`), however logins do. The property compares
  the running profiles with the file, but a login appends from a copy of the file, so
  `OrderInv` relates all three: what runs, and every copy, inherits from the file what
  stands before its own entries (`Inherits`), which a removal and an addition at the end
  preserve however old the copy is. An id is given out once (`KnownInv`), so an entry that
  the file gains is in no older copy. For the hypothesis see the other instances above.

`MuxProofs`
* `TypeOK`, `SourceIsSender`, `CanonicalOnlyIfOpened`, `TablesBounded`,
  `PurgedUnlessInFlight`, `ActiveNeverEvicted` for any profiles, peers, conversations,
  fragments and table limits, with no further hypothesis. A packet is translated by what
  another packet left in a table, so the invariants are about the tables: a fragment's
  entry has its own sender's lease or none (`SenderInv`); a raw flow, and the peer of a raw
  fragment, was opened by the host, except where a peer's lease is its own canonical address
  (`OpenedInv`); the entries in use are finite and few
  (`BoundedInv`); an entry belongs to a profile that is bound, recorded as raced, or of the
  removed ones that the running `Update` has yet to purge, and so does each packet that can
  still reach a table (`PurgeInv`).

`ChecksumProofs`
* `TypeOK` and `StaysVerified` for any base, any addresses, data of any length and any
  number of translations. Ones'-complement arithmetic is arithmetic modulo `M - 1` with two
  zeros: `fold` of a sum is congruent to it and zero only for zero (`FoldFolds`), so a sum
  verifies exactly if it is a multiple of `M - 1` other than zero (`VerifiesIff`). A checksum
  that is computed makes the sum such a multiple (`Completes`), and one that is adjusted
  keeps it one, whatever the words that are not at hand add up to (`Adjusts`). `ChecksumInv`
  says this of the datagram; it is stronger than `StaysVerified` because an adjustment needs
  the sum to be a multiple, and a UDP checksum of zero would be accepted without that.
* `fold` and `WordSum` are recursive functions. What they compute is proved by the least
  counterexample: a set of naturals that is not empty has a least element
  (`LeastElement`, from the well-foundedness of `<`), and on it the recursion is unfolded once.

`DatapathProofs`
* `PacketsAccounted` for any devices, queue depths, batches and numbers of packets.
  `hostPackets` is the number of the packet that `hostLoop` took last (`HostInv`), so a
  packet given to a device is larger than all given before; an engine's read moves a
  packet from the queue to what is read and leaves their concatenation as it was
  (`GivenInv`, `OutInv`), and the packets given and dropped add up (`FS_` theorems on
  cardinality).
* `TypeOK`, by which the counters never pass the number of packets (`LimitInv`), and
  `BoundIsReceived`: while the host TUN is open every bound device is open and has a loop
  that receives, except between the swap of the bindings and `ensureProfileLoops`
  (`LoopInv`). It is the safety part of `LoopsEnd`: nothing is injected into a closed
  device, and no bound device is left without a loop once `Update` has returned.

`DnsMuxProofs`
* `TypeOK`, `TablesCurrent`, `ForwardedByCurrentTables`, `NeverCanonical` for any
  inventories, questions and handlers. `RoundInv`: while no notification waits or is due,
  the snapshots of the round under way are those of the inventory, and so are the tables
  between rounds if the last one did not fail.
  `ReadersInv` and `AskedInv`: the holders of the read lock are the queries at an engine,
  each sent there by the tables as they are; `Update` needs the lock free, so there is
  nothing it could disturb.

`DaemonProofs`
* `TypeOK`, `NothingLeftAtExit`, `HandlersFinishFirst`, `RoutesFollowTargets`,
  `ResolvedInStep` for any plans, clients, slots and number of faults. `StackInv` gives the
  stack of deferred calls at every point of `run`; `HostInv`, `SettingsInv` and `ServerInv`
  say what exists in terms of the stack (the link, the rule, the DNS server, the settings,
  the listener and its handlers); `RoutesInv` relates the kernel's table, the `Device`'s
  memory of it, the plan and the deletions that failed. From any return of `run` the
  stack then leads to an empty host.

Only model-checked:
* Liveness (`EventuallyReconciled`, `FollowsEngine`, `AmbiguityIsFatal`,
  `StalledDelaysNobody`, `LoopsEnd`, `QueriesAnswered`, `ShutdownEnds`, `RestartComesBack`):
  fairness is out of the prover's reach.
* The composition of the modules: each theorem is about its own module, and what one
  assumes of another (`LeaseAssumption` of `Mux`, the snapshots of `Daemon`) is argued in
  the list of places where they meet.

The `TypeOK` of every module is a theorem; the cfg files of `Checksum`, `Datapath`, `DnsMux`
and `Daemon` do not list it, though TLC finds that it holds on their instances.

## Assumptions about what is outside

* Deleting a rule that was never added has no effect. `Close` asks for it after a setup that
  failed early: `NewRule`'s default priority passes its guard (`hosttun/linux.go:293`).
* A link takes its routes, its addresses and its systemd-resolved settings with it; the TUN
  goes with its process.
* The renames of `OpenRecovering`, whose errors the code ignores, succeed or fail together.
* The DNS server's `Shutdown` and a login's `StartConfiguredProfiles` return (Fairness).
* systemd removes the unit's runtime directory, and with it the socket, when the unit
  ends; exit status 75 is restarted, 1 and 2 are not, a signal is.
* A D-Bus call that times out may have had its effect. `Revert` returns.
* An engine closes its TUN when it is closed, and hands packets over in batches.
* `packettun.Read` is given buffers that a packet of the host fits in, so
  `io.ErrShortBuffer` does not occur.
* The name "." is not asked for (`norm` maps a target without a name to it).
* `config_write` is one step in `ProfileSet`, under the code's `configMu`.

## Not modelled

The counters of `Stats` except packets and drops, and the rate limits of the log; the
order in which `inventory.Build` sorts (given as ranks) and `Collisions`, which is only
reported; the fields of a request and the credentials of a peer (a request is accepted
or rejected); the temporary file and lock of `WriteAtomic` (one step in `ProfileSet`: the
rename is the only effect another process sees); flag parsing, output and `doctor` of the
CLI; interactive login, which changes nothing in the daemon; `packettun.Inject`, which has
no caller; the start of the daemon without a host TUN or socket; the feasibility tool, a
stand-alone experiment that shares no state with the daemon; IPv6, which the daemon does
not carry.

## Plan

The components that carry the system's logic are modelled: first `Leases`, `Mux`,
`Supervisor` and `ProfileSet`, then `Checksum`, `PacketTun` and `Datapath`, `DnsMux`, and
`HostTun`, `Resolved` and `Control` under `Daemon`, and `LeaseMap` as the abstract
specification. Every invariant and action property of the passing runs is a theorem.
What could follow:

1. Abstract specifications of `ProfileSet` and `DnsMux` (a set of running profiles, a
   resolver that reads one table) and their refinement.
2. The places where the modules meet as refinements: `Daemon.Plan` by the rounds of
   `Supervisor` and `Leases`, `Datapath.Inject` by `Mux`.
3. The liveness properties, should the prover come to support fairness.
