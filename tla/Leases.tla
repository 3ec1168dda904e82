-------------------------------- MODULE Leases --------------------------------
(***************************************************************************)
(* Effective-address leases: internal/allocator, internal/state and        *)
(* Supervisor.EffectiveLeases, run by the daemon's main loop and by the    *)
(* control socket's "status" handlers, over crashes, restarts, changes of  *)
(* effective_ipv4_cidr and database failures.                              *)
(*                                                                         *)
(* EffectiveLeases holds no lock: it reads the whole leases table, runs    *)
(* the allocator on what it read, and then writes its result back one row  *)
(* at a time.  Each of those database statements is a step here, so two    *)
(* callers interleave as two goroutines do.                                *)
(***************************************************************************)
EXTENDS Integers, FiniteSets

CONSTANTS
  Keys,          \* inventory.Key strings, represented by their rank in string order
  Cidrs,         \* the values effective_ipv4_cidr may take: [base, size]
  AddressSpace,  \* 2^32: the number of IPv4 addresses, and the modulus of uint32
  Hash,          \* the first four bytes of a key's SHA-256, as a number
  Callers,       \* the goroutines that call EffectiveLeases
  Main,          \* the one that is the daemon's main loop
  Writers,       \* the goroutines that store targets: watches, refreshes and logins
  DbFaults,      \* whether a statement on the runtime database may fail
  StartFaults,   \* whether a profile's start may fail after another one was appended
  NoIP,          \* the zero netip.Addr: no lease
  NoCidr         \* no 'cidr' row in the meta table

ASSUME KeysAssumption == Keys \subseteq Nat

ASSUME AddressSpaceAssumption == AddressSpace \in Nat \ {0}

\* config.Validate and allocator.New accept an IPv4 prefix of at most 30 bits.
ASSUME CidrsAssumption ==
  \A c \in Cidrs : /\ c.base \in Nat
                   /\ c.size \in Nat
                   /\ c.size >= 4
                   /\ c.base + c.size <= AddressSpace

ASSUME HashAssumption == Hash \in [Keys -> 0 .. (AddressSpace - 1)]

ASSUME CallersAssumption == Main \in Callers

ASSUME FaultsAssumption == {DbFaults, StartFaults} \subseteq BOOLEAN

ASSUME NullAssumption == NoIP \notin Nat /\ NoCidr \notin Cidrs

VARIABLES
  config,     \* effective_ipv4_cidr in the YAML file
  disk,       \* the runtime database: the meta row and the leases table
  mode,       \* where the daemon process is in its life
  cidr,       \* the CIDR this process was started with (Supervisor.cfg)
  inventory,  \* the keys of Supervisor.Inventory
  storing,    \* the writers that have stored targets and not notified yet
  pending,    \* a notification waits in the changes channel
  plan,       \* the leases the main loop last put into effect
  call        \* the EffectiveLeases call each goroutine is in

vars == <<config, disk, mode, cidr, inventory, storing, pending, plan, call>>

-----------------------------------------------------------------------------
\* The address pool of a CIDR and the allocator's arithmetic on it.

Addresses == 0 .. (AddressSpace - 1)

NoLeases == [k \in Keys |-> NoIP]

\* `total` in lease: a uint32, which is 0 for the prefix 0.0.0.0/0.
total(c) == c.size % AddressSpace

\* What Reserve accepts: in the prefix, not the NAT or the DNS address.
Reservable(c) == (c.base .. (c.base + c.size - 1)) \ {c.base + 1, c.base + 2}

\* What lease can hand out: everything after the three reserved addresses.
Leaseable(c) ==
  IF total(c) <= 3 THEN {} ELSE (c.base + 3) .. (c.base + total(c) - 1)

\* The i-th address that lease tries for a key.
Probe(c, k, i) ==
  LET slot == Hash[k] % (total(c) - 3)
  IN  c.base + 3 + ((slot + i) % (total(c) - 3))

Used(f, ip) == \E j \in Keys : f[j] = ip

Injective(f) == \A j, k \in Keys : f[j] = f[k] /\ f[j] # NoIP => j = k

\* Reserving every persisted lease, in any order, meets no error.
ReserveAll(c, f) ==
  /\ Injective(f)
  /\ \A k \in Keys : f[k] # NoIP => f[k] \in Reservable(c)

\* Mutant of lease: the hashed slot is taken without looking whether it is used.
leaseUnprobed(c, f, k, ip) ==
  \/ f[k] # NoIP /\ ip = f[k]
  \/ f[k] = NoIP /\ total(c) > 3 /\ ip = Probe(c, k, 0)

\* lease(k) returns ip when the allocator's leases are f.
lease(c, f, k, ip) ==
  \/ f[k] # NoIP /\ ip = f[k]
  \/ /\ f[k] = NoIP
     /\ total(c) > 3
     /\ \E i \in 0 .. (total(c) - 4) :
          /\ ip = Probe(c, k, i)
          /\ ~Used(f, ip)
          /\ \A j \in 0 .. (i - 1) : Used(f, Probe(c, k, j))

\* Mutant of Exhausted: the last address of the pool is never tried.
ExhaustedEarly(c, f, k) ==
  /\ f[k] = NoIP
  /\ \/ total(c) <= 3
     \/ \A i \in 0 .. (total(c) - 5) : Used(f, Probe(c, k, i))

\* lease(k) returns "pool exhausted".
Exhausted(c, f, k) ==
  /\ f[k] = NoIP
  /\ \/ total(c) <= 3
     \/ \A i \in 0 .. (total(c) - 4) : Used(f, Probe(c, k, i))

-----------------------------------------------------------------------------
\* The database: one row per key, and the CIDR the rows were allocated from.

EmptyDisk == [cidr |-> NoCidr, leases |-> NoLeases]

Idle == [pc |-> "idle", keys |-> {}, lease |-> NoLeases, todo |-> {}]

Alive == mode \in {"starting", "up"}

Init ==
  /\ config \in Cidrs
  /\ disk = EmptyDisk
  /\ mode = "down"
  /\ cidr = config
  /\ inventory = {}
  /\ storing = {}
  /\ pending = FALSE
  /\ plan = NoLeases
  /\ call = [c \in Callers |-> Idle]

\* The administrator edits effective_ipv4_cidr; a running daemon keeps its own.
ChangeCidr ==
  /\ config' \in Cidrs \ {config}
  /\ UNCHANGED <<disk, mode, cidr, inventory, storing, pending, plan, call>>

\* Mutant of StartDaemon: the CIDR is taken from the database.
StartDaemonFromMeta ==
  /\ mode \in {"down", "failed"}
  /\ mode' = "open"
  /\ cidr' = disk.cidr
  /\ UNCHANGED <<config, disk, inventory, storing, pending, plan, call>>

\* run: config.Load, then runtime.New opens the database.
StartDaemon ==
  /\ mode \in {"down", "failed"}
  /\ mode' = "open"
  /\ cidr' = config
  /\ UNCHANGED <<config, disk, inventory, storing, pending, plan, call>>

\* Mutant of OpenDelete: the meta row is written before the leases are dropped.
OpenStampsFirst ==
  /\ mode = "open"
  /\ disk.cidr \notin {NoCidr, cidr}
  /\ disk' = [disk EXCEPT !.cidr = cidr]
  /\ mode' = "deleted"
  /\ UNCHANGED <<config, cidr, inventory, storing, pending, plan, call>>

\* Open, first statement that writes: the CIDR has changed, drop every lease.
OpenDelete ==
  /\ mode \in {"open", "reopen"}
  /\ disk.cidr \notin {NoCidr, cidr}
  /\ disk' = [disk EXCEPT !.leases = NoLeases]
  /\ mode' = IF mode = "open" THEN "deleted" ELSE "redeleted"
  /\ UNCHANGED <<config, cidr, inventory, storing, pending, plan, call>>

\* Open, second statement that writes: record the CIDR.
OpenStamp ==
  /\ \/ mode \in {"open", "reopen"} /\ disk.cidr \in {NoCidr, cidr}
     \/ mode \in {"deleted", "redeleted"}
  /\ disk' = [disk EXCEPT !.cidr = cidr]
  /\ mode' = "starting"
  /\ UNCHANGED <<config, cidr, inventory, storing, pending, plan, call>>

\* OpenRecovering: the first Open failed, so the files are renamed away; an error of
\* that is ignored, and the second Open then finds the same database.
OpenRecover ==
  /\ DbFaults
  /\ mode \in {"open", "deleted"}
  /\ disk' \in {EmptyDisk, disk}
  /\ mode' = "reopen"
  /\ UNCHANGED <<config, cidr, inventory, storing, pending, plan, call>>

\* OpenRecovering: the second Open failed too, so New and the daemon fail.
OpenFail ==
  /\ DbFaults
  /\ mode \in {"reopen", "redeleted"}
  /\ mode' = "failed"
  /\ UNCHANGED <<config, disk, cidr, inventory, storing, pending, plan, call>>

\* The process ends, by a crash at any point or by its own exit.
Crash ==
  /\ mode \notin {"down", "failed"}
  /\ mode' = "down"
  /\ inventory' = {}
  /\ storing' = {}
  /\ pending' = FALSE
  /\ plan' = NoLeases
  /\ call' = [c \in Callers |-> Idle]
  /\ UNCHANGED <<config, disk, cidr>>

\* setStatusAndTargets or degrade stores a profile's targets, or
\* StartConfiguredProfiles appends a profile that has some.
InventoryChanges(w) ==
  /\ Alive
  /\ w \notin storing
  /\ inventory' \in SUBSET Keys \ {inventory}
  /\ storing' = storing \cup {w}
  /\ UNCHANGED <<config, disk, mode, cidr, pending, plan, call>>

\* Afterwards it notifies, unless the start of a later profile fails first:
\* StartConfiguredProfiles then returns without.
Notify(w) ==
  /\ w \in storing
  /\ storing' = storing \ {w}
  /\ \/ pending' = TRUE
     \/ StartFaults /\ UNCHANGED pending
  /\ UNCHANGED <<config, disk, mode, cidr, inventory, plan, call>>

-----------------------------------------------------------------------------
\* EffectiveLeases, step by step.

\* The caller enters and takes the inventory: once at startup and then for
\* every notification in the main loop, at any time in a status handler.
Begin(c) ==
  /\ call[c].pc = "idle"
  /\ \/ c = Main /\ mode = "starting" /\ UNCHANGED pending
     \/ c = Main /\ mode = "up" /\ pending /\ pending' = FALSE
     \/ c # Main /\ mode = "up" /\ UNCHANGED pending
  /\ call' = [call EXCEPT ![c] = [Idle EXCEPT !.pc = "read", !.keys = inventory]]
  /\ UNCHANGED <<config, disk, mode, cidr, inventory, storing, plan>>

\* An error is returned: fatal at startup, logged and dropped in the main loop,
\* ignored by a status handler.
ReturnError(c) ==
  /\ call' = [call EXCEPT ![c] = Idle]
  /\ mode' = IF c = Main /\ mode = "starting" THEN "failed" ELSE mode
  /\ inventory' = IF mode' = "failed" THEN {} ELSE inventory
  /\ storing' = IF mode' = "failed" THEN {} ELSE storing
  /\ pending' = (pending /\ mode' # "failed")
  /\ UNCHANGED <<config, disk, cidr, plan>>

\* Mutant of ReadLeases: only the rows of active targets are reserved.
ReadLeasesActiveOnly(c) ==
  /\ call[c].pc = "read"
  /\ ReserveAll(cidr, disk.leases)
  /\ call' = [call EXCEPT
       ![c].pc = "allocate",
       ![c].lease = [k \in Keys |-> IF k \in call[c].keys THEN disk.leases[k] ELSE NoIP],
       ![c].todo = call[c].keys]
  /\ UNCHANGED <<config, disk, mode, cidr, inventory, storing, pending, plan>>

\* Mutant of ReadLeases: the persisted rows are not reserved at all.
ReadLeasesForgotten(c) ==
  /\ call[c].pc = "read"
  /\ call' = [call EXCEPT ![c].pc = "allocate", ![c].todo = call[c].keys]
  /\ UNCHANGED <<config, disk, mode, cidr, inventory, storing, pending, plan>>

\* store.Leases and the Reserve of every row succeed.
ReadLeases(c) ==
  /\ call[c].pc = "read"
  /\ ReserveAll(cidr, disk.leases)
  /\ call' = [call EXCEPT ![c].pc = "allocate",
                          ![c].lease = disk.leases,
                          ![c].todo = call[c].keys]
  /\ UNCHANGED <<config, disk, mode, cidr, inventory, storing, pending, plan>>

\* The query fails, or a row cannot be reserved.
ReadLeasesFails(c) ==
  /\ call[c].pc = "read"
  /\ DbFaults \/ ~ReserveAll(cidr, disk.leases)
  /\ ReturnError(c)

\* k is the next of the caller's sorted keys.
NextKey(c, k) == k \in call[c].todo /\ \A j \in call[c].todo : k <= j

\* Allocate: the next key gets its lease.
AllocateKey(c) ==
  /\ call[c].pc = "allocate"
  /\ \E k \in Keys, ip \in Addresses :
       /\ NextKey(c, k)
       /\ lease(cidr, call[c].lease, k, ip)
       /\ call' = [call EXCEPT ![c].lease[k] = ip, ![c].todo = @ \ {k}]
  /\ UNCHANGED <<config, disk, mode, cidr, inventory, storing, pending, plan>>

\* Allocate: the pool has no address left for the next key.
AllocateFails(c) ==
  /\ call[c].pc = "allocate"
  /\ \E k \in Keys : NextKey(c, k) /\ Exhausted(cidr, call[c].lease, k)
  /\ ReturnError(c)

\* Allocate returns, and the write loop starts over at the first key.
AllocateDone(c) ==
  /\ call[c].pc = "allocate"
  /\ call[c].todo = {}
  /\ call' = [call EXCEPT ![c].pc = "put", ![c].todo = call[c].keys]
  /\ UNCHANGED <<config, disk, mode, cidr, inventory, storing, pending, plan>>

\* store.Put of the next key: an upsert of its row.
Put(c) ==
  /\ call[c].pc = "put"
  /\ \E k \in Keys :
       /\ NextKey(c, k)
       /\ disk' = [disk EXCEPT !.leases[k] = call[c].lease[k]]
       /\ call' = [call EXCEPT ![c].todo = @ \ {k}]
  /\ UNCHANGED <<config, mode, cidr, inventory, storing, pending, plan>>

\* store.Put fails: the rows before it stay, the rest is not written.
PutFails(c) ==
  /\ DbFaults
  /\ call[c].pc = "put"
  /\ call[c].todo # {}
  /\ ReturnError(c)

\* The leases of the caller's keys, and of no other key the table holds.
Result(c) == [k \in Keys |-> IF k \in call[c].keys THEN call[c].lease[k] ELSE NoIP]

\* Mutant of Return: the result is used before every row is written.
ReturnUnwritten(c) ==
  /\ call[c].pc = "put"
  /\ call' = [call EXCEPT ![c] = Idle]
  /\ plan' = IF c = Main THEN Result(c) ELSE plan
  /\ mode' = IF c = Main THEN "up" ELSE mode
  /\ UNCHANGED <<config, disk, cidr, inventory, storing, pending>>

\* Mutant of Return: the changes channel is drained after the work, not before.
ReturnDrains(c) ==
  /\ call[c].pc = "put"
  /\ call[c].todo = {}
  /\ call' = [call EXCEPT ![c] = Idle]
  /\ plan' = IF c = Main THEN Result(c) ELSE plan
  /\ mode' = IF c = Main THEN "up" ELSE mode
  /\ pending' = (pending /\ c # Main)
  /\ UNCHANGED <<config, disk, cidr, inventory, storing>>

\* EffectiveLeases returns; the main loop puts the result into effect.
Return(c) ==
  /\ call[c].pc = "put"
  /\ call[c].todo = {}
  /\ call' = [call EXCEPT ![c] = Idle]
  /\ plan' = IF c = Main THEN Result(c) ELSE plan
  /\ mode' = IF c = Main THEN "up" ELSE mode
  /\ UNCHANGED <<config, disk, cidr, inventory, storing, pending>>

EffectiveLeases(c) ==
  \/ Begin(c)
  \/ ReadLeases(c) \/ ReadLeasesFails(c)
  \/ AllocateKey(c) \/ AllocateFails(c) \/ AllocateDone(c)
  \/ Put(c) \/ PutFails(c)
  \/ Return(c)

Next ==
  \/ ChangeCidr
  \/ StartDaemon
  \/ OpenDelete \/ OpenStamp \/ OpenRecover \/ OpenFail
  \/ Crash
  \/ \E w \in Writers : InventoryChanges(w) \/ Notify(w)
  \/ \E c \in Callers : EffectiveLeases(c)

Spec == Init /\ [][Next]_vars

\* The main goroutine keeps running, and so does one that has stored targets; nothing
\* obliges status clients to call.
FairSpec ==
  /\ Spec
  /\ WF_vars(EffectiveLeases(Main))
  /\ \A w \in Writers : WF_vars(Notify(w))

-----------------------------------------------------------------------------
\* Properties.

LeaseTable == [Keys -> Addresses \cup {NoIP}]

\* Every variable has its type; partial tables are total functions into NoIP.
TypeOK ==
  /\ config \in Cidrs
  /\ disk \in [cidr : Cidrs \cup {NoCidr}, leases : LeaseTable]
  /\ mode \in {"down", "open", "deleted", "reopen", "redeleted", "starting", "up", "failed"}
  /\ cidr \in Cidrs
  /\ inventory \in SUBSET Keys
  /\ storing \in SUBSET Writers
  /\ pending \in BOOLEAN
  /\ plan \in LeaseTable
  /\ call \in [Callers -> [pc : {"idle", "read", "allocate", "put"},
                           keys : SUBSET Keys,
                           lease : LeaseTable,
                           todo : SUBSET Keys]]

\* No two keys hold the same effective address in the database, whatever was
\* allocated before, whichever Put was the last one before a crash.  Reserve
\* refuses a table that breaks this, and then the daemon cannot start again.
StoreCollisionFree == Injective(disk.leases)

\* Every persisted lease lies in the leaseable part of the CIDR the meta row
\* names, also when the CIDR changed and the process died inside Open: no old
\* address survives and the NAT and DNS addresses are never leased.
StoreInPool ==
  \A k \in Keys : disk.leases[k] # NoIP =>
    disk.cidr # NoCidr /\ disk.leases[k] \in Leaseable(disk.cidr)

\* The leases the main loop routes and translates by never send two targets to
\* one effective address, and stay inside the pool of the running CIDR.
PlanCollisionFree ==
  /\ Injective(plan)
  /\ \A k \in Keys : plan[k] # NoIP => plan[k] \in Leaseable(cidr)

\* The leases in effect are the ones the database would give back after a
\* restart: a target keeps the address that the datapath translates for it.
PlanIsPersisted ==
  \A k \in Keys : plan[k] # NoIP => disk.leases[k] = plan[k]

\* The inventory and the rows the table holds, those of targets long gone included,
\* are more than the pool can lease.
NoRoom ==
  Cardinality({k \in Keys : disk.leases[k] # NoIP} \cup inventory) > Cardinality(Leaseable(cidr))

InEffect(I) == \A k \in Keys : k \in I <=> plan[k] # NoIP

\* Once every change is notified and consumed and the main loop waits, exactly the
\* targets of the inventory have a lease in effect; only a pool too small for them and
\* for the rows that are never deleted keeps EffectiveLeases from that, and it gives up
\* no sooner.
FullyOperating ==
  mode = "up" /\ call[Main].pc = "idle" /\ ~pending /\ storing = {} =>
    InEffect(inventory) \/ NoRoom

\* A persisted lease never moves to another address and is never dropped,
\* except by Open's DELETE or by the recovery of an unreadable database.
LeaseNeverMoves ==
  [][\A k \in Keys : disk.leases[k] \notin {NoIP, disk'.leases[k]} =>
       mode \in {"open", "deleted", "reopen"} /\ disk'.leases = NoLeases]_vars

\* If from some point on the daemon is up with a fixed inventory, the main loop
\* eventually has exactly that inventory in effect and keeps it, or has no room for it.
EventuallyReconciled ==
  \A I \in SUBSET Keys :
    <>[](mode = "up" /\ inventory = I)
      => <>[](InEffect(I) \/ NoRoom)

\* The table of rows and the plan in effect, seen as a LeaseMap.
LM == INSTANCE LeaseMap WITH table <- disk.leases, inUse <- plan

\* Hashing, probing, writing row by row, failing and dying at any point amount to
\* a lease table: every statement on the database grants one key one free
\* address, empties the table while no plan is in effect, or changes nothing, and
\* a plan is put into effect only from rows that are all written.
ImplementsLeaseMap == LM!Spec
===============================================================================
