----------------------------- MODULE LeasesProofs -----------------------------
(***************************************************************************)
(* Theorems about Leases, for any keys, CIDRs, hash function and callers.  *)
(*                                                                         *)
(* However many goroutines are in EffectiveLeases, what each one computes  *)
(* is free of collisions and inside the pool, so the plan in effect is     *)
(* too.  That the database is free of collisions, that the plan is what    *)
(* the database holds, and that no lease moves, hold as long as no two     *)
(* calls overlap (Serialized), as they cannot with the main loop as the    *)
(* only caller and could not under a lock; the run on two callers that do  *)
(* overlap shows that they do not hold otherwise.  If the database works,  *)
(* every target of the inventory is then served, or there are more of them *)
(* and of rows than addresses: the probes of one key are pairwise          *)
(* different, so that all of them are used only by as many other keys.     *)
(* Leases then implements LeaseMap.                                        *)
(***************************************************************************)
EXTENDS Leases, FiniteSetTheorems, TLAPS

-----------------------------------------------------------------------------
\* Arithmetic of the allocator.

\* Go's % on uint32 (and TLA+'s on naturals) stays below the modulus.
LEMMA ModRange ==
  ASSUME NEW x \in Nat, NEW m \in Nat, m > 0
  PROVE  x % m \in Nat /\ x % m < m
OBVIOUS

\* `total` is a natural number not above the size of the prefix.
LEMMA TotalType ==
  ASSUME NEW c \in Cidrs
  PROVE  total(c) \in Nat /\ total(c) <= c.size
<1>1. c.size \in Nat /\ c.size <= AddressSpace /\ AddressSpace \in Nat \ {0}
  BY CidrsAssumption, AddressSpaceAssumption
<1>2. CASE c.size = AddressSpace
  BY <1>1, <1>2 DEF total
<1>3. CASE c.size < AddressSpace
  BY <1>1, <1>3 DEF total
<1> QED BY <1>1, <1>2, <1>3

\* Everything lease can hand out is an address that Reserve accepts back.
LEMMA LeaseableReservable ==
  ASSUME NEW c \in Cidrs
  PROVE  /\ Leaseable(c) \subseteq Reservable(c)
         /\ Leaseable(c) \subseteq Addresses
BY TotalType, CidrsAssumption, AddressSpaceAssumption
   DEF Leaseable, Reservable, Addresses

\* Every address that lease probes is leaseable: never one of the first three,
\* never past the end of the prefix.
LEMMA ProbeLeaseable ==
  ASSUME NEW c \in Cidrs, total(c) > 3, NEW k \in Keys, NEW i \in Nat
  PROVE  Probe(c, k, i) \in Leaseable(c)
<1> DEFINE m == total(c) - 3
<1>1. m \in Nat /\ m > 0 /\ total(c) \in Nat /\ c.base \in Nat
  BY TotalType, CidrsAssumption
<1>2. Hash[k] \in Nat
  BY HashAssumption, AddressSpaceAssumption
<1>3. Hash[k] % m \in Nat
  BY <1>1, <1>2, ModRange
<1>4. ((Hash[k] % m) + i) % m \in Nat /\ ((Hash[k] % m) + i) % m < m
  <2>1. (Hash[k] % m) + i \in Nat
    BY <1>3
  <2> QED BY <1>1, <2>1, ModRange
<1>5. Probe(c, k, i) = c.base + 3 + (((Hash[k] % m) + i) % m)
  BY DEF Probe
<1> HIDE DEF m
<1> DEFINE r == ((Hash[k] % m) + i) % m
<1>6. r \in Nat /\ r < m /\ Probe(c, k, i) = c.base + 3 + r
  BY <1>4, <1>5
<1> HIDE DEF r
<1>7. total(c) = m + 3
  BY <1>1 DEF m
<1> QED BY <1>1, <1>6, <1>7 DEF Leaseable

\* A table in the given pool, free of collisions.
GoodTable(c, f) ==
  /\ Injective(f)
  /\ \A k \in Keys : f[k] # NoIP => f[k] \in Leaseable(c)

\* lease keeps the allocator's table in the pool and free of collisions.
LEMMA LeaseGood ==
  ASSUME NEW c \in Cidrs, NEW f \in LeaseTable, NEW k \in Keys, NEW ip \in Addresses,
         GoodTable(c, f), lease(c, f, k, ip)
  PROVE  /\ GoodTable(c, [f EXCEPT ![k] = ip])
         /\ ip # NoIP
         /\ f[k] # NoIP => ip = f[k]
<1>1. ip # NoIP
  BY NullAssumption, AddressSpaceAssumption DEF Addresses
<1>2. CASE f[k] # NoIP
  <2>1. ip = f[k] /\ [f EXCEPT ![k] = ip] = f
    BY <1>2 DEF lease, LeaseTable
  <2> QED BY <1>1, <2>1
<1>3. CASE f[k] = NoIP
  <2>1. total(c) > 3
    BY <1>3 DEF lease
  <2>2. PICK i \in 0 .. (total(c) - 4) : ip = Probe(c, k, i) /\ ~Used(f, ip)
    BY <1>3 DEF lease
  <2>3. i \in Nat
    BY TotalType
  <2>4. ip \in Leaseable(c)
    BY <2>1, <2>2, <2>3, ProbeLeaseable
  <2> QED BY <1>1, <1>3, <2>2, <2>4 DEF GoodTable, Injective, Used, LeaseTable
<1> QED BY <1>2, <1>3

-----------------------------------------------------------------------------
\* The invariant that any number of callers preserves.

\* Only a daemon past Open runs EffectiveLeases, with a plan; until it is up,
\* only its main goroutine does.
LifeCycle ==
  /\ Alive => disk.cidr = cidr
  /\ mode # "up" => plan = NoLeases
  /\ \A c \in Callers : call[c].pc # "idle" => Alive /\ (mode = "starting" => c = Main)
  /\ mode \in {"deleted", "redeleted"} => disk.leases = NoLeases

\* What a call has in hand: a good table, with a lease for every key passed.
CallGood(c) ==
  /\ call[c].pc \in {"allocate", "put"} => GoodTable(cidr, call[c].lease)
  /\ call[c].pc = "allocate" =>
       \A k \in call[c].keys \ call[c].todo : call[c].lease[k] # NoIP
  /\ call[c].pc = "put" => \A k \in call[c].keys : call[c].lease[k] # NoIP
  /\ call[c].todo \subseteq call[c].keys

CallsGood == \A c \in Callers : CallGood(c)

AnyCallersInv ==
  /\ TypeOK
  /\ LifeCycle
  /\ CallsGood
  /\ StoreInPool
  /\ PlanCollisionFree

\* The program starts with an empty database and no call.
LEMMA InitAnyCallers == Init => AnyCallersInv
<1> SUFFICES ASSUME Init PROVE AnyCallersInv
  OBVIOUS
<1> USE DEF Init, EmptyDisk, Idle, NoLeases
<1>1. TypeOK
  BY DEF TypeOK, LeaseTable
<1>2. LifeCycle
  BY DEF LifeCycle, Alive
<1>3. CallsGood
  BY DEF CallsGood, CallGood
<1>4. StoreInPool /\ PlanCollisionFree
  BY DEF StoreInPool, PlanCollisionFree, Injective
<1> QED BY <1>1, <1>2, <1>3, <1>4 DEF AnyCallersInv

\* The process life-cycle actions touch no call but to forget them all.
LEMMA ProcessStepAnyCallers ==
  ASSUME AnyCallersInv,
         \/ ChangeCidr \/ StartDaemon \/ OpenDelete \/ OpenStamp \/ OpenRecover
         \/ OpenFail \/ Crash \/ \E w \in Writers : InventoryChanges(w) \/ Notify(w)
  PROVE  AnyCallersInv'
<1> USE DEF AnyCallersInv
<1>1. CASE ChangeCidr
  BY <1>1 DEF ChangeCidr, TypeOK, LifeCycle, Alive, CallsGood, CallGood, GoodTable,
              StoreInPool, PlanCollisionFree
<1>2. CASE StartDaemon
  <2>1. TypeOK' /\ LifeCycle'
    BY <1>2 DEF StartDaemon, TypeOK, LifeCycle, Alive
  <2>2. CallsGood'
    BY <1>2 DEF StartDaemon, LifeCycle, Alive, CallsGood, CallGood
  <2>3. StoreInPool' /\ PlanCollisionFree'
    BY <1>2 DEF StartDaemon, StoreInPool, PlanCollisionFree, LifeCycle, Alive,
                NoLeases, Injective
  <2> QED BY <2>1, <2>2, <2>3
<1>3. CASE OpenDelete
  <2>1. TypeOK' /\ LifeCycle'
    BY <1>3 DEF OpenDelete, TypeOK, LifeCycle, Alive, LeaseTable, NoLeases
  <2>2. CallsGood' /\ PlanCollisionFree'
    BY <1>3 DEF OpenDelete, CallsGood, CallGood, GoodTable, PlanCollisionFree
  <2>3. StoreInPool'
    BY <1>3 DEF OpenDelete, StoreInPool, NoLeases, TypeOK
  <2> QED BY <2>1, <2>2, <2>3
<1>4. CASE OpenStamp
  <2>1. TypeOK' /\ LifeCycle'
    BY <1>4 DEF OpenStamp, TypeOK, LifeCycle, Alive
  <2>2. CallsGood' /\ PlanCollisionFree'
    BY <1>4 DEF OpenStamp, CallsGood, CallGood, GoodTable, PlanCollisionFree
  <2>3. StoreInPool'
    BY <1>4, NullAssumption DEF OpenStamp, StoreInPool, LifeCycle, NoLeases, TypeOK
  <2> QED BY <2>1, <2>2, <2>3
<1>5. CASE OpenRecover
  <2>1. TypeOK' /\ LifeCycle'
    BY <1>5 DEF OpenRecover, EmptyDisk, TypeOK, LifeCycle, Alive, LeaseTable, NoLeases
  <2>2. CallsGood' /\ PlanCollisionFree'
    BY <1>5 DEF OpenRecover, CallsGood, CallGood, GoodTable, PlanCollisionFree
  <2>3. StoreInPool'
    BY <1>5 DEF OpenRecover, EmptyDisk, StoreInPool, NoLeases
  <2> QED BY <2>1, <2>2, <2>3
<1>6. CASE OpenFail
  BY <1>6 DEF OpenFail, TypeOK, LifeCycle, Alive, CallsGood, CallGood, GoodTable,
              StoreInPool, PlanCollisionFree
<1>7. CASE Crash
  <2>1. TypeOK' /\ LifeCycle'
    BY <1>7 DEF Crash, TypeOK, LifeCycle, Alive, LeaseTable, NoLeases, Idle
  <2>2. CallsGood'
    BY <1>7 DEF Crash, CallsGood, CallGood, Idle
  <2>3. StoreInPool' /\ PlanCollisionFree'
    BY <1>7 DEF Crash, StoreInPool, PlanCollisionFree, NoLeases, Injective
  <2> QED BY <2>1, <2>2, <2>3
<1>8. ASSUME NEW w \in Writers, InventoryChanges(w) \/ Notify(w) PROVE AnyCallersInv'
  <2>1. UNCHANGED <<config, disk, mode, cidr, plan, call>>
    BY <1>8 DEF InventoryChanges, Notify
  <2>2. /\ inventory' \in SUBSET Keys /\ storing' \in SUBSET Writers
        /\ pending' \in BOOLEAN
    BY <1>8 DEF InventoryChanges, Notify, TypeOK
  <2> QED BY <2>1, <2>2 DEF TypeOK, LifeCycle, Alive, CallsGood, CallGood,
             GoodTable, StoreInPool, PlanCollisionFree
<1> QED BY <1>1, <1>2, <1>3, <1>4, <1>5, <1>6, <1>7, <1>8

\* An EffectiveLeases call that gives up leaves the rows it wrote and its plan.
LEMMA ReturnErrorAnyCallers ==
  ASSUME AnyCallersInv, NEW c \in Callers, call[c].pc # "idle", ReturnError(c)
  PROVE  AnyCallersInv'
<1> USE DEF AnyCallersInv
<1>1. TypeOK'
  BY DEF ReturnError, TypeOK, Idle, LeaseTable, NoLeases
<1>2. LifeCycle'
  BY CallersAssumption DEF ReturnError, LifeCycle, Alive, TypeOK, Idle, StoreInPool
<1>3. CallsGood'
  BY DEF ReturnError, CallsGood, CallGood, TypeOK, Idle
<1>4. StoreInPool' /\ PlanCollisionFree'
  BY DEF ReturnError, StoreInPool, PlanCollisionFree
<1> QED BY <1>1, <1>2, <1>3, <1>4

\* A step of an EffectiveLeases call.
LEMMA CallStepAnyCallers ==
  ASSUME AnyCallersInv, NEW c \in Callers, EffectiveLeases(c)
  PROVE  AnyCallersInv'
<1> USE DEF AnyCallersInv
<1>1. CASE Begin(c)
  <2>1. TypeOK' /\ LifeCycle'
    BY <1>1 DEF Begin, TypeOK, LifeCycle, Alive, Idle, LeaseTable, NoLeases
  <2>2. CallsGood'
    BY <1>1 DEF Begin, CallsGood, CallGood, TypeOK, Idle
  <2>3. StoreInPool' /\ PlanCollisionFree'
    BY <1>1 DEF Begin, StoreInPool, PlanCollisionFree
  <2> QED BY <2>1, <2>2, <2>3
<1>2. CASE ReadLeases(c)
  <2>1. TypeOK' /\ LifeCycle'
    <3>1. disk.leases \in LeaseTable /\ call[c].keys \in SUBSET Keys
      BY DEF TypeOK
    <3> DEFINE Calls == [pc : {"idle", "read", "allocate", "put"},
                         keys : SUBSET Keys,
                         lease : LeaseTable,
                         todo : SUBSET Keys]
               new == [call[c] EXCEPT !.pc = "allocate",
                                      !.lease = disk.leases,
                                      !.todo = call[c].keys]
    <3>2. new \in Calls
      BY <3>1 DEF TypeOK
    <3>3. call' = [call EXCEPT ![c] = new]
      BY <1>2 DEF ReadLeases, TypeOK
    <3>4. call' \in [Callers -> Calls]
      <4> HIDE DEF new
      <4> QED BY <3>2, <3>3 DEF TypeOK
    <3>5. TypeOK'
      BY <1>2, <3>4 DEF ReadLeases, TypeOK
    <3>6. LifeCycle'
      BY <1>2 DEF ReadLeases, TypeOK, LifeCycle, Alive
    <3> QED BY <3>5, <3>6
  <2>2. GoodTable(cidr, disk.leases)
    BY <1>2 DEF ReadLeases, ReserveAll, GoodTable, StoreInPool, LifeCycle
  <2>3. CallsGood'
    <3> SUFFICES ASSUME NEW d \in Callers PROVE CallGood(d)'
      BY DEF CallsGood
    <3>1. CASE d = c
      BY <1>2, <2>2, <3>1 DEF ReadLeases, CallsGood, CallGood, GoodTable, TypeOK
    <3>2. CASE d # c
      BY <1>2, <3>2 DEF ReadLeases, CallsGood, CallGood, GoodTable, TypeOK
    <3> QED BY <3>1, <3>2
  <2>4. StoreInPool' /\ PlanCollisionFree'
    BY <1>2 DEF ReadLeases, StoreInPool, PlanCollisionFree
  <2> QED BY <2>1, <2>3, <2>4
<1>3. CASE AllocateKey(c)
  <2>1. PICK k \in Keys, ip \in Addresses :
          /\ NextKey(c, k)
          /\ lease(cidr, call[c].lease, k, ip)
          /\ call' = [call EXCEPT ![c].lease[k] = ip, ![c].todo = @ \ {k}]
    BY <1>3 DEF AllocateKey
  <2> DEFINE f == call[c].lease
             g == [f EXCEPT ![k] = ip]
  <2>2. f \in LeaseTable /\ GoodTable(cidr, f) /\ cidr \in Cidrs
    BY <1>3 DEF AllocateKey, TypeOK, CallsGood, CallGood
  <2>3. GoodTable(cidr, g) /\ ip # NoIP
    BY <2>1, <2>2, LeaseGood
  <2>4. g \in LeaseTable
    BY <2>2 DEF LeaseTable
  <2>5. /\ call'[c].pc = "allocate"
        /\ call'[c].keys = call[c].keys
        /\ call'[c].lease = g
        /\ call'[c].todo = call[c].todo \ {k}
        /\ \A d \in Callers \ {c} : call'[d] = call[d]
    BY <1>3, <2>1 DEF AllocateKey, TypeOK
  <2>6. UNCHANGED <<config, disk, mode, cidr, inventory, storing, pending, plan>>
    BY <1>3 DEF AllocateKey
  <2>7. TypeOK'
    BY <2>1, <2>4, <2>6 DEF TypeOK
  <2>8. LifeCycle'
    BY <1>3, <2>5, <2>6 DEF AllocateKey, LifeCycle, Alive, TypeOK
  <2>9. CallsGood'
    <3> SUFFICES ASSUME NEW d \in Callers PROVE CallGood(d)'
      BY DEF CallsGood
    <3>1. CASE d = c
      <4>1. \A j \in call[c].keys \ call[c].todo : f[j] # NoIP
        BY <1>3 DEF AllocateKey, CallsGood, CallGood
      <4>2. \A j \in call'[c].keys \ call'[c].todo : g[j] # NoIP
        BY <2>2, <2>3, <2>5, <4>1 DEF LeaseTable, TypeOK
      <4>3. call[c].todo \subseteq call[c].keys
        BY DEF CallsGood, CallGood
      <4> HIDE DEF g
      <4> QED BY <2>3, <2>5, <2>6, <3>1, <4>2, <4>3 DEF CallGood, GoodTable
    <3>2. CASE d # c
      BY <2>5, <2>6, <3>2 DEF CallsGood, CallGood, GoodTable
    <3> QED BY <3>1, <3>2
  <2>10. StoreInPool' /\ PlanCollisionFree'
    BY <2>6 DEF StoreInPool, PlanCollisionFree
  <2> QED BY <2>7, <2>8, <2>9, <2>10
<1>4. CASE AllocateDone(c)
  <2>1. TypeOK' /\ LifeCycle'
    BY <1>4 DEF AllocateDone, TypeOK, LifeCycle, Alive
  <2>2. CallsGood'
    BY <1>4 DEF AllocateDone, CallsGood, CallGood, GoodTable, TypeOK
  <2>3. StoreInPool' /\ PlanCollisionFree'
    BY <1>4 DEF AllocateDone, StoreInPool, PlanCollisionFree
  <2> QED BY <2>1, <2>2, <2>3
<1>5. CASE Put(c)
  <2>1. PICK k \in Keys :
          /\ NextKey(c, k)
          /\ disk' = [disk EXCEPT !.leases[k] = call[c].lease[k]]
          /\ call' = [call EXCEPT ![c].todo = @ \ {k}]
    BY <1>5 DEF Put
  <2>2. UNCHANGED <<config, mode, cidr, inventory, storing, pending, plan>>
    BY <1>5 DEF Put
  <2>3. TypeOK'
    <3>1. disk'.leases = [disk.leases EXCEPT ![k] = call[c].lease[k]]
      BY <2>1 DEF TypeOK
    <3>2. disk'.leases \in LeaseTable
      BY <3>1 DEF TypeOK, LeaseTable
    <3>3. disk' \in [cidr : Cidrs \cup {NoCidr}, leases : LeaseTable]
      BY <2>1, <3>2 DEF TypeOK
    <3>4. call' \in [Callers -> [pc : {"idle", "read", "allocate", "put"},
                                keys : SUBSET Keys,
                                lease : LeaseTable,
                                todo : SUBSET Keys]]
      BY <2>1 DEF TypeOK
    <3> QED BY <2>2, <3>3, <3>4 DEF TypeOK
  <2>4. LifeCycle'
    BY <1>5, <2>1, <2>2 DEF Put, LifeCycle, Alive, TypeOK
  <2>5. CallsGood'
    BY <1>5, <2>1, <2>2 DEF Put, CallsGood, CallGood, GoodTable, TypeOK
  <2>6. StoreInPool'
    <3>1. call[c].lease[k] \in Leaseable(cidr)
      BY <1>5, <2>1 DEF Put, NextKey, CallsGood, CallGood, GoodTable
    <3>2. disk.cidr = cidr /\ cidr # NoCidr
      BY <1>5, NullAssumption DEF Put, LifeCycle, TypeOK
    <3> QED BY <2>1, <2>2, <3>1, <3>2 DEF StoreInPool, TypeOK, LeaseTable
  <2>7. PlanCollisionFree'
    BY <2>2 DEF PlanCollisionFree
  <2> QED BY <2>3, <2>4, <2>5, <2>6, <2>7
<1>6. CASE Return(c)
  <2>1. TypeOK'
    BY <1>6 DEF Return, Result, TypeOK, Idle, LeaseTable, NoLeases
  <2>2. LifeCycle'
    BY <1>6 DEF Return, LifeCycle, Alive, TypeOK, Idle
  <2>3. CallsGood'
    BY <1>6 DEF Return, CallsGood, CallGood, GoodTable, TypeOK, Idle
  <2>4. StoreInPool'
    BY <1>6 DEF Return, StoreInPool
  <2>5. PlanCollisionFree'
    <3>1. GoodTable(cidr, call[c].lease)
      BY <1>6 DEF Return, CallsGood, CallGood
    <3> QED BY <1>6, <3>1 DEF Return, Result, PlanCollisionFree, GoodTable, Injective
  <2> QED BY <2>1, <2>2, <2>3, <2>4, <2>5
<1>7. CASE ReadLeasesFails(c)
  BY <1>7, ReturnErrorAnyCallers DEF ReadLeasesFails
<1>8. CASE AllocateFails(c)
  BY <1>8, ReturnErrorAnyCallers DEF AllocateFails
<1>9. CASE PutFails(c)
  BY <1>9, ReturnErrorAnyCallers DEF PutFails
<1> QED
  BY <1>1, <1>2, <1>3, <1>4, <1>5, <1>6, <1>7, <1>8, <1>9 DEF EffectiveLeases

\* A step that changes nothing.
LEMMA StutterAnyCallers ==
  ASSUME AnyCallersInv, UNCHANGED vars
  PROVE  AnyCallersInv'
BY DEF vars, AnyCallersInv, TypeOK, LifeCycle, Alive, CallsGood, CallGood, GoodTable,
       StoreInPool, PlanCollisionFree

\* The invariant holds whoever calls EffectiveLeases, and however they interleave.
THEOREM AnyCallers == Spec => []AnyCallersInv
<1>1. AnyCallersInv /\ [Next]_vars => AnyCallersInv'
  <2> SUFFICES ASSUME AnyCallersInv, [Next]_vars PROVE AnyCallersInv'
    OBVIOUS
  <2> QED
    BY ProcessStepAnyCallers, CallStepAnyCallers, StutterAnyCallers DEF Next
<1> QED BY <1>1, InitAnyCallers, PTL DEF Spec

\* Types, for any number of callers.
THEOREM TypeCorrect == Spec => []TypeOK
<1>1. AnyCallersInv => TypeOK
  BY DEF AnyCallersInv
<1> QED BY <1>1, AnyCallers, PTL

\* Persisted leases stay in the pool of the recorded CIDR through crashes inside
\* Open and inside the write loop (store.go 37-75, supervisor.go 622-627).
THEOREM StoreStaysInPool == Spec => []StoreInPool
<1>1. AnyCallersInv => StoreInPool
  BY DEF AnyCallersInv
<1> QED BY <1>1, AnyCallers, PTL

\* The plan in effect is free of collisions, even when status handlers race with
\* the main loop (main.go 231 and 339).
THEOREM PlanStaysCollisionFree == Spec => []PlanCollisionFree
<1>1. AnyCallersInv => PlanCollisionFree
  BY DEF AnyCallersInv
<1> QED BY <1>1, AnyCallers, PTL

-----------------------------------------------------------------------------
\* The invariant that holds when calls of EffectiveLeases do not overlap.

\* No two goroutines are in EffectiveLeases at a time.
Serialized ==
  \A b, c \in Callers : call[b].pc # "idle" /\ call[c].pc # "idle" => b = c

\* The table in hand extends the database, and the rows passed are written.
CallExtendsStore(c) ==
  /\ call[c].pc \in {"allocate", "put"} =>
       \A k \in Keys : disk.leases[k] # NoIP => call[c].lease[k] = disk.leases[k]
  /\ call[c].pc = "put" =>
       \A k \in call[c].keys \ call[c].todo : disk.leases[k] = call[c].lease[k]

CallsExtendStore == \A c \in Callers : CallExtendsStore(c)

SerialInv ==
  /\ AnyCallersInv
  /\ CallsExtendStore
  /\ StoreCollisionFree
  /\ PlanIsPersisted

\* An action property as a formula on a step.
LeaseStays ==
  \A k \in Keys : disk.leases[k] \notin {NoIP, disk'.leases[k]} =>
    mode \in {"open", "deleted", "reopen"} /\ disk'.leases = NoLeases

\* A step of one call that does not write.
LEMMA OneCallMoves ==
  ASSUME SerialInv, NEW c \in Callers, disk' = disk, CallExtendsStore(c)',
         \A b \in Callers \ {c} : call'[b] = call[b], PlanIsPersisted'
  PROVE  CallsExtendStore' /\ StoreCollisionFree' /\ PlanIsPersisted' /\ LeaseStays
<1>1. ASSUME NEW b \in Callers \ {c} PROVE CallExtendsStore(b)'
  <2>1. CallExtendsStore(b) /\ call'[b] = call[b]
    BY DEF SerialInv, CallsExtendStore
  <2> QED BY <2>1 DEF CallExtendsStore
<1>2. CallsExtendStore'
  BY <1>1 DEF CallsExtendStore
<1> QED BY <1>2 DEF SerialInv, StoreCollisionFree, LeaseStays

\* A step of the call of c leaves the others where they are.
LEMMA OthersStay ==
  ASSUME TypeOK, NEW c \in Callers, EffectiveLeases(c)
  PROVE  \A b \in Callers \ {c} : call'[b] = call[b]
BY DEF EffectiveLeases, Begin, ReadLeases, ReadLeasesFails, AllocateKey, AllocateFails,
       AllocateDone, Put, PutFails, Return, ReturnError, TypeOK

\* Alone, a caller writes only rows that agree with what it read.
LEMMA CallStepSerial ==
  ASSUME SerialInv, Serialized, NEW c \in Callers, EffectiveLeases(c)
  PROVE  CallsExtendStore' /\ StoreCollisionFree' /\ PlanIsPersisted' /\ LeaseStays
<1>1. TypeOK /\ LifeCycle /\ CallsGood /\ CallExtendsStore(c)
  BY DEF SerialInv, AnyCallersInv, CallsExtendStore
<1>2. \A b \in Callers \ {c} : call'[b] = call[b]
  BY <1>1, OthersStay
<1>3. ASSUME plan' = plan, disk' = disk PROVE PlanIsPersisted'
  BY <1>3 DEF SerialInv, PlanIsPersisted
<1>4. CASE Begin(c) \/ ReadLeases(c) \/ AllocateDone(c)
  <2>1. plan' = plan /\ disk' = disk
    BY <1>4 DEF Begin, ReadLeases, AllocateDone
  <2>2. CASE Begin(c) \/ ReadLeases(c)
    <3>1. Begin(c) => call'[c].pc = "read"
      BY <1>1 DEF Begin, Idle, TypeOK
    <3>2. ReadLeases(c) => call'[c].pc = "allocate" /\ call'[c].lease = disk.leases
      BY <1>1 DEF ReadLeases, TypeOK
    <3>3. CallExtendsStore(c)'
      BY <2>1, <2>2, <3>1, <3>2 DEF CallExtendsStore
    <3> QED BY <1>2, <1>3, <2>1, <3>3, OneCallMoves
  <2>3. CASE AllocateDone(c)
    <3>1. CallExtendsStore(c)'
      BY <1>1, <2>3 DEF AllocateDone, TypeOK, CallExtendsStore
    <3> QED BY <1>2, <1>3, <2>1, <3>1, OneCallMoves
  <2> QED BY <1>4, <2>2, <2>3
<1>5. CASE AllocateKey(c)
  <2>1. PICK k \in Keys, ip \in Addresses :
          /\ lease(cidr, call[c].lease, k, ip)
          /\ call' = [call EXCEPT ![c].lease[k] = ip, ![c].todo = @ \ {k}]
    BY <1>5 DEF AllocateKey
  <2>2. call[c].lease \in LeaseTable /\ GoodTable(cidr, call[c].lease) /\ cidr \in Cidrs
    BY <1>1, <1>5 DEF AllocateKey, TypeOK, CallsGood, CallGood
  <2>3. call[c].lease[k] # NoIP => ip = call[c].lease[k]
    BY <2>1, <2>2, LeaseGood
  <2>4. call'[c].pc = "allocate" /\ call'[c].lease = [call[c].lease EXCEPT ![k] = ip]
    BY <1>1, <1>5, <2>1 DEF AllocateKey, TypeOK
  <2>5. plan' = plan /\ disk' = disk
    BY <1>5 DEF AllocateKey
  <2>6. CallExtendsStore(c)'
    BY <1>1, <1>5, <2>2, <2>3, <2>4, <2>5 DEF AllocateKey, CallExtendsStore, LeaseTable
  <2> QED BY <1>2, <1>3, <2>5, <2>6, OneCallMoves
<1>6. CASE Put(c)
  <2>1. PICK k \in Keys :
          /\ NextKey(c, k)
          /\ disk' = [disk EXCEPT !.leases[k] = call[c].lease[k]]
          /\ call' = [call EXCEPT ![c].todo = @ \ {k}]
    BY <1>6 DEF Put
  <2> DEFINE f == call[c].lease
  <2>2. f \in LeaseTable /\ Injective(f) /\ f[k] # NoIP
    BY <1>1, <1>6, <2>1 DEF Put, NextKey, TypeOK, CallsGood, CallGood, GoodTable
  <2>3. disk.leases \in LeaseTable /\ disk'.leases = [disk.leases EXCEPT ![k] = f[k]]
    BY <1>1, <2>1 DEF TypeOK
  <2>4. \A j \in Keys : disk.leases[j] # NoIP => f[j] = disk.leases[j]
    BY <1>1, <1>6 DEF Put, CallExtendsStore
  <2>5. \A j \in Keys : disk'.leases[j] # NoIP => f[j] = disk'.leases[j]
    BY <2>3, <2>4 DEF LeaseTable
  <2>6. /\ call'[c].lease = f
        /\ call'[c].keys = call[c].keys
        /\ call'[c].todo = call[c].todo \ {k}
        /\ plan' = plan
    BY <1>1, <1>6, <2>1 DEF Put, TypeOK
  <2>7. CallExtendsStore(c)'
    <3>1. \A j \in call[c].keys \ call[c].todo : disk.leases[j] = f[j]
      BY <1>1, <1>6 DEF Put, CallExtendsStore
    <3>2. \A j \in call'[c].keys \ call'[c].todo : disk'.leases[j] = f[j]
      BY <1>1, <2>3, <2>6, <3>1 DEF LeaseTable, TypeOK
    <3> QED BY <2>5, <2>6, <3>2 DEF CallExtendsStore
  <2>8. CallsExtendStore'
    <3>1. \A b \in Callers \ {c} : call'[b].pc = "idle"
      BY <1>2, <1>6 DEF Put, Serialized
    <3>2. \A b \in Callers \ {c} : CallExtendsStore(b)'
      BY <3>1 DEF CallExtendsStore
    <3> QED BY <2>7, <3>2 DEF CallsExtendStore
  <2>9. StoreCollisionFree'
    BY <2>2, <2>5 DEF StoreCollisionFree, Injective
  <2>10. PlanIsPersisted' /\ LeaseStays
    BY <2>2, <2>3, <2>4, <2>6 DEF SerialInv, PlanIsPersisted, LeaseStays, LeaseTable
  <2> QED BY <2>8, <2>9, <2>10
<1>7. CASE Return(c)
  <2>1. \A k \in call[c].keys : disk.leases[k] = call[c].lease[k]
    BY <1>1, <1>7 DEF Return, CallExtendsStore
  <2>2. /\ disk' = disk /\ call'[c].pc = "idle"
        /\ plan' = IF c = Main THEN Result(c) ELSE plan
    BY <1>1, <1>7 DEF Return, TypeOK, Idle
  <2>3. PlanIsPersisted'
    BY <1>3, <2>1, <2>2 DEF Result, PlanIsPersisted
  <2>4. CallExtendsStore(c)'
    BY <2>2 DEF CallExtendsStore
  <2> QED BY <1>2, <2>2, <2>3, <2>4, OneCallMoves
<1>8. CASE ReadLeasesFails(c) \/ AllocateFails(c) \/ PutFails(c)
  <2>1. ReturnError(c)
    BY <1>8 DEF ReadLeasesFails, AllocateFails, PutFails
  <2>2. disk' = disk /\ plan' = plan /\ call'[c].pc = "idle"
    BY <1>1, <2>1 DEF ReturnError, TypeOK, Idle
  <2>3. CallExtendsStore(c)'
    BY <2>2 DEF CallExtendsStore
  <2> QED BY <1>2, <1>3, <2>2, <2>3, OneCallMoves
<1> QED BY <1>4, <1>5, <1>6, <1>7, <1>8 DEF EffectiveLeases

\* Every step keeps the invariant and moves no lease.
LEMMA StepSerial ==
  ASSUME SerialInv, Serialized, [Next]_vars
  PROVE  SerialInv' /\ (LeaseStays \/ UNCHANGED vars)
<1>1. AnyCallersInv'
  BY ProcessStepAnyCallers, CallStepAnyCallers, StutterAnyCallers DEF Next, SerialInv
<1>2. TypeOK /\ LifeCycle
  BY DEF SerialInv, AnyCallersInv
<1> DEFINE Rest == CallsExtendStore /\ StoreCollisionFree /\ PlanIsPersisted
<1>3. ASSUME disk'.leases = disk.leases, UNCHANGED <<plan, call>> PROVE Rest' /\ LeaseStays
  BY <1>3 DEF SerialInv, CallsExtendStore, CallExtendsStore, StoreCollisionFree,
     PlanIsPersisted, LeaseStays
<1>4. ASSUME \/ ChangeCidr \/ OpenFail \/ StartDaemon \/ UNCHANGED vars
             \/ \E w \in Writers : InventoryChanges(w) \/ Notify(w)
      PROVE  Rest' /\ LeaseStays
  BY <1>3, <1>4 DEF ChangeCidr, InventoryChanges, Notify, OpenFail, StartDaemon, vars
<1>5. ASSUME OpenStamp PROVE Rest' /\ LeaseStays
  <2>1. disk'.leases = disk.leases
    BY <1>2, <1>5 DEF OpenStamp, TypeOK
  <2> QED BY <1>3, <1>5, <2>1 DEF OpenStamp
<1>6. ASSUME OpenDelete \/ OpenRecover PROVE Rest' /\ LeaseStays
  <2> SUFFICES ASSUME disk'.leases = NoLeases PROVE Rest' /\ LeaseStays
    BY <1>2, <1>3, <1>6 DEF OpenDelete, OpenRecover, EmptyDisk, TypeOK
  <2>1. disk'.leases = NoLeases /\ mode \in {"open", "deleted", "reopen"}
    BY <1>6 DEF OpenDelete, OpenRecover
  <2>2. plan' = NoLeases /\ \A c \in Callers : call'[c].pc = "idle"
    BY <1>2, <1>6 DEF OpenDelete, OpenRecover, LifeCycle, Alive, TypeOK
  <2>3. CallsExtendStore' /\ PlanIsPersisted' /\ LeaseStays
    BY <2>1, <2>2 DEF CallsExtendStore, CallExtendsStore, PlanIsPersisted, LeaseStays,
       NoLeases
  <2>4. StoreCollisionFree'
    BY <2>1 DEF StoreCollisionFree, Injective, NoLeases
  <2> QED BY <2>3, <2>4
<1>7. ASSUME Crash PROVE Rest' /\ LeaseStays
  <2>1. /\ disk' = disk /\ plan' = NoLeases
        /\ \A c \in Callers : call'[c].pc = "idle"
    BY <1>7 DEF Crash, Idle
  <2>2. CallsExtendStore' /\ PlanIsPersisted' /\ LeaseStays
    BY <2>1 DEF CallsExtendStore, CallExtendsStore, PlanIsPersisted, LeaseStays, NoLeases
  <2> QED BY <2>1, <2>2 DEF SerialInv, StoreCollisionFree
<1>8. ASSUME NEW c \in Callers, EffectiveLeases(c) PROVE Rest' /\ LeaseStays
  BY <1>8, CallStepSerial
<1>9. Rest' /\ LeaseStays
  <2> HIDE DEF Rest
  <2> QED BY <1>4, <1>5, <1>6, <1>7, <1>8 DEF Next
<1> QED BY <1>1, <1>9 DEF SerialInv

\* Calls that do not overlap keep the invariant.
THEOREM SerialCalls == Spec /\ []Serialized => []SerialInv
<1>1. Init => SerialInv
  <2> SUFFICES ASSUME Init PROVE SerialInv
    OBVIOUS
  <2>1. AnyCallersInv
    BY InitAnyCallers
  <2>2. CallsExtendStore /\ StoreCollisionFree /\ PlanIsPersisted
    BY DEF Init, EmptyDisk, Idle, NoLeases, CallsExtendStore, CallExtendsStore,
       StoreCollisionFree, PlanIsPersisted, Injective
  <2> QED BY <2>1, <2>2 DEF SerialInv
<1>2. SerialInv /\ Serialized /\ [Next]_vars => SerialInv'
  BY StepSerial
<1> QED BY <1>1, <1>2, PTL DEF Spec

\* While calls do not overlap, the database never holds one address twice
\* (allocator.go 32-45 would refuse it on the next start).
THEOREM StoreStaysCollisionFree == Spec /\ []Serialized => []StoreCollisionFree
<1>1. SerialInv => StoreCollisionFree
  BY DEF SerialInv
<1> QED BY <1>1, SerialCalls, PTL

\* While calls do not overlap, a restart gives every target the address now in
\* effect, whichever goroutine wrote it.
THEOREM PlanStaysPersisted == Spec /\ []Serialized => []PlanIsPersisted
<1>1. SerialInv => PlanIsPersisted
  BY DEF SerialInv
<1> QED BY <1>1, SerialCalls, PTL

\* While calls do not overlap, a lease moves only when Open drops every lease.
THEOREM LeasesNeverMove == Spec /\ []Serialized => LeaseNeverMoves
<1>1. SerialInv /\ Serialized /\ [Next]_vars => [LeaseStays]_vars
  BY StepSerial
<1>2. Spec /\ []Serialized => [][LeaseStays]_vars
  BY <1>1, SerialCalls, PTL DEF Spec
<1> QED BY <1>2 DEF LeaseNeverMoves, LeaseStays

-----------------------------------------------------------------------------
\* No target is left without a lease while the pool has room.

\* No statement on the database and no start of a profile fails.
NoFaults == ~DbFaults /\ ~StartFaults /\ IsFiniteSet(Keys)

\* x % m for an x that has passed m at most once.
LEMMA ModWrap ==
  ASSUME NEW x \in Nat, NEW m \in Nat, m > 0, x < 2 * m
  PROVE  x % m = IF x < m THEN x ELSE x - m
<1>1. CASE x < m
  BY <1>1
<1>2. CASE x >= m
  <2>1. x - m \in Nat /\ x - m < m
    BY <1>2
  <2>2. (x - m) % m = x - m
    BY <2>1
  <2>3. x % m = (x - m) % m
    BY <2>1
  <2> QED BY <1>2, <2>2, <2>3
<1> QED BY <1>1, <1>2

\* lease tries every leaseable address once before it gives up.
LEMMA ProbesDistinct ==
  ASSUME NEW c \in Cidrs, total(c) > 3, NEW k \in Keys,
         NEW i \in 0 .. (total(c) - 4), NEW j \in 0 .. (total(c) - 4),
         Probe(c, k, i) = Probe(c, k, j)
  PROVE  i = j
<1> DEFINE m == total(c) - 3
           slot == Hash[k] % m
<1>1. m \in Nat /\ m > 0 /\ c.base \in Nat /\ Hash[k] \in Nat
  BY TotalType, CidrsAssumption, HashAssumption, AddressSpaceAssumption
<1>2. slot \in Nat /\ slot < m
  BY <1>1, ModRange
<1>3. i \in Nat /\ j \in Nat /\ i < m /\ j < m
  BY TotalType
<1>4. /\ Probe(c, k, i) = c.base + 3 + ((slot + i) % m)
      /\ Probe(c, k, j) = c.base + 3 + ((slot + j) % m)
  BY DEF Probe
<1> HIDE DEF m, slot
<1> DEFINE x == slot + i
           y == slot + j
<1>5. /\ x \in Nat /\ x < 2 * m /\ y \in Nat /\ y < 2 * m
      /\ x - y = i - j /\ x >= slot /\ y >= slot
      /\ x < slot + m /\ y < slot + m
  BY <1>1, <1>2, <1>3
<1>6. c.base + 3 + (x % m) = c.base + 3 + (y % m)
  BY <1>4
<1> HIDE DEF x, y
<1>7. /\ x % m = IF x < m THEN x ELSE x - m
      /\ y % m = IF y < m THEN y ELSE y - m
  BY <1>1, <1>5, ModWrap
<1> DEFINE p == x % m
           q == y % m
<1>8. p \in Int /\ q \in Int
  BY <1>1, <1>5, <1>7
<1>9. p = q
  <2> HIDE DEF p, q
  <2>1. c.base + 3 + p = c.base + 3 + q
    BY <1>6 DEF p, q
  <2> QED BY <1>1, <1>8, <2>1
<1>10. x = y
  BY <1>1, <1>2, <1>5, <1>7, <1>9
<1> QED BY <1>3, <1>5, <1>10

\* The keys that hold an address in table f.
Holders(f) == {j \in Keys : f[j] # NoIP}

\* lease gives up only when the keys that hold an address and this one are more than
\* the leaseable addresses: every probe is used, so each belongs to another key.
LEMMA ExhaustedFull ==
  ASSUME IsFiniteSet(Keys), NEW c \in Cidrs, NEW f \in LeaseTable, NEW k \in Keys,
         Exhausted(c, f, k), NEW T \in SUBSET Keys, Holders(f) \cup {k} \subseteq T
  PROVE  Cardinality(T) > Cardinality(Leaseable(c))
<1> DEFINE n == total(c) - 4
           Others == Holders(f)
           owner == [i \in 0 .. n |-> CHOOSE j \in Others : f[j] = Probe(c, k, i)]
<1>1. IsFiniteSet(T) /\ IsFiniteSet(Others) /\ k \notin Others
  BY FS_Subset DEF Holders, Exhausted
<1>2. Cardinality(T) \in Nat /\ Cardinality(Others) \in Nat /\ total(c) \in Nat
  BY <1>1, FS_CardinalityType, TotalType
<1>3. Cardinality(Others) + 1 <= Cardinality(T)
  <2> HIDE DEF Others
  <2>1. /\ IsFiniteSet(Others \cup {k})
        /\ Cardinality(Others \cup {k}) = Cardinality(Others) + 1
    BY <1>1, FS_AddElement
  <2>2. Others \cup {k} \subseteq T
    BY DEF Others
  <2>3. Cardinality(Others \cup {k}) <= Cardinality(T)
    BY <1>1, <2>2, FS_Subset
  <2> QED BY <2>1, <2>3
<1>4. CASE total(c) <= 3
  <2>1. Cardinality(Leaseable(c)) = 0
    BY <1>4, FS_EmptySet DEF Leaseable
  <2> HIDE DEF Others
  <2> QED BY <1>2, <1>3, <2>1
<1>5. CASE total(c) > 3
  <2>1. n \in Nat
    BY <1>2, <1>5
  <2>2. IsFiniteSet(0 .. n) /\ Cardinality(0 .. n) = n + 1
    <3> HIDE DEF n
    <3> QED BY <2>1, FS_Interval
  <2>3. Cardinality(Leaseable(c)) = n + 1
    <3>1. c.base + 3 \in Int /\ c.base + total(c) - 1 \in Int
      BY <1>2, CidrsAssumption
    <3>2. Leaseable(c) = (c.base + 3) .. (c.base + total(c) - 1)
      BY <1>5, <1>2 DEF Leaseable
    <3> DEFINE lo == c.base + 3
               hi == c.base + total(c) - 1
    <3>3. lo \in Int /\ hi \in Int /\ lo <= hi /\ hi - lo + 1 = n + 1
      BY <1>2, <1>5, CidrsAssumption
    <3> HIDE DEF lo, hi, n
    <3>4. Cardinality(lo .. hi) = hi - lo + 1
      BY <3>3, FS_Interval
    <3> QED BY <3>2, <3>3, <3>4 DEF lo, hi
  <2>4. \A i \in 0 .. n : \E j \in Others : f[j] = Probe(c, k, i)
    <3> SUFFICES ASSUME NEW i \in 0 .. n PROVE \E j \in Others : f[j] = Probe(c, k, i)
      OBVIOUS
    <3>1. PICK j \in Keys : f[j] = Probe(c, k, i)
      BY <1>2, <1>5 DEF Exhausted, Used
    <3>2. Probe(c, k, i) # NoIP
      BY <1>5, <2>1, ProbeLeaseable, LeaseableReservable, NullAssumption,
         AddressSpaceAssumption DEF Addresses
    <3> QED BY <3>1, <3>2 DEF Holders
  <2>5. /\ owner \in [0 .. n -> Others]
        /\ \A i \in 0 .. n : f[owner[i]] = Probe(c, k, i)
    BY <2>4
  <2>6. ASSUME NEW i \in 0 .. n, NEW j \in 0 .. n, owner[i] = owner[j] PROVE i = j
    <3>1. Probe(c, k, i) = Probe(c, k, j)
      BY <2>5, <2>6
    <3> QED BY <1>5, <3>1, ProbesDistinct
  <2>7. ~(Cardinality(Others) < Cardinality(0 .. n))
    <3> DEFINE Slots == 0 .. n
    <3>1. /\ IsFiniteSet(Slots) /\ owner \in [Slots -> Others]
          /\ ~\E x, y \in Slots : x # y /\ owner[x] = owner[y]
      BY <2>2, <2>5, <2>6
    <3> HIDE DEF Others, owner, Slots
    <3>2. ~(Cardinality(Others) < Cardinality(Slots))
      BY <1>1, <3>1, FS_PigeonHole
    <3> QED BY <3>2 DEF Slots
  <2> HIDE DEF n, Others
  <2> QED BY <1>2, <1>3, <2>1, <2>2, <2>3, <2>7
<1> QED BY <1>2, <1>4, <1>5

\* Until the next notification a call works on the inventory as it is, and it has
\* addresses only for the keys it serves and for those with a row.
OperatingInv ==
  /\ SerialInv
  /\ call[Main].pc # "idle" /\ ~pending /\ storing = {} => call[Main].keys = inventory
  /\ call[Main].pc \in {"allocate", "put"} =>
       \A k \in Keys : call[Main].lease[k] # NoIP =>
         disk.leases[k] # NoIP \/ k \in call[Main].keys
  /\ FullyOperating

\* More rows do not make room.
LEMMA NoRoomStays ==
  ASSUME IsFiniteSet(Keys), TypeOK, TypeOK', NoRoom, UNCHANGED <<inventory, cidr>>,
         Holders(disk.leases) \subseteq Holders(disk'.leases)
  PROVE  NoRoom'
<1> DEFINE T == Holders(disk.leases) \cup inventory
           U == Holders(disk'.leases) \cup inventory
           room == Cardinality(Leaseable(cidr))
<1>1. T \subseteq U /\ U \subseteq Keys
  BY DEF TypeOK, Holders
<1>2. IsFiniteSet(U) /\ IsFiniteSet(T)
  BY <1>1, FS_Subset
<1>3. Cardinality(T) <= Cardinality(U) /\ Cardinality(U) \in Nat /\ Cardinality(T) \in Nat
  <2> HIDE DEF T, U
  <2> QED BY <1>1, <1>2, FS_Subset, FS_CardinalityType
<1>4. Cardinality(T) > room
  BY DEF NoRoom, Holders
<1>5. room \in Nat
  <2>1. cidr \in Cidrs /\ total(cidr) \in Nat /\ cidr.base \in Nat
    BY TotalType, CidrsAssumption DEF TypeOK
  <2>2. IsFiniteSet(Leaseable(cidr))
    <3>1. CASE total(cidr) <= 3
      BY <3>1, FS_EmptySet DEF Leaseable
    <3>2. CASE ~(total(cidr) <= 3)
      <4>1. cidr.base + 3 \in Int /\ cidr.base + total(cidr) - 1 \in Int
        BY <2>1
      <4> QED BY <3>2, <4>1, FS_Interval DEF Leaseable
    <3> QED BY <3>1, <3>2
  <2> QED BY <2>2, FS_CardinalityType
<1>6. Cardinality(U) > room
  <2> HIDE DEF T, U, room
  <2> QED BY <1>3, <1>4, <1>5
<1>7. (Cardinality({k \in Keys : disk.leases[k] # NoIP} \cup inventory))' = Cardinality(U)
  BY DEF Holders
<1>8. Cardinality(Leaseable(cidr))' = room
  OBVIOUS
<1> QED BY <1>6, <1>7, <1>8 DEF NoRoom

\* A call of the main loop fails only for want of room.
LEMMA CallsSucceed ==
  ASSUME NoFaults, OperatingInv, ~pending, storing = {},
         ReadLeasesFails(Main) \/ AllocateFails(Main) \/ PutFails(Main)
  PROVE  NoRoom
<1>1. TypeOK /\ LifeCycle /\ CallsGood /\ StoreInPool /\ StoreCollisionFree /\ Main \in Callers
  BY CallersAssumption DEF OperatingInv, SerialInv, AnyCallersInv
<1>2. ~ReadLeasesFails(Main)
  <2> SUFFICES ASSUME call[Main].pc = "read" PROVE ReserveAll(cidr, disk.leases)
    BY DEF ReadLeasesFails, NoFaults
  <2>1. disk.cidr = cidr /\ cidr \in Cidrs
    BY <1>1 DEF LifeCycle, TypeOK
  <2>2. \A k \in Keys : disk.leases[k] # NoIP => disk.leases[k] \in Reservable(cidr)
    BY <1>1, <2>1, LeaseableReservable DEF StoreInPool
  <2> QED BY <1>1, <2>2 DEF ReserveAll, StoreCollisionFree
<1>3. ~PutFails(Main)
  BY DEF PutFails, NoFaults
<1>4. AllocateFails(Main)
  BY <1>2, <1>3
<1>5. PICK k \in Keys : NextKey(Main, k) /\ Exhausted(cidr, call[Main].lease, k)
  BY <1>4 DEF AllocateFails
<1> DEFINE f == call[Main].lease
           T == Holders(disk.leases) \cup inventory
<1>6. /\ call[Main].pc = "allocate" /\ call[Main].keys = inventory
      /\ k \in inventory
      /\ \A j \in Keys : f[j] # NoIP => disk.leases[j] # NoIP \/ j \in inventory
  BY <1>1, <1>4, <1>5 DEF AllocateFails, OperatingInv, NextKey, CallsGood, CallGood
<1>7. T \in SUBSET Keys /\ Holders(f) \cup {k} \subseteq T
  BY <1>1, <1>6 DEF Holders, TypeOK
<1>8. cidr \in Cidrs /\ f \in LeaseTable
  BY <1>1 DEF TypeOK
<1>9. Cardinality(T) > Cardinality(Leaseable(cidr))
  <2> HIDE DEF f, T
  <2>1. Exhausted(cidr, f, k)
    BY <1>5 DEF f
  <2> QED BY <1>7, <1>8, <2>1, ExhaustedFull DEF NoFaults
<1> QED BY <1>9 DEF NoRoom, Holders

\* Each step keeps the call on the inventory, or leaves a notification on its way.
LEMMA StepOperating ==
  ASSUME NoFaults, OperatingInv, Serialized, [Next]_vars
  PROVE  OperatingInv'
<1>1. SerialInv /\ SerialInv'
  BY StepSerial DEF OperatingInv
<1>2. TypeOK /\ TypeOK' /\ LifeCycle /\ CallsGood /\ Main \in Callers
  BY <1>1, CallersAssumption DEF SerialInv, AnyCallersInv
<1>3. ASSUME mode' # "up", call'[Main].pc = "idle" PROVE OperatingInv'
  BY <1>1, <1>3 DEF OperatingInv, FullyOperating
<1>4. CASE ChangeCidr \/ UNCHANGED vars
  BY <1>1, <1>4 DEF ChangeCidr, vars, OperatingInv, FullyOperating, InEffect, NoRoom
<1>5. CASE StartDaemon \/ OpenDelete \/ OpenStamp \/ OpenRecover \/ OpenFail
  BY <1>2, <1>3, <1>5 DEF StartDaemon, OpenDelete, OpenStamp, OpenRecover, OpenFail,
     LifeCycle, Alive
<1>6. CASE Crash
  BY <1>2, <1>3, <1>6 DEF Crash, Idle
<1>7. ASSUME NEW w \in Writers, InventoryChanges(w) PROVE OperatingInv'
  <2>1. storing' # {} /\ UNCHANGED <<disk, call>>
    BY <1>7 DEF InventoryChanges
  <2> QED BY <1>1, <2>1 DEF OperatingInv, FullyOperating
<1>8. ASSUME NEW w \in Writers, Notify(w) PROVE OperatingInv'
  <2>1. pending' = TRUE /\ UNCHANGED <<disk, call>>
    BY <1>8 DEF Notify, NoFaults
  <2> QED BY <1>1, <2>1 DEF OperatingInv, FullyOperating
<1>9. CASE Begin(Main)
  BY <1>1, <1>2, <1>9 DEF Begin, Idle, TypeOK, OperatingInv, FullyOperating
<1>10. CASE ReadLeases(Main)
  BY <1>1, <1>2, <1>10 DEF ReadLeases, TypeOK, OperatingInv, FullyOperating
<1>11. CASE AllocateKey(Main)
  <2>1. PICK k \in Keys, ip \in Addresses :
          /\ NextKey(Main, k)
          /\ call' = [call EXCEPT ![Main].lease[k] = ip, ![Main].todo = @ \ {k}]
    BY <1>11 DEF AllocateKey
  <2>2. k \in call[Main].keys /\ call[Main].pc = "allocate"
    BY <1>2, <1>11, <2>1 DEF AllocateKey, NextKey, CallsGood, CallGood
  <2>3. /\ call'[Main].pc = "allocate" /\ call'[Main].keys = call[Main].keys
        /\ \A j \in Keys \ {k} : call'[Main].lease[j] = call[Main].lease[j]
        /\ UNCHANGED <<disk, pending, storing, inventory>>
    BY <1>2, <1>11, <2>1, <2>2 DEF AllocateKey, TypeOK, LeaseTable
  <2> QED BY <1>1, <2>2, <2>3 DEF OperatingInv, FullyOperating
<1>12. CASE AllocateDone(Main)
  BY <1>1, <1>2, <1>12 DEF AllocateDone, TypeOK, OperatingInv, FullyOperating
<1>13. CASE Put(Main)
  <2>1. PICK k \in Keys :
          /\ disk' = [disk EXCEPT !.leases[k] = call[Main].lease[k]]
          /\ call' = [call EXCEPT ![Main].todo = @ \ {k}] /\ NextKey(Main, k)
    BY <1>13 DEF Put
  <2>2. /\ call'[Main].pc = "put" /\ call'[Main].keys = call[Main].keys
        /\ call'[Main].lease = call[Main].lease /\ UNCHANGED <<pending, storing, inventory>>
        /\ call[Main].pc = "put" /\ k \in call[Main].keys
    BY <1>2, <1>13, <2>1 DEF Put, TypeOK, NextKey, CallsGood, CallGood
  <2>3. \A j \in Keys \ {k} : disk'.leases[j] = disk.leases[j]
    BY <1>2, <2>1 DEF TypeOK, LeaseTable
  <2> QED BY <1>1, <2>2, <2>3 DEF OperatingInv, FullyOperating
<1>14. CASE Return(Main)
  <2>1. \A k \in call[Main].keys : call[Main].lease[k] # NoIP
    BY <1>2, <1>14 DEF Return, CallsGood, CallGood
  <2>2. /\ plan' = Result(Main)
        /\ call'[Main].pc = "idle"
        /\ UNCHANGED <<pending, storing, inventory>>
    BY <1>2, <1>14 DEF Return, TypeOK, Idle
  <2>3. ~pending /\ storing = {} => call[Main].keys = inventory
    BY <1>14 DEF Return, OperatingInv
  <2>4. ~pending /\ storing = {} => InEffect(inventory)'
    BY <2>1, <2>2, <2>3 DEF Result, InEffect
  <2> QED BY <1>1, <2>2, <2>4 DEF OperatingInv, FullyOperating
<1>15. CASE ReadLeasesFails(Main) \/ AllocateFails(Main) \/ PutFails(Main)
  <2>1. ReturnError(Main)
    BY <1>15 DEF ReadLeasesFails, AllocateFails, PutFails
  <2>2. call'[Main].pc = "idle" /\ UNCHANGED <<disk, cidr>>
    BY <1>2, <2>1 DEF ReturnError, Idle, TypeOK
  <2>3. mode' = "up" => UNCHANGED <<inventory, storing, pending>>
    BY <1>2, <2>1 DEF ReturnError, TypeOK
  <2>4. ASSUME mode' = "up", ~pending', storing' = {} PROVE NoRoom'
    <3>1. NoRoom
      BY <1>15, <2>3, <2>4, CallsSucceed
    <3> QED BY <2>2, <2>3, <2>4, <3>1 DEF NoRoom
  <2> QED BY <1>1, <2>2, <2>4 DEF OperatingInv, FullyOperating
<1>16. ASSUME NEW c \in Callers \ {Main}, EffectiveLeases(c) PROVE OperatingInv'
  <2>1. call'[Main] = call[Main]
    BY <1>2, <1>16, OthersStay
  <2>2. call[c].pc # "idle" => mode # "starting" /\ mode # "failed"
    BY <1>2 DEF LifeCycle, Alive
  <2>3. UNCHANGED <<mode, inventory, storing, plan, cidr>> /\ pending' = pending
    BY <1>2, <1>16, <2>2 DEF EffectiveLeases, Begin, ReadLeases, ReadLeasesFails, AllocateKey,
       AllocateFails, AllocateDone, Put, PutFails, Return, ReturnError, TypeOK
  <2>4. \A k \in Keys : disk.leases[k] # NoIP => disk'.leases[k] # NoIP
    <3>1. CASE Put(c)
      <4>1. PICK k \in Keys :
              /\ disk' = [disk EXCEPT !.leases[k] = call[c].lease[k]] /\ NextKey(c, k)
        BY <3>1 DEF Put
      <4>2. call[c].lease[k] # NoIP
        BY <1>2, <3>1, <4>1 DEF Put, NextKey, CallsGood, CallGood
      <4> QED BY <1>2, <4>1, <4>2 DEF TypeOK, LeaseTable
    <3>2. CASE ~Put(c)
      <4>1. disk' = disk
        BY <1>16, <3>2 DEF EffectiveLeases, Begin, ReadLeases, ReadLeasesFails, AllocateKey,
           AllocateFails, AllocateDone, PutFails, Return, ReturnError
      <4> QED BY <4>1
    <3> QED BY <3>1, <3>2
  <2>5. NoRoom => NoRoom'
    BY <1>2, <2>3, <2>4, NoRoomStays DEF NoFaults, Holders
  <2>6. FullyOperating'
    BY <2>1, <2>3, <2>5 DEF OperatingInv, FullyOperating, InEffect
  <2> QED BY <1>1, <2>1, <2>3, <2>4, <2>6 DEF OperatingInv
<1>17. EffectiveLeases(Main) => OperatingInv'
  BY <1>9, <1>10, <1>11, <1>12, <1>13, <1>14, <1>15 DEF EffectiveLeases
<1> QED
  BY <1>4, <1>5, <1>6, <1>7, <1>8, <1>16, <1>17 DEF Next

\* While calls do not overlap, on a database that works, the main loop never waits with
\* a target of the inventory unserved, or a lease in effect for a target that is gone,
\* unless the inventory and the rows need more addresses than the pool has: the probe
\* sequence (allocator.go) covers the pool, a stored table is always accepted back, and
\* a change notified during a call is not lost.
THEOREM OperatesFully ==
  NoFaults /\ Spec /\ []Serialized => []FullyOperating
<1> SUFFICES ASSUME NoFaults PROVE Spec /\ []Serialized => []FullyOperating
  OBVIOUS
<1>1. SerialInv /\ Init => OperatingInv
  BY CallersAssumption DEF SerialInv, Init, Idle, OperatingInv, FullyOperating
<1>2. OperatingInv /\ Serialized /\ [Next]_vars => OperatingInv'
  BY StepOperating
<1>3. OperatingInv => FullyOperating
  BY DEF OperatingInv
<1> QED BY <1>1, <1>2, <1>3, SerialCalls, PTL DEF Spec

-----------------------------------------------------------------------------
\* The refinement of LeaseMap: initial states map to initial states, and every
\* step to a step of LeaseMap or to a stutter.

\* A step that touches neither the rows nor the plan is a stutter of LeaseMap.
LEMMA OffTheMap ==
  ASSUME disk'.leases = disk.leases, plan' = plan
  PROVE  [LM!Next]_<<disk.leases, plan>>
OBVIOUS

\* store.Put rewrites a row as it was, or grants a key an address no row holds.
LEMMA PutGrants ==
  ASSUME SerialInv, NEW c \in Callers, Put(c)
  PROVE  [LM!Next]_<<disk.leases, plan>>
<1>1. TypeOK /\ CallsGood /\ CallExtendsStore(c)
  BY DEF SerialInv, AnyCallersInv, CallsExtendStore
<1>2. PICK k \in Keys :
        /\ NextKey(c, k)
        /\ disk' = [disk EXCEPT !.leases[k] = call[c].lease[k]]
  BY DEF Put
<1> DEFINE f == call[c].lease
<1>3. f \in LeaseTable /\ Injective(f) /\ f[k] # NoIP
  BY <1>1, <1>2
     DEF Put, NextKey, TypeOK, CallsGood, CallGood, GoodTable
<1>4. disk.leases \in LeaseTable /\ disk'.leases = [disk.leases EXCEPT ![k] = f[k]]
  BY <1>1, <1>2 DEF TypeOK
<1>5. \A j \in Keys : disk.leases[j] # NoIP => f[j] = disk.leases[j]
  BY <1>1 DEF Put, CallExtendsStore
<1>6. plan' = plan
  BY DEF Put
<1>7. CASE disk.leases[k] # NoIP
  <2>1. disk'.leases = disk.leases
    BY <1>4, <1>5, <1>7 DEF LeaseTable
  <2> QED BY <1>6, <2>1, OffTheMap
<1>8. CASE disk.leases[k] = NoIP
  <2>1. f[k] \in Addresses
    BY <1>3 DEF LeaseTable
  <2>2. \A j \in Keys : disk.leases[j] # f[k]
    BY <1>3, <1>5, <1>8 DEF Injective
  <2>3. LM!Grant
    BY <1>4, <1>6, <1>8, <2>1, <2>2 DEF LM!Grant
  <2> QED BY <2>3 DEF LM!Next
<1> QED BY <1>7, <1>8

\* When EffectiveLeases returns, every row of its result is written.
LEMMA ReturnPublishes ==
  ASSUME SerialInv, Return(Main)
  PROVE  [LM!Next]_<<disk.leases, plan>>
<1>1. TypeOK /\ CallsGood /\ CallExtendsStore(Main)
  BY CallersAssumption DEF SerialInv, AnyCallersInv, CallsExtendStore
<1>2. call[Main].keys \in SUBSET Keys
  BY <1>1, CallersAssumption DEF TypeOK
<1>3. \A k \in call[Main].keys : disk.leases[k] = call[Main].lease[k]
  BY <1>1 DEF Return, CallExtendsStore
<1>4. \A k \in call[Main].keys : disk.leases[k] # NoIP
  BY <1>1, <1>3, CallersAssumption DEF Return, CallsGood, CallGood
<1>5. plan' = [k \in Keys |-> IF k \in call[Main].keys THEN disk.leases[k] ELSE NoIP]
  BY <1>2, <1>3 DEF Return, Result
<1>6. disk'.leases = disk.leases
  BY DEF Return
<1>7. LM!Publish
  BY <1>2, <1>4, <1>5, <1>6 DEF LM!Publish
<1> QED BY <1>7 DEF LM!Next

\* Every step of the program is a step of the lease map or a stutter.
LEMMA StepRefines ==
  ASSUME SerialInv, [Next]_vars
  PROVE  [LM!Next]_<<disk.leases, plan>>
<1>1. TypeOK /\ LifeCycle
  BY DEF SerialInv, AnyCallersInv
<1>2. CASE \/ ChangeCidr \/ OpenFail \/ StartDaemon \/ UNCHANGED vars
           \/ \E w \in Writers : InventoryChanges(w) \/ Notify(w)
  <2>1. disk'.leases = disk.leases /\ plan' = plan
    BY <1>2 DEF ChangeCidr, InventoryChanges, Notify, OpenFail, StartDaemon, vars
  <2> QED BY <2>1, OffTheMap
<1>3. CASE OpenStamp
  <2>1. disk'.leases = disk.leases /\ plan' = plan
    BY <1>1, <1>3 DEF OpenStamp, TypeOK
  <2> QED BY <2>1, OffTheMap
<1>4. CASE OpenDelete \/ OpenRecover
  <2>1. disk'.leases = LM!Nothing \/ disk'.leases = disk.leases
    BY <1>1, <1>4 DEF OpenDelete, OpenRecover, EmptyDisk, TypeOK, NoLeases, LM!Nothing
  <2>2. plan' = plan
    BY <1>4 DEF OpenDelete, OpenRecover
  <2>3. plan = LM!Nothing
    BY <1>1, <1>4 DEF OpenDelete, OpenRecover, LifeCycle, NoLeases, LM!Nothing
  <2>4. LM!Reset \/ disk'.leases = disk.leases
    BY <2>1, <2>2, <2>3 DEF LM!Reset
  <2> QED BY <2>2, <2>4, OffTheMap DEF LM!Next
<1>5. CASE Crash
  <2>1. LM!Withdraw
    BY <1>5 DEF Crash, NoLeases, LM!Withdraw, LM!Nothing
  <2> QED BY <2>1 DEF LM!Next
<1>6. ASSUME NEW c \in Callers, EffectiveLeases(c) PROVE [LM!Next]_<<disk.leases, plan>>
  <2>1. CASE Begin(c) \/ ReadLeases(c) \/ AllocateKey(c) \/ AllocateDone(c)
    <3>1. disk'.leases = disk.leases /\ plan' = plan
      BY <2>1 DEF Begin, ReadLeases, AllocateKey, AllocateDone
    <3> QED BY <3>1, OffTheMap
  <2>2. CASE ReadLeasesFails(c) \/ AllocateFails(c) \/ PutFails(c)
    <3>1. disk'.leases = disk.leases /\ plan' = plan
      BY <2>2 DEF ReadLeasesFails, AllocateFails, PutFails, ReturnError
    <3> QED BY <3>1, OffTheMap
  <2>3. CASE Return(c) /\ c # Main
    <3>1. disk'.leases = disk.leases /\ plan' = plan
      BY <2>3 DEF Return
    <3> QED BY <3>1, OffTheMap
  <2> QED BY <1>6, <2>1, <2>2, <2>3, PutGrants, ReturnPublishes DEF EffectiveLeases
<1> QED BY <1>1, <1>2, <1>3, <1>4, <1>5, <1>6 DEF Next

\* While calls do not overlap, the lease service is a lease table: granting is for
\* good, addresses are never shared, only written rows are put to use, and the table is
\* emptied only while nothing is in use (supervisor.go 597-630, store.go 37-75).
THEOREM ImplementsMap == Spec /\ []Serialized => ImplementsLeaseMap
<1>1. Init => LM!Init
  BY DEF Init, EmptyDisk, NoLeases, LM!Init, LM!Nothing
<1>2. SerialInv /\ [Next]_vars => [LM!Next]_<<disk.leases, plan>>
  BY StepRefines
<1>3. Spec /\ []Serialized => LM!Init /\ [][LM!Next]_<<disk.leases, plan>>
  BY <1>1, <1>2, SerialCalls, PTL DEF Spec
<1> QED BY <1>3 DEF ImplementsLeaseMap, LM!Spec
===============================================================================
