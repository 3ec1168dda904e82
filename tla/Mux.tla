--------------------------------- MODULE Mux ----------------------------------
(***************************************************************************)
(* The packet mux, internal/mux: one goroutine reads the host TUN, one     *)
(* reads each profile's TUN, and the daemon's main loop replaces the       *)
(* bindings and purges the state of withdrawn profiles.  bindingsMu,       *)
(* flowMu and fragmentMu are taken one at a time, so a step here is one    *)
(* critical section, and what a goroutine read under one lock may be out   *)
(* of date when it takes the next.                                         *)
(*                                                                         *)
(* A packet is abstracted to what decides its fate: the addresses, the     *)
(* conversation (protocol and ports, or ICMP identifier), its fragment     *)
(* position and IP identification.  Idle time is a state of an entry.      *)
(***************************************************************************)
EXTENDS Integers, FiniteSets

CONSTANTS
  Profiles,    \* profile IDs, represented by their place in the configured order
  Canonicals,  \* canonical Tailscale addresses of peers and Services
  Lease,       \* the effective address of a target <<profile, canonical>>
  Convs,       \* the conversations that flowKey tells apart
  Headers,     \* what packets carry: conversations, and NoConv where flowKey is ""
  NoConv,      \* another protocol, or a truncated header
  FragIds,     \* IP identification values
  MaxFlows,    \* 65536
  MaxFrags,    \* 8192
  NoAddr       \* the zero netip.Addr

Targets == Profiles \X Canonicals

ASSUME ProfilesAssumption == Profiles \subseteq Nat /\ IsFiniteSet(Profiles)

\* Leases are injective (Leases!PlanCollisionFree).  A lease may be a canonical address:
\* Validate and CheckPoolOverlap accept a pool inside 100.64.0.0/10.
ASSUME LeaseAssumption ==
  /\ DOMAIN Lease = Targets
  /\ \A s, t \in Targets : Lease[s] = Lease[t] => s = t
  /\ \A t \in Targets : Lease[t] # NoAddr
  /\ NoAddr \notin Canonicals

ASSUME ConvAssumption == NoConv \notin Convs /\ Headers \subseteq Convs \cup {NoConv}

ASSUME LimitAssumption == MaxFlows \in Nat \ {0} /\ MaxFrags \in Nat \ {0}

FlowKeys == Profiles \X Canonicals \X Convs
FragKeys == Profiles \X Canonicals \X FragIds
Effectives == {Lease[t] : t \in Targets}
Addresses == Canonicals \cup Effectives

VARIABLES
  bind,    \* byEffective, byInbound, raw (the targets) and selfByProfile (the profiles)
  flows,   \* the raw flow table
  frags,   \* the fragment table: raw when eff is NoAddr, else the binding's address
  host,    \* hostLoop's packet
  loop,    \* each profileLoop's packet
  seen,    \* profileSeen: the profiles that have a loop
  upd,     \* Update in progress
  opened,  \* history: the raw conversations the host has opened
  raced    \* history: profiles withdrawn while a loop held a packet of theirs

vars == <<bind, flows, frags, host, loop, seen, upd, opened, raced>>

-----------------------------------------------------------------------------
\* Lookups.

\* raw: New keeps the first target, in profile order, with this address.
RawOwner(x, p) ==
  /\ <<p, x>> \in bind.targets
  /\ \A q \in Profiles : <<q, x>> \in bind.targets => p <= q

\* hostLoop's lookup of a destination: byEffective, then raw.
Finds(dst, t) ==
  \/ t \in bind.targets /\ Lease[t] = dst
  \/ /\ \A s \in bind.targets : Lease[s] # dst
     /\ t[2] = dst
     /\ RawOwner(t[2], t[1])

\* Mutant of flowKey: the profile is left out.
flowKeyAnyProfile(p, x, c) == <<CHOOSE q \in Profiles : TRUE, x, c>>

\* The key of the raw flow table.
flowKey(p, x, c) == <<p, x, c>>

\* Mutant of fragmentKey: the profile is left out.
fragmentKeyAnyProfile(p, x, i) == <<CHOOSE q \in Profiles : TRUE, x, i>>

\* The key of the fragment table.
fragmentKey(p, x, i) == <<p, x, i>>

\* What New keeps of an inventory: targets of the profiles that have a datapath.
New(targets, profiles) ==
  [profiles |-> profiles, targets |-> {t \in targets : t[1] \in profiles}]

NoFrag == [st |-> "none", eff |-> NoAddr]

Live(table) == {k \in DOMAIN table : table[k] = "live"}

LiveFrags == {k \in FragKeys : frags[k].st = "live"}

HostIdle == [pc |-> "idle"]
LoopIdle == [pc |-> "idle"]
UpdateIdle == [pc |-> "idle"]

Init ==
  /\ \E T \in SUBSET Targets, P \in SUBSET Profiles : bind = New(T, P)
  /\ flows = [k \in FlowKeys |-> "none"]
  /\ frags = [k \in FragKeys |-> NoFrag]
  /\ host = HostIdle
  /\ loop = [p \in Profiles |-> LoopIdle]
  /\ seen = bind.profiles
  /\ upd = UpdateIdle
  /\ opened = {}
  /\ raced = {}

-----------------------------------------------------------------------------
\* hostLoop.

\* A packet from the NAT address with a binding; others are dropped here.
HostRead ==
  /\ host.pc = "idle"
  /\ \E dst \in Addresses, t \in Targets, c \in Headers, later \in BOOLEAN :
       /\ Finds(dst, t)
       /\ host' = IF dst # Lease[t] /\ ~later
                  THEN [pc |-> "addFlow", target |-> t, conv |-> c]
                  ELSE [pc |-> "inject", target |-> t, conv |-> NoConv]
  /\ UNCHANGED <<bind, flows, frags, loop, seen, upd, opened, raced>>

\* addFlow refuses a packet that has no flow key.
AddFlowNoKey ==
  /\ host.pc = "addFlow"
  /\ host.conv = NoConv
  /\ host' = HostIdle
  /\ UNCHANGED <<bind, flows, frags, loop, seen, upd, opened, raced>>

\* Mutant of AddFlowFull: an entry in use is evicted.
AddFlowFullEvicts ==
  /\ host.pc = "addFlow"
  /\ host.conv # NoConv
  /\ Cardinality(Live(flows)) >= MaxFlows
  /\ \E k \in Live(flows) : flows' = [flows EXCEPT ![k] = "none"]
  /\ host' = HostIdle
  /\ UNCHANGED <<bind, frags, loop, seen, upd, opened, raced>>

\* addFlow drops every idle entry, then refuses the packet when the table is full.
AddFlowFull ==
  /\ host.pc = "addFlow"
  /\ host.conv # NoConv
  /\ Cardinality(Live(flows)) >= MaxFlows
  /\ flows' = [k \in FlowKeys |-> IF flows[k] = "idle" THEN "none" ELSE flows[k]]
  /\ host' = HostIdle
  /\ UNCHANGED <<bind, frags, loop, seen, upd, opened, raced>>

\* Mutant of AddFlow: one entry more than the limit.
AddFlowOneMore ==
  /\ host.pc = "addFlow"
  /\ host.conv # NoConv
  /\ Cardinality(Live(flows)) <= MaxFlows
  /\ LET key == flowKey(host.target[1], host.target[2], host.conv)
     IN  /\ flows' = [flows EXCEPT ![key] = "live"]
         /\ opened' = opened \cup {key}
  /\ host' = [host EXCEPT !.pc = "inject", !.conv = NoConv]
  /\ UNCHANGED <<bind, frags, loop, seen, upd, raced>>

\* addFlow, with room after the idle entries are dropped, adds or refreshes.
AddFlow ==
  /\ host.pc = "addFlow"
  /\ host.conv # NoConv
  /\ Cardinality(Live(flows)) < MaxFlows
  /\ LET key == flowKey(host.target[1], host.target[2], host.conv)
     IN  /\ flows' = [k \in FlowKeys |-> IF k = key THEN "live"
                                         ELSE IF flows[k] = "idle" THEN "none" ELSE flows[k]]
         /\ opened' = opened \cup {key}
  /\ host' = [host EXCEPT !.pc = "inject", !.conv = NoConv]
  /\ UNCHANGED <<bind, frags, loop, seen, upd, raced>>

\* rewrite and TryInject into the binding's TUN; a full or closed queue drops it.
HostInject ==
  /\ host.pc = "inject"
  /\ host' = HostIdle
  /\ UNCHANGED <<bind, flows, frags, loop, seen, upd, opened, raced>>

-----------------------------------------------------------------------------
\* profileLoop.

Set(p, r) == loop' = [loop EXCEPT ![p] = r]

\* A packet for the profile's self address; a withdrawn profile has none.
Receive(p) ==
  /\ p \in seen
  /\ loop[p].pc = "idle"
  /\ p \in bind.profiles
  /\ \E x \in Canonicals, c \in Headers, mf \in BOOLEAN, later \in BOOLEAN, i \in FragIds :
       Set(p, IF later
              THEN [pc |-> "getFragment", from |-> x, conv |-> NoConv, mf |-> FALSE,
                    id |-> i, src |-> NoAddr]
              ELSE [pc |-> "touchFlow", from |-> x, conv |-> c, mf |-> mf,
                    id |-> i, src |-> NoAddr])
  /\ UNCHANGED <<bind, flows, frags, host, seen, upd, opened, raced>>

FragKeyOf(p) == fragmentKey(p, loop[p].from, loop[p].id)

\* getFragment finds no entry, or an idle one: the fragment is dropped.
GetFragmentMiss(p) ==
  /\ loop[p].pc = "getFragment"
  /\ frags[FragKeyOf(p)].st # "live"
  /\ frags' = [frags EXCEPT ![FragKeyOf(p)] = NoFrag]
  /\ Set(p, LoopIdle)
  /\ UNCHANGED <<bind, flows, host, seen, upd, opened, raced>>

\* getFragment finds how the first fragment was translated.
GetFragment(p) ==
  /\ loop[p].pc = "getFragment"
  /\ frags[FragKeyOf(p)].st = "live"
  /\ LET eff == frags[FragKeyOf(p)].eff
     IN  Set(p, [loop[p] EXCEPT !.pc = "write",
                                !.src = IF eff = NoAddr THEN loop[p].from ELSE eff])
  /\ UNCHANGED <<bind, flows, frags, host, seen, upd, opened, raced>>

\* The source is chosen; a first fragment is remembered before it is written.
Match(p, src) ==
  Set(p, [loop[p] EXCEPT !.pc = IF loop[p].mf THEN "putFragment" ELSE "write",
                         !.src = src])

FlowKeyOf(p) == flowKey(p, loop[p].from, loop[p].conv)

\* touchFlow finds a raw flow: the source stays canonical.
TouchFlow(p) ==
  /\ loop[p].pc = "touchFlow"
  /\ loop[p].conv # NoConv
  /\ flows[FlowKeyOf(p)] = "live"
  /\ Match(p, loop[p].from)
  /\ UNCHANGED <<bind, flows, frags, host, seen, upd, opened, raced>>

\* touchFlow finds none, or an idle one that it deletes; the ports matter no more.
TouchFlowMiss(p) ==
  /\ loop[p].pc = "touchFlow"
  /\ IF loop[p].conv = NoConv
     THEN UNCHANGED flows
     ELSE /\ flows[FlowKeyOf(p)] # "live"
          /\ flows' = [flows EXCEPT ![FlowKeyOf(p)] = "none"]
  /\ Set(p, [loop[p] EXCEPT !.pc = "lookup", !.conv = NoConv])
  /\ UNCHANGED <<bind, frags, host, seen, upd, opened, raced>>

\* byInbound has the source: it is translated to its effective address.
Lookup(p) ==
  /\ loop[p].pc = "lookup"
  /\ <<p, loop[p].from>> \in bind.targets
  /\ Match(p, Lease[<<p, loop[p].from>>])
  /\ UNCHANGED <<bind, flows, frags, host, seen, upd, opened, raced>>

\* byInbound does not have the source: the packet is dropped.
LookupMiss(p) ==
  /\ loop[p].pc = "lookup"
  /\ <<p, loop[p].from>> \notin bind.targets
  /\ Set(p, LoopIdle)
  /\ UNCHANGED <<bind, flows, frags, host, seen, upd, opened, raced>>

\* Mutant of PutFragment: a raw flow's canonical source is stored as a binding.
PutFragmentRawBinding(p) ==
  /\ loop[p].pc = "putFragment"
  /\ frags' = [frags EXCEPT ![FragKeyOf(p)] = [st |-> "live", eff |-> loop[p].src]]
  /\ Set(p, [loop[p] EXCEPT !.pc = "write", !.mf = FALSE])
  /\ UNCHANGED <<bind, flows, host, seen, upd, opened, raced>>

\* putFragment drops every idle entry, then adds its own unless the table is full;
\* the first fragment itself is forwarded either way.
PutFragment(p) ==
  /\ loop[p].pc = "putFragment"
  /\ LET eff == IF loop[p].src = loop[p].from THEN NoAddr ELSE loop[p].src
         full == Cardinality(LiveFrags) >= MaxFrags
     IN  frags' = [k \in FragKeys |->
           IF k = FragKeyOf(p) /\ ~full THEN [st |-> "live", eff |-> eff]
           ELSE IF frags[k].st = "idle" THEN NoFrag ELSE frags[k]]
  /\ Set(p, [loop[p] EXCEPT !.pc = "write", !.mf = FALSE])
  /\ UNCHANGED <<bind, flows, host, seen, upd, opened, raced>>

\* rewrite to the chosen source and the NAT address, and write to the host TUN.
WritePacket(p) ==
  /\ loop[p].pc = "write"
  /\ Set(p, LoopIdle)
  /\ UNCHANGED <<bind, flows, frags, host, seen, upd, opened, raced>>

-----------------------------------------------------------------------------
\* Update, by the main loop, and the passing of time.

\* A loop holds a packet of p that can still reach the flow or fragment table.
InFlight(p) ==
  \/ host.pc = "addFlow" /\ host.target[1] = p
  \/ loop[p].pc \notin {"idle", "write"}

\* Mutant of UpdateSwap: the withdrawn profiles are computed after the swap.
UpdateSwapLateDiff ==
  /\ upd.pc = "idle"
  /\ \E T \in SUBSET Targets, P \in SUBSET Profiles :
       /\ bind' = New(T, P)
       /\ upd' = [pc |-> "loops", removed |-> {}, profiles |-> P]
       /\ raced' = (raced \ P) \cup {p \in bind.profiles \ P : InFlight(p)}
  /\ UNCHANGED <<flows, frags, host, loop, seen, opened>>

\* The bindings are swapped under bindingsMu.  The inventory and the datapath
\* profiles are separate snapshots, so they need not agree.
UpdateSwap ==
  /\ upd.pc = "idle"
  /\ \E T \in SUBSET Targets, P \in SUBSET Profiles :
       /\ bind' = New(T, P)
       /\ upd' = [pc |-> IF bind.profiles \subseteq P THEN "loops" ELSE "flows",
                  removed |-> bind.profiles \ P, profiles |-> P]
       /\ raced' = (raced \ P) \cup {p \in bind.profiles \ P : InFlight(p)}
  /\ UNCHANGED <<flows, frags, host, loop, seen, opened>>

\* purgeProfiles, under flowMu.
PurgeFlows ==
  /\ upd.pc = "flows"
  /\ flows' = [k \in FlowKeys |-> IF k[1] \in upd.removed THEN "none" ELSE flows[k]]
  /\ upd' = [upd EXCEPT !.pc = "fragments"]
  /\ UNCHANGED <<bind, frags, host, loop, seen, opened, raced>>

\* purgeProfiles, under fragmentMu.
PurgeFragments ==
  /\ upd.pc = "fragments"
  /\ frags' = [k \in FragKeys |-> IF k[1] \in upd.removed THEN NoFrag ELSE frags[k]]
  /\ upd' = [upd EXCEPT !.pc = "loops"]
  /\ UNCHANGED <<bind, flows, host, loop, seen, opened, raced>>

\* A loop is started for every datapath profile that has none yet.
ensureProfileLoops ==
  /\ upd.pc = "loops"
  /\ seen' = seen \cup upd.profiles
  /\ upd' = UpdateIdle
  /\ UNCHANGED <<bind, flows, frags, host, loop, opened, raced>>

\* An entry has not been seen for longer than its timeout.
FlowTimeout ==
  /\ \E k \in Live(flows) : flows' = [flows EXCEPT ![k] = "idle"]
  /\ UNCHANGED <<bind, frags, host, loop, seen, upd, opened, raced>>

FragmentTimeout ==
  /\ \E k \in LiveFrags : frags' = [frags EXCEPT ![k].st = "idle"]
  /\ UNCHANGED <<bind, flows, host, loop, seen, upd, opened, raced>>

hostLoop == HostRead \/ AddFlowNoKey \/ AddFlowFull \/ AddFlow \/ HostInject

profileLoop(p) ==
  \/ Receive(p)
  \/ GetFragmentMiss(p) \/ GetFragment(p)
  \/ TouchFlow(p) \/ TouchFlowMiss(p)
  \/ Lookup(p) \/ LookupMiss(p)
  \/ PutFragment(p)
  \/ WritePacket(p)

Update == UpdateSwap \/ PurgeFlows \/ PurgeFragments \/ ensureProfileLoops

Next ==
  \/ hostLoop
  \/ \E p \in Profiles : profileLoop(p)
  \/ Update
  \/ FlowTimeout \/ FragmentTimeout

Spec == Init /\ [][Next]_vars

-----------------------------------------------------------------------------
\* Properties.

EntryStates == {"none", "live", "idle"}

HostStates ==
  {HostIdle} \cup
  [pc : {"addFlow", "inject"}, target : Targets, conv : Convs \cup {NoConv}]

LoopStates ==
  {LoopIdle} \cup
  [pc : {"getFragment", "touchFlow", "lookup", "putFragment", "write"},
   from : Canonicals, conv : Convs \cup {NoConv}, mf : BOOLEAN, id : FragIds,
   src : Addresses \cup {NoAddr}]

UpdateStates ==
  {UpdateIdle} \cup
  [pc : {"flows", "fragments", "loops"}, removed : SUBSET Profiles,
   profiles : SUBSET Profiles]

\* Every variable has its type.
TypeOK ==
  /\ bind \in [profiles : SUBSET Profiles, targets : SUBSET Targets]
  /\ flows \in [FlowKeys -> EntryStates]
  /\ frags \in [FragKeys -> [st : EntryStates, eff : Effectives \cup {NoAddr}]]
  /\ host \in HostStates
  /\ loop \in [Profiles -> LoopStates]
  /\ seen \in SUBSET Profiles
  /\ upd \in UpdateStates
  /\ opened \in SUBSET FlowKeys
  /\ raced \in SUBSET Profiles

\* A packet is written to the host with its sender's own canonical address or its
\* sender's own effective address, also for later fragments, whose translation
\* was stored before the bindings changed: peers with the same canonical address
\* in two tailnets are never taken for each other.
SourceIsSender ==
  \A p \in Profiles : loop[p].pc \in {"putFragment", "write"} =>
    loop[p].src \in {loop[p].from, Lease[<<p, loop[p].from>>]}

\* A peer appears under another address than its own lease only in a conversation
\* that the host opened to it, by its canonical address and through that profile (some
\* conversation, for a later fragment, which has no ports): unsolicited traffic never
\* does, also where a lease of another peer is that canonical address.
CanonicalOnlyIfOpened ==
  \A p \in Profiles : loop[p].pc \in {"putFragment", "write"} =>
    (loop[p].src # Lease[<<p, loop[p].from>>] =>
       \E c \in Convs : /\ <<p, loop[p].from, c>> \in opened
                        /\ loop[p].conv \in {c, NoConv})

\* Neither table outgrows its limit, counting the idle entries not yet expired.
TablesBounded ==
  /\ Cardinality({k \in FlowKeys : flows[k] # "none"}) <= MaxFlows
  /\ Cardinality({k \in FragKeys : frags[k].st # "none"}) <= MaxFrags

\* When Update is done, a withdrawn profile has no flow and no fragment left,
\* unless a loop held a packet of that profile while the bindings were swapped.
PurgedUnlessInFlight ==
  upd.pc \in {"idle", "loops"} =>
    /\ \A k \in FlowKeys : flows[k] # "none" => k[1] \in bind.profiles \cup raced
    /\ \A k \in FragKeys : frags[k].st # "none" => k[1] \in bind.profiles \cup raced

\* When Update is done, a withdrawn profile has no flow and no fragment left.
PurgedOnWithdrawal ==
  upd.pc = "idle" =>
    /\ \A k \in FlowKeys : flows[k] # "none" => k[1] \in bind.profiles
    /\ \A k \in FragKeys : frags[k].st # "none" => k[1] \in bind.profiles

\* An entry in use is never evicted to make room: it goes only by growing idle
\* or by the purge of its withdrawn profile.
ActiveNeverEvicted ==
  [][/\ \A k \in FlowKeys : flows[k] = "live" /\ flows'[k] = "none" =>
          upd.pc = "flows" /\ k[1] \in upd.removed
     /\ \A k \in FragKeys : frags[k].st = "live" /\ frags'[k].st = "none" =>
          upd.pc = "fragments" /\ k[1] \in upd.removed]_vars
===============================================================================
