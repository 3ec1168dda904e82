------------------------------- MODULE MuxProofs ------------------------------
(***************************************************************************)
(* The safety of the packet mux for any number of profiles, peers,         *)
(* conversations and fragments, and any size of its tables.                *)
(*                                                                         *)
(* A packet is translated by what another packet left in a table, under a  *)
(* lock given back long before.  So the argument is about the tables: an   *)
(* entry says of its key's own peer what is true for ever (its lease is    *)
(* fixed, a conversation once opened stays opened), and an entry that a    *)
(* purge has to find belongs to a profile that is bound, about to be       *)
(* purged, or recorded as raced by a packet in flight.                     *)
(***************************************************************************)
EXTENDS Mux, FiniteSetTheorems, TLAPS

LoopBusy ==
  [pc : {"getFragment", "touchFlow", "lookup", "putFragment", "write"},
   from : Canonicals, conv : Convs \cup {NoConv}, mf : BOOLEAN, id : FragIds,
   src : Addresses \cup {NoAddr}]

HostBusy == [pc : {"addFlow", "inject"}, target : Targets, conv : Convs \cup {NoConv}]

UpdateBusy == [pc : {"flows", "fragments", "loops"}, removed : SUBSET Profiles,
               profiles : SUBSET Profiles]

FragStates == [st : EntryStates, eff : Effectives \cup {NoAddr}]

\* A fragment's entry holds its own sender's translation.
FragsOwn ==
  \A p \in Profiles, x \in Canonicals, i \in FragIds :
    frags[<<p, x, i>>].eff \in {NoAddr, Lease[<<p, x>>]}

SenderInv == TypeOK /\ FragsOwn /\ SourceIsSender

\* A raw flow was opened by the host.
FlowsOpened == \A k \in FlowKeys : flows[k] # "none" => k \in opened

\* A raw fragment's sender is a peer to which the host has opened a conversation, or one
\* whose lease is its canonical address.
FragsOpened ==
  \A p \in Profiles, x \in Canonicals, i \in FragIds :
    frags[<<p, x, i>>].st = "live" /\ frags[<<p, x, i>>].eff = NoAddr /\ Lease[<<p, x>>] # x =>
      \E c \in Convs : <<p, x, c>> \in opened

\* A later fragment has no ports.
LaterHasNoPorts ==
  \A p \in Profiles : loop[p].pc = "getFragment" => loop[p].conv = NoConv

OpenedInv == FlowsOpened /\ FragsOpened /\ LaterHasNoPorts /\ CanonicalOnlyIfOpened

UsedFlows == {k \in FlowKeys : flows[k] # "none"}
UsedFrags == {k \in FragKeys : frags[k].st # "none"}

\* The tables are finite, whatever the sets of keys are.
BoundedInv ==
  /\ IsFiniteSet(UsedFlows) /\ Cardinality(UsedFlows) <= MaxFlows
  /\ IsFiniteSet(UsedFrags) /\ Cardinality(UsedFrags) <= MaxFrags

\* The profiles whose state is not left over: bound, or raced by a packet in flight.
Accounted == bind.profiles \cup raced

FlowsAccounted ==
  \A k \in FlowKeys : flows[k] # "none" =>
    k[1] \in Accounted \/ (upd.pc = "flows" /\ k[1] \in upd.removed)

FragsAccounted ==
  \A k \in FragKeys : frags[k].st # "none" =>
    k[1] \in Accounted \/ (upd.pc \in {"flows", "fragments"} /\ k[1] \in upd.removed)

\* A packet that can still reach a table is of a profile accounted for.
PacketsInFlight == \A p \in Profiles : InFlight(p) => p \in Accounted

BoundTargets == \A t \in bind.targets : t[1] \in bind.profiles

PurgeInv == BoundTargets /\ PacketsInFlight /\ FlowsAccounted /\ FragsAccounted

-----------------------------------------------------------------------------
\* What the records of the loops and of Update look like while they are at work.
LEMMA Busy ==
  /\ LoopBusy \subseteq LoopStates
  /\ \A r \in LoopStates : r.pc # "idle" => r \in LoopBusy
  /\ \A r \in HostStates : r.pc # "idle" => r \in HostBusy
  /\ \A r \in UpdateStates : r.pc # "idle" => r \in UpdateBusy
<1>1. LoopBusy \subseteq LoopStates
  BY DEF LoopStates, LoopBusy
<1>2. \A r \in LoopStates : r.pc # "idle" => r \in LoopBusy
  BY DEF LoopStates, LoopBusy, LoopIdle
<1>3. \A r \in HostStates : r.pc # "idle" => r \in HostBusy
  BY DEF HostStates, HostBusy, HostIdle
<1>4. \A r \in UpdateStates : r.pc # "idle" => r \in UpdateBusy
  BY DEF UpdateStates, UpdateBusy, UpdateIdle
<1> QED BY <1>1, <1>2, <1>3, <1>4

\* The keys that the loops use are keys of the tables.
LEMMA Keys ==
  /\ \A p \in Profiles, x \in Canonicals, c \in Convs : flowKey(p, x, c) \in FlowKeys
  /\ \A p \in Profiles, x \in Canonicals, i \in FragIds : fragmentKey(p, x, i) \in FragKeys
  /\ \A p \in Profiles, x \in Canonicals : <<p, x>> \in Targets
  /\ \A t \in Targets : t[1] \in Profiles /\ t[2] \in Canonicals /\ t = <<t[1], t[2]>>
  /\ \A k \in FlowKeys : /\ k[1] \in Profiles /\ k[2] \in Canonicals /\ k[3] \in Convs
                         /\ k = <<k[1], k[2], k[3]>>
  /\ \A k \in FragKeys : /\ k[1] \in Profiles /\ k[2] \in Canonicals /\ k[3] \in FragIds
                         /\ k = <<k[1], k[2], k[3]>>
  /\ NoFrag \in FragStates
BY DEF flowKey, fragmentKey, FlowKeys, FragKeys, Targets, NoFrag, FragStates, EntryStates

\* A profile loop's packet after the updates that the actions make.
LEMMA Matched ==
  ASSUME NEW r \in LoopBusy, NEW src \in Addresses
  PROVE  /\ [r EXCEPT !.pc = "write", !.src = src] \in LoopBusy
         /\ [r EXCEPT !.pc = IF r.mf THEN "putFragment" ELSE "write", !.src = src] \in LoopBusy
         /\ [r EXCEPT !.pc = "lookup", !.conv = NoConv] \in LoopBusy
         /\ [r EXCEPT !.pc = "write", !.mf = FALSE] \in LoopBusy
BY DEF LoopBusy

\* The parts of TypeOK.
LEMMA Types ==
  TypeOK <=> /\ bind \in [profiles : SUBSET Profiles, targets : SUBSET Targets]
             /\ flows \in [FlowKeys -> EntryStates]
             /\ frags \in [FragKeys -> FragStates]
             /\ host \in HostStates
             /\ loop \in [Profiles -> LoopStates]
             /\ seen \in SUBSET Profiles
             /\ upd \in UpdateStates
             /\ opened \in SUBSET FlowKeys
             /\ raced \in SUBSET Profiles
BY DEF TypeOK, FragStates

\* The program starts with empty tables.
LEMMA InitTyped ==
  ASSUME Init
  PROVE  TypeOK
<1>1. PICK T \in SUBSET Targets, P \in SUBSET Profiles : bind = New(T, P)
  BY DEF Init
<1>2. bind \in [profiles : SUBSET Profiles, targets : SUBSET Targets]
  BY <1>1 DEF New
<1>3. frags \in [FragKeys -> FragStates] /\ flows \in [FlowKeys -> EntryStates]
  BY Keys DEF Init, EntryStates
<1>4. host \in HostStates /\ loop \in [Profiles -> LoopStates] /\ upd \in UpdateStates
  BY DEF Init, HostStates, LoopStates, UpdateStates
<1> QED BY <1>2, <1>3, <1>4, Types DEF Init

\* A step of hostLoop keeps the types.
LEMMA HostTyped ==
  ASSUME TypeOK, hostLoop
  PROVE  TypeOK'
<1> USE Types
<1>1. CASE HostRead
  <2>1. host' \in HostStates
    <3>1. PICK t \in Targets, c \in Headers :
            \/ host' = [pc |-> "addFlow", target |-> t, conv |-> c]
            \/ host' = [pc |-> "inject", target |-> t, conv |-> NoConv]
      BY <1>1 DEF HostRead
    <3>2. c \in Convs \cup {NoConv}
      BY ConvAssumption
    <3> QED BY <3>1, <3>2 DEF HostStates
  <2> QED BY <1>1, <2>1 DEF HostRead, TypeOK
<1>2. CASE AddFlowNoKey
  BY <1>2 DEF AddFlowNoKey, HostStates, TypeOK
<1>3. CASE AddFlowFull
  BY <1>3 DEF AddFlowFull, HostStates, EntryStates, TypeOK
<1>4. CASE AddFlow
  <2>1. host \in HostBusy
    BY <1>4, Busy DEF AddFlow
  <2>2. flowKey(host.target[1], host.target[2], host.conv) \in FlowKeys
    BY <1>4, <2>1, Keys DEF AddFlow, HostBusy
  <2>3. host' \in HostStates
    BY <1>4, <2>1 DEF AddFlow, HostBusy, HostStates
  <2>4. flows' \in [FlowKeys -> EntryStates] /\ opened' \in SUBSET FlowKeys
    BY <1>4, <2>2 DEF AddFlow, EntryStates
  <2> QED BY <1>4, <2>3, <2>4 DEF AddFlow, TypeOK
<1>5. CASE HostInject
  BY <1>5 DEF HostInject, HostStates, TypeOK
<1> QED BY <1>1, <1>2, <1>3, <1>4, <1>5 DEF hostLoop

\* A packet of a profile loop has its sender and identification.
LEMMA LoopKeys ==
  ASSUME TypeOK, NEW p \in Profiles, loop[p].pc # "idle"
  PROVE  /\ loop[p] \in LoopBusy
         /\ FragKeyOf(p) \in FragKeys
         /\ FragKeyOf(p) = <<p, loop[p].from, loop[p].id>>
         /\ loop[p].conv # NoConv => FlowKeyOf(p) \in FlowKeys
         /\ FlowKeyOf(p) = <<p, loop[p].from, loop[p].conv>>
         /\ <<p, loop[p].from>> \in Targets
         /\ loop[p].from \in Canonicals
<1>1. loop[p] \in LoopBusy
  BY Busy, Types
<1>2. /\ loop[p].from \in Canonicals /\ loop[p].id \in FragIds
      /\ loop[p].conv \in Convs \cup {NoConv}
  BY <1>1 DEF LoopBusy
<1> QED BY <1>1, <1>2, Keys DEF FragKeyOf, FlowKeyOf, flowKey, fragmentKey

\* A step of profileLoop keeps the types: what putFragment stores is an effective
\* address because the source is its sender's.
LEMMA LoopTyped ==
  ASSUME TypeOK, SourceIsSender, NEW p \in Profiles, profileLoop(p)
  PROVE  TypeOK'
<1> USE Types
<1>0. /\ \A t \in Targets : Lease[t] \in Addresses
      /\ \A x \in Canonicals : x \in Addresses
      /\ \A e \in Effectives : e \in Addresses
  BY DEF Addresses, Effectives
<1>1. ASSUME NEW r \in LoopBusy, Set(p, r) PROVE loop' \in [Profiles -> LoopStates]
  BY <1>1, Busy DEF Set
<1>2. ASSUME Set(p, LoopIdle) PROVE loop' \in [Profiles -> LoopStates]
  BY <1>2 DEF Set, LoopStates
<1>3. CASE Receive(p)
  <2>1. PICK x \in Canonicals, c \in Headers, mf \in BOOLEAN, later \in BOOLEAN, i \in FragIds :
          Set(p, IF later
                 THEN [pc |-> "getFragment", from |-> x, conv |-> NoConv, mf |-> FALSE,
                       id |-> i, src |-> NoAddr]
                 ELSE [pc |-> "touchFlow", from |-> x, conv |-> c, mf |-> mf,
                       id |-> i, src |-> NoAddr])
    BY <1>3 DEF Receive
  <2>2. /\ [pc |-> "getFragment", from |-> x, conv |-> NoConv, mf |-> FALSE,
            id |-> i, src |-> NoAddr] \in LoopBusy
        /\ [pc |-> "touchFlow", from |-> x, conv |-> c, mf |-> mf,
            id |-> i, src |-> NoAddr] \in LoopBusy
    BY ConvAssumption DEF LoopBusy
  <2>3. loop' \in [Profiles -> LoopStates]
    BY <1>1, <2>1, <2>2
  <2> QED BY <1>3, <2>3 DEF Receive, TypeOK, FragStates
<1>4. CASE GetFragmentMiss(p)
  <2>1. loop' \in [Profiles -> LoopStates]
    BY <1>2, <1>4 DEF GetFragmentMiss
  <2>2. frags' \in [FragKeys -> FragStates]
    BY <1>4, Keys DEF GetFragmentMiss
  <2> QED BY <1>4, <2>1, <2>2 DEF GetFragmentMiss, TypeOK, FragStates
<1>5. CASE GetFragment(p)
  <2> DEFINE eff == frags[FragKeyOf(p)].eff
             src == IF eff = NoAddr THEN loop[p].from ELSE eff
  <2>1. loop[p] \in LoopBusy /\ FragKeyOf(p) \in FragKeys /\ loop[p].from \in Canonicals
    BY <1>5, LoopKeys DEF GetFragment
  <2>2. src \in Addresses
    BY <1>0, <2>1 DEF FragStates
  <2>3. Set(p, [loop[p] EXCEPT !.pc = "write", !.src = src])
    BY <1>5 DEF GetFragment
  <2> HIDE DEF src
  <2>4. loop' \in [Profiles -> LoopStates]
    BY <1>1, <2>1, <2>2, <2>3, Matched
  <2> QED BY <1>5, <2>4 DEF GetFragment, TypeOK, FragStates
<1>6. ASSUME loop[p].pc # "idle", NEW src \in Addresses, Match(p, src)
      PROVE  loop' \in [Profiles -> LoopStates]
  BY <1>1, <1>6, LoopKeys, Matched DEF Match
<1>7. CASE TouchFlow(p)
  <2>1. loop' \in [Profiles -> LoopStates]
    BY <1>0, <1>6, <1>7, LoopKeys DEF TouchFlow
  <2> QED BY <1>7, <2>1 DEF TouchFlow, TypeOK, FragStates
<1>8. CASE TouchFlowMiss(p)
  <2>1. loop' \in [Profiles -> LoopStates]
    <3>1. [loop[p] EXCEPT !.pc = "lookup", !.conv = NoConv] \in LoopBusy
      BY <1>8, LoopKeys DEF TouchFlowMiss, LoopBusy
    <3> QED BY <1>1, <1>8, <3>1 DEF TouchFlowMiss
  <2>2. flows' \in [FlowKeys -> EntryStates]
    BY <1>8, LoopKeys DEF TouchFlowMiss, EntryStates
  <2> QED BY <1>8, <2>1, <2>2 DEF TouchFlowMiss, TypeOK, FragStates
<1>9. CASE Lookup(p)
  <2>1. loop' \in [Profiles -> LoopStates]
    BY <1>0, <1>6, <1>9, LoopKeys DEF Lookup
  <2> QED BY <1>9, <2>1 DEF Lookup, TypeOK, FragStates
<1>10. CASE LookupMiss(p)
  <2>1. loop' \in [Profiles -> LoopStates]
    BY <1>2, <1>10 DEF LookupMiss
  <2> QED BY <1>10, <2>1 DEF LookupMiss, TypeOK, FragStates
<1>11. CASE PutFragment(p)
  <2>1. loop' \in [Profiles -> LoopStates]
    <3>1. [loop[p] EXCEPT !.pc = "write", !.mf = FALSE] \in LoopBusy
      BY <1>11, LoopKeys DEF PutFragment, LoopBusy
    <3> QED BY <1>1, <1>11, <3>1 DEF PutFragment
  <2> DEFINE eff == IF loop[p].src = loop[p].from THEN NoAddr ELSE loop[p].src
  <2>2. [st |-> "live", eff |-> eff] \in FragStates
    <3>1. loop[p].src \in {loop[p].from, Lease[<<p, loop[p].from>>]}
      BY <1>11 DEF PutFragment, SourceIsSender
    <3>2. Lease[<<p, loop[p].from>>] \in Effectives
      BY <1>11, LoopKeys DEF PutFragment, Effectives
    <3>3. eff \in Effectives \cup {NoAddr}
      BY <3>1, <3>2
    <3> HIDE DEF eff
    <3> QED BY <3>3 DEF FragStates, EntryStates
  <2>3. frags' \in [FragKeys -> FragStates]
    <3> HIDE DEF eff
    <3> QED BY <1>11, <2>2, Keys DEF PutFragment, eff
  <2> QED BY <1>11, <2>1, <2>3 DEF PutFragment, TypeOK, FragStates
<1>12. CASE WritePacket(p)
  <2>1. loop' \in [Profiles -> LoopStates]
    BY <1>2, <1>12 DEF WritePacket
  <2> QED BY <1>12, <2>1 DEF WritePacket, TypeOK, FragStates
<1> QED BY <1>3, <1>4, <1>5, <1>7, <1>8, <1>9, <1>10, <1>11, <1>12 DEF profileLoop

\* A step of Update keeps the types.
LEMMA UpdateTyped ==
  ASSUME TypeOK, Update
  PROVE  TypeOK'
<1> USE Types
<1>1. CASE UpdateSwap
  <2>1. PICK T \in SUBSET Targets, P \in SUBSET Profiles :
          /\ bind' = New(T, P)
          /\ upd' = [pc |-> IF bind.profiles \subseteq P THEN "loops" ELSE "flows",
                     removed |-> bind.profiles \ P, profiles |-> P]
          /\ raced' = (raced \ P) \cup {q \in bind.profiles \ P : InFlight(q)}
    BY <1>1 DEF UpdateSwap
  <2>2. bind' \in [profiles : SUBSET Profiles, targets : SUBSET Targets]
    BY <2>1 DEF New
  <2>3. upd' \in UpdateStates /\ raced' \in SUBSET Profiles
    BY <2>1 DEF UpdateStates
  <2> QED BY <1>1, <2>2, <2>3 DEF UpdateSwap, TypeOK, FragStates
<1>2. CASE PurgeFlows
  <2>1. upd' \in UpdateStates
    BY <1>2, Busy DEF PurgeFlows, UpdateBusy, UpdateStates
  <2>2. flows' \in [FlowKeys -> EntryStates]
    BY <1>2 DEF PurgeFlows, EntryStates
  <2> QED BY <1>2, <2>1, <2>2 DEF PurgeFlows, TypeOK, FragStates
<1>3. CASE PurgeFragments
  <2>1. upd' \in UpdateStates
    BY <1>3, Busy DEF PurgeFragments, UpdateBusy, UpdateStates
  <2>2. frags' \in [FragKeys -> FragStates]
    BY <1>3, Keys DEF PurgeFragments
  <2> QED BY <1>3, <2>1, <2>2 DEF PurgeFragments, TypeOK, FragStates
<1>4. CASE ensureProfileLoops
  <2>1. upd \in UpdateBusy
    BY <1>4, Busy DEF ensureProfileLoops
  <2>2. seen' \in SUBSET Profiles
    BY <1>4, <2>1 DEF ensureProfileLoops, UpdateBusy
  <2> QED BY <1>4, <2>2 DEF ensureProfileLoops, UpdateStates, TypeOK, FragStates
<1> QED BY <1>1, <1>2, <1>3, <1>4 DEF Update

\* A timeout keeps the types.
LEMMA TimeoutTyped ==
  ASSUME TypeOK, FlowTimeout \/ FragmentTimeout
  PROVE  TypeOK'
<1> USE Types
<1>1. CASE FlowTimeout
  <2>1. flows' \in [FlowKeys -> EntryStates]
    BY <1>1 DEF FlowTimeout, EntryStates
  <2> QED BY <1>1, <2>1 DEF FlowTimeout, TypeOK, FragStates
<1>2. CASE FragmentTimeout
  <2>1. PICK k \in FragKeys : frags' = [frags EXCEPT ![k].st = "idle"]
    BY <1>2 DEF FragmentTimeout, LiveFrags
  <2>2. [frags[k] EXCEPT !.st = "idle"] \in FragStates
    BY DEF FragStates, EntryStates
  <2>3. frags' \in [FragKeys -> FragStates]
    BY <2>1, <2>2
  <2> QED BY <1>2, <2>3 DEF FragmentTimeout, TypeOK, FragStates
<1> QED BY <1>1, <1>2

-----------------------------------------------------------------------------
\* A profile loop replaces its own packet and no other.
LEMMA SetOwn ==
  ASSUME TypeOK, NEW p \in Profiles, NEW r, Set(p, r)
  PROVE  loop'[p] = r /\ \A q \in Profiles : q # p => loop'[q] = loop[q]
BY Types DEF Set

\* What the loops' packets are after a match.
LEMMA MatchOwn ==
  ASSUME TypeOK, NEW p \in Profiles, loop[p].pc # "idle", NEW src, Match(p, src)
  PROVE  /\ loop'[p].from = loop[p].from
         /\ loop'[p].conv = loop[p].conv
         /\ loop'[p].src = src
         /\ loop'[p].pc \in {"putFragment", "write"}
         /\ loop'[p].pc = "putFragment" => loop[p].mf
<1>1. loop[p] \in LoopBusy
  BY LoopKeys
<1>2. loop'[p] = [loop[p] EXCEPT !.pc = IF loop[p].mf THEN "putFragment" ELSE "write",
                                 !.src = src]
  BY SetOwn DEF Match
<1> QED BY <1>1, <1>2 DEF LoopBusy

\* A step of a profile loop keeps both halves of SourceIsSender's argument: the
\* translation it takes from the table, and the one it stores.
LEMMA LoopSender ==
  ASSUME SenderInv, NEW p \in Profiles, profileLoop(p)
  PROVE  FragsOwn' /\ SourceIsSender'
<1> USE DEF SenderInv
<1>1. ASSUME NEW r, Set(p, r),
             r.pc \in {"putFragment", "write"} => r.src \in {r.from, Lease[<<p, r.from>>]}
      PROVE  SourceIsSender'
  <2>1. loop'[p] = r /\ \A q \in Profiles : q # p => loop'[q] = loop[q]
    BY <1>1, SetOwn
  <2> QED BY <1>1, <2>1 DEF SourceIsSender
<1>2. ASSUME Set(p, LoopIdle) PROVE SourceIsSender'
  BY <1>1, <1>2 DEF LoopIdle
<1>3. ASSUME frags' = frags PROVE FragsOwn'
  BY <1>3 DEF FragsOwn
<1>4. ASSUME loop[p].pc # "idle", NEW src, Match(p, src),
             src \in {loop[p].from, Lease[<<p, loop[p].from>>]}
      PROVE  SourceIsSender'
  <2>1. \A q \in Profiles : q # p => loop'[q] = loop[q]
    BY <1>4, SetOwn DEF Match
  <2>2. loop'[p].from = loop[p].from /\ loop'[p].src = src
    BY <1>4, MatchOwn
  <2> QED BY <1>4, <2>1, <2>2 DEF SourceIsSender
<1>5. CASE Receive(p)
  BY <1>1, <1>3, <1>5 DEF Receive
<1>6. CASE GetFragmentMiss(p)
  <2>1. FragsOwn'
    BY <1>6, Types, Keys DEF GetFragmentMiss, FragsOwn, NoFrag, fragmentKey
  <2> QED BY <1>2, <1>6, <2>1 DEF GetFragmentMiss
<1>7. CASE GetFragment(p)
  <2> DEFINE eff == frags[FragKeyOf(p)].eff
             src == IF eff = NoAddr THEN loop[p].from ELSE eff
             new == [loop[p] EXCEPT !.pc = "write", !.src = src]
  <2>1. loop[p] \in LoopBusy /\ FragKeyOf(p) = <<p, loop[p].from, loop[p].id>>
    BY <1>7, LoopKeys DEF GetFragment
  <2>2. eff \in {NoAddr, Lease[<<p, loop[p].from>>]}
    BY <2>1 DEF FragsOwn, LoopBusy
  <2>3. new.from = loop[p].from /\ new.src = src
    BY <2>1 DEF LoopBusy
  <2>4. Set(p, new)
    BY <1>7 DEF GetFragment
  <2> QED BY <1>1, <1>3, <1>7, <2>2, <2>3, <2>4 DEF GetFragment
<1>8. CASE TouchFlow(p)
  BY <1>3, <1>4, <1>8 DEF TouchFlow
<1>9. CASE TouchFlowMiss(p)
  <2>1. [loop[p] EXCEPT !.pc = "lookup", !.conv = NoConv].pc = "lookup"
    BY <1>9, LoopKeys DEF TouchFlowMiss, LoopBusy
  <2> QED BY <1>1, <1>3, <1>9, <2>1 DEF TouchFlowMiss
<1>10. CASE Lookup(p)
  BY <1>3, <1>4, <1>10 DEF Lookup
<1>11. CASE LookupMiss(p)
  BY <1>2, <1>3, <1>11 DEF LookupMiss
<1>12. CASE PutFragment(p)
  <2> DEFINE new == [loop[p] EXCEPT !.pc = "write", !.mf = FALSE]
             eff == IF loop[p].src = loop[p].from THEN NoAddr ELSE loop[p].src
  <2>1. loop[p] \in LoopBusy /\ FragKeyOf(p) = <<p, loop[p].from, loop[p].id>>
    BY <1>12, LoopKeys DEF PutFragment
  <2>2. loop[p].src \in {loop[p].from, Lease[<<p, loop[p].from>>]}
    BY <1>12 DEF PutFragment, SourceIsSender
  <2>3. new.from = loop[p].from /\ new.src = loop[p].src
    BY <2>1 DEF LoopBusy
  <2>4. Set(p, new)
    BY <1>12 DEF PutFragment
  <2>5. SourceIsSender'
    BY <1>1, <2>2, <2>3, <2>4
  <2>6. FragsOwn'
    <3>1. SUFFICES ASSUME NEW q \in Profiles, NEW x \in Canonicals, NEW i \in FragIds
                   PROVE  frags'[<<q, x, i>>].eff \in {NoAddr, Lease[<<q, x>>]}
      BY DEF FragsOwn
    <3>2. <<q, x, i>> \in FragKeys
      BY Keys DEF fragmentKey
    <3>3. \/ /\ <<q, x, i>> = <<p, loop[p].from, loop[p].id>>
             /\ frags'[<<q, x, i>>] = [st |-> "live", eff |-> eff]
          \/ frags'[<<q, x, i>>] = NoFrag
          \/ frags'[<<q, x, i>>] = frags[<<q, x, i>>]
      BY <1>12, <2>1, <3>2 DEF PutFragment
    <3> QED BY <2>2, <3>3 DEF FragsOwn, NoFrag
  <2> QED BY <2>5, <2>6
<1>13. CASE WritePacket(p)
  BY <1>2, <1>3, <1>13 DEF WritePacket
<1> QED BY <1>5, <1>6, <1>7, <1>8, <1>9, <1>10, <1>11, <1>12, <1>13 DEF profileLoop

\* Every step keeps SenderInv.
LEMMA SenderStep ==
  ASSUME SenderInv, [Next]_vars
  PROVE  SenderInv'
<1> USE DEF SenderInv
<1>1. CASE hostLoop
  BY <1>1, HostTyped DEF hostLoop, HostRead, AddFlowNoKey, AddFlowFull, AddFlow, HostInject,
                         FragsOwn, SourceIsSender
<1>2. ASSUME NEW p \in Profiles, profileLoop(p) PROVE SenderInv'
  BY <1>2, LoopTyped, LoopSender
<1>3. CASE Update
  <2>1. loop' = loop
    BY <1>3 DEF Update, UpdateSwap, PurgeFlows, PurgeFragments, ensureProfileLoops
  <2>2. \A k \in FragKeys : frags'[k] \in {frags[k], NoFrag}
    <3>1. CASE PurgeFragments
      BY <3>1 DEF PurgeFragments
    <3>2. CASE UpdateSwap \/ PurgeFlows \/ ensureProfileLoops
      BY <3>2 DEF UpdateSwap, PurgeFlows, ensureProfileLoops
    <3> QED BY <1>3, <3>1, <3>2 DEF Update
  <2>3. FragsOwn'
    <3>1. SUFFICES ASSUME NEW q \in Profiles, NEW x \in Canonicals, NEW i \in FragIds
                   PROVE  frags'[<<q, x, i>>].eff \in {NoAddr, Lease[<<q, x>>]}
      BY DEF FragsOwn
    <3>2. frags'[<<q, x, i>>] \in {frags[<<q, x, i>>], NoFrag}
      BY <2>2, Keys DEF fragmentKey
    <3> QED BY <3>2 DEF FragsOwn, NoFrag
  <2> QED BY <1>3, <2>1, <2>3, UpdateTyped DEF SourceIsSender
<1>4. CASE FlowTimeout \/ FragmentTimeout
  <2>1. loop' = loop
    BY <1>4 DEF FlowTimeout, FragmentTimeout
  <2>2. \A k \in FragKeys : frags'[k].eff = frags[k].eff
    BY <1>4, Types DEF FlowTimeout, FragmentTimeout, LiveFrags, FragStates
  <2>3. FragsOwn'
    BY <2>2, Keys DEF FragsOwn, fragmentKey
  <2> QED BY <1>4, <2>1, <2>3, TimeoutTyped DEF SourceIsSender
<1>5. CASE UNCHANGED vars
  BY <1>5 DEF vars, TypeOK, FragsOwn, SourceIsSender
<1> QED BY <1>1, <1>2, <1>3, <1>4, <1>5 DEF Next

\* The inductive invariant from which the others start.
LEMMA SenderInvariant == Spec => []SenderInv
<1>1. Init => SenderInv
  <2> SUFFICES ASSUME Init PROVE SenderInv
    OBVIOUS
  <2>1. FragsOwn
    BY Keys DEF Init, FragsOwn, NoFrag, fragmentKey
  <2>2. SourceIsSender
    BY DEF Init, SourceIsSender, LoopIdle
  <2> QED BY <2>1, <2>2, InitTyped DEF SenderInv
<1>2. SenderInv /\ [Next]_vars => SenderInv'
  BY SenderStep
<1> QED BY <1>1, <1>2, PTL DEF Spec

\* TypeOK: the mux's bindings, tables, packets and its Update have their types.
THEOREM MuxTypes == Spec => []TypeOK
<1>1. SenderInv => TypeOK
  BY DEF SenderInv
<1> QED BY <1>1, SenderInvariant, PTL

\* SourceIsSender: profileLoop writes a packet to the host under its own sender's
\* canonical or effective address, for any interleaving with Update and the
\* other loops, later fragments included.
THEOREM SourceIsAlwaysSender == Spec => []SourceIsSender
<1>1. SenderInv => SourceIsSender
  BY DEF SenderInv
<1> QED BY <1>1, SenderInvariant, PTL

-----------------------------------------------------------------------------
\* An opened conversation stays opened.
LEMMA OpenedGrows ==
  ASSUME [Next]_vars
  PROVE  opened \subseteq opened'
<1>1. CASE hostLoop
  BY <1>1 DEF hostLoop, HostRead, AddFlowNoKey, AddFlowFull, AddFlow, HostInject
<1>2. ASSUME NEW p \in Profiles, profileLoop(p) PROVE opened' = opened
  BY <1>2 DEF profileLoop, Receive, GetFragmentMiss, GetFragment, TouchFlow, TouchFlowMiss,
              Lookup, LookupMiss, PutFragment, WritePacket
<1>3. CASE Update
  BY <1>3 DEF Update, UpdateSwap, PurgeFlows, PurgeFragments, ensureProfileLoops
<1>4. CASE FlowTimeout \/ FragmentTimeout \/ UNCHANGED vars
  BY <1>4 DEF FlowTimeout, FragmentTimeout, vars
<1> QED BY <1>1, <1>2, <1>3, <1>4 DEF Next

\* An entry of the flow table appears only when addFlow opens its conversation.
LEMMA FlowsChange ==
  ASSUME TypeOK, [Next]_vars, NEW k \in FlowKeys, flows'[k] # "none"
  PROVE  flows[k] # "none" \/ (AddFlow /\ k \in opened' /\ k[1] = host.target[1])
<1> USE Types
<1>1. CASE HostRead \/ AddFlowNoKey \/ HostInject
  BY <1>1 DEF HostRead, AddFlowNoKey, HostInject
<1>2. CASE AddFlowFull
  BY <1>2 DEF AddFlowFull
<1>3. CASE AddFlow
  <2> DEFINE key == flowKey(host.target[1], host.target[2], host.conv)
  <2>1. key[1] = host.target[1]
    BY DEF flowKey
  <2>2. k = key \/ flows'[k] = "none" \/ flows'[k] = flows[k]
    BY <1>3 DEF AddFlow
  <2>3. key \in opened'
    BY <1>3 DEF AddFlow
  <2> QED BY <1>3, <2>1, <2>2, <2>3
<1>4. ASSUME NEW p \in Profiles, profileLoop(p) PROVE flows[k] # "none"
  <2>1. CASE TouchFlowMiss(p)
    BY <2>1 DEF TouchFlowMiss
  <2>2. CASE ~TouchFlowMiss(p)
    BY <1>4, <2>2 DEF profileLoop, Receive, GetFragmentMiss, GetFragment, TouchFlow,
                      Lookup, LookupMiss, PutFragment, WritePacket
  <2> QED BY <2>1, <2>2
<1>5. CASE Update
  <2>1. CASE PurgeFlows
    BY <2>1 DEF PurgeFlows
  <2>2. CASE UpdateSwap \/ PurgeFragments \/ ensureProfileLoops
    BY <2>2 DEF UpdateSwap, PurgeFragments, ensureProfileLoops
  <2> QED BY <1>5, <2>1, <2>2 DEF Update
<1>6. CASE FlowTimeout
  BY <1>6 DEF FlowTimeout, Live
<1>7. CASE FragmentTimeout \/ UNCHANGED vars
  BY <1>7 DEF FragmentTimeout, vars
<1> QED BY <1>1, <1>2, <1>3, <1>4, <1>5, <1>6, <1>7 DEF Next, hostLoop

\* An entry of the fragment table appears or is overwritten only by putFragment,
\* with the source of the loop's packet.
LEMMA FragsChange ==
  ASSUME TypeOK, [Next]_vars, NEW k \in FragKeys, frags'[k].st # "none"
  PROVE  \/ frags[k].st # "none" /\ frags'[k].eff = frags[k].eff
            /\ (frags'[k].st = "live" => frags[k].st = "live")
         \/ \E p \in Profiles :
              /\ PutFragment(p)
              /\ k = <<p, loop[p].from, loop[p].id>>
              /\ frags'[k].eff = NoAddr => loop[p].src \in {loop[p].from, NoAddr}
<1> USE Types
<1>0. NoFrag.st = "none"
  BY DEF NoFrag
<1>1. CASE hostLoop
  BY <1>1 DEF hostLoop, HostRead, AddFlowNoKey, AddFlowFull, AddFlow, HostInject
<1>2. ASSUME NEW p \in Profiles, GetFragmentMiss(p)
      PROVE  frags'[k] = frags[k]
  BY <1>0, <1>2 DEF GetFragmentMiss
<1>3. ASSUME NEW p \in Profiles, PutFragment(p)
      PROVE  \/ frags'[k] = frags[k]
             \/ /\ k = <<p, loop[p].from, loop[p].id>>
                /\ frags'[k].eff = NoAddr => loop[p].src \in {loop[p].from, NoAddr}
  <2> DEFINE eff == IF loop[p].src = loop[p].from THEN NoAddr ELSE loop[p].src
  <2>1. \/ k = FragKeyOf(p) /\ frags'[k] = [st |-> "live", eff |-> eff]
        \/ frags'[k] = NoFrag
        \/ frags'[k] = frags[k]
    BY <1>3 DEF PutFragment
  <2> QED BY <1>0, <2>1 DEF FragKeyOf, fragmentKey
<1>4. ASSUME NEW p \in Profiles, profileLoop(p), ~GetFragmentMiss(p), ~PutFragment(p)
      PROVE  frags' = frags
  BY <1>4 DEF profileLoop, Receive, GetFragment, TouchFlow, TouchFlowMiss,
              Lookup, LookupMiss, WritePacket
<1>5. CASE Update
  <2>1. CASE PurgeFragments
    BY <1>0, <2>1 DEF PurgeFragments
  <2>2. CASE UpdateSwap \/ PurgeFlows \/ ensureProfileLoops
    BY <2>2 DEF UpdateSwap, PurgeFlows, ensureProfileLoops
  <2> QED BY <1>5, <2>1, <2>2 DEF Update
<1>6. CASE FragmentTimeout
  BY <1>6 DEF FragmentTimeout, LiveFrags, FragStates
<1>7. CASE FlowTimeout \/ UNCHANGED vars
  BY <1>7 DEF FlowTimeout, vars
<1> QED BY <1>1, <1>2, <1>3, <1>4, <1>5, <1>6, <1>7 DEF Next

\* Only a profile's own loop changes its packet.
LEMMA LoopsChange ==
  ASSUME TypeOK, [Next]_vars, NEW q \in Profiles, loop'[q] # loop[q]
  PROVE  profileLoop(q)
<1>1. ~hostLoop
  BY DEF hostLoop, HostRead, AddFlowNoKey, AddFlowFull, AddFlow, HostInject
<1>2. ~Update
  BY DEF Update, UpdateSwap, PurgeFlows, PurgeFragments, ensureProfileLoops
<1>3. ~(FlowTimeout \/ FragmentTimeout \/ UNCHANGED vars)
  BY DEF FlowTimeout, FragmentTimeout, vars
<1>4. PICK p \in Profiles : profileLoop(p)
  BY <1>1, <1>2, <1>3 DEF Next
<1>5. \E r : Set(p, r)
  BY <1>4 DEF profileLoop, Receive, GetFragmentMiss, GetFragment, TouchFlow, TouchFlowMiss,
              Match, Lookup, LookupMiss, PutFragment, WritePacket
<1>6. p = q
  BY <1>5, SetOwn
<1> QED BY <1>4, <1>6


\* A packet under another address than its lease belongs to an opened conversation.
CanonicalOf(p) ==
  loop[p].pc \in {"putFragment", "write"} =>
    (loop[p].src # Lease[<<p, loop[p].from>>] =>
       \E c \in Convs : /\ <<p, loop[p].from, c>> \in opened
                        /\ loop[p].conv \in {c, NoConv})

\* A step of a profile loop keeps CanonicalOnlyIfOpened for its packet.
LEMMA LoopOpened ==
  ASSUME SenderInv, OpenedInv, [Next]_vars, NEW p \in Profiles, profileLoop(p)
  PROVE  /\ CanonicalOf(p)'
         /\ loop'[p].pc = "getFragment" => loop'[p].conv = NoConv
<1> USE DEF SenderInv, OpenedInv
<1>0. opened \subseteq opened'
  BY OpenedGrows
<1>1. ASSUME NEW r, Set(p, r), r.pc \notin {"putFragment", "write", "getFragment"}
      PROVE  /\ CanonicalOf(p)'
             /\ loop'[p].pc = "getFragment" => loop'[p].conv = NoConv
  <2>1. loop'[p] = r
    BY <1>1, SetOwn
  <2> QED BY <1>1, <2>1 DEF CanonicalOf
<1>2. CASE Receive(p)
  <2>1. \/ loop'[p].pc = "touchFlow"
        \/ loop'[p].pc = "getFragment" /\ loop'[p].conv = NoConv
    BY <1>2, SetOwn DEF Receive
  <2> QED BY <2>1 DEF CanonicalOf
<1>3. CASE GetFragmentMiss(p) \/ LookupMiss(p) \/ WritePacket(p)
  BY <1>1, <1>3 DEF GetFragmentMiss, LookupMiss, WritePacket, LoopIdle
<1>4. CASE GetFragment(p)
  <2> DEFINE k == <<p, loop[p].from, loop[p].id>>
             src == IF frags[k].eff = NoAddr THEN loop[p].from ELSE frags[k].eff
             new == [loop[p] EXCEPT !.pc = "write", !.src = src]
  <2>1. loop[p] \in LoopBusy /\ FragKeyOf(p) = k
    BY <1>4, LoopKeys DEF GetFragment
  <2>2. loop'[p] = new
    BY <1>4, <2>1, SetOwn DEF GetFragment
  <2>3. /\ new.pc = "write" /\ new.src = src
        /\ new.from = loop[p].from /\ new.conv = loop[p].conv
    BY <2>1 DEF LoopBusy
  <2>4. loop[p].conv = NoConv
    BY <1>4 DEF GetFragment, LaterHasNoPorts
  <2>5. loop[p].from \in Canonicals /\ loop[p].id \in FragIds
    BY <2>1 DEF LoopBusy
  <2>6. ASSUME src # Lease[<<p, loop[p].from>>]
        PROVE  frags[k].eff = NoAddr /\ Lease[<<p, loop[p].from>>] # loop[p].from
    <3>1. frags[k].eff \in {NoAddr, Lease[<<p, loop[p].from>>]}
      BY <2>5 DEF FragsOwn
    <3> QED BY <2>6, <3>1
  <2>7. frags[k].st = "live"
    BY <1>4, <2>1 DEF GetFragment
  <2>8. src # Lease[<<p, loop[p].from>>] => \E c \in Convs : <<p, loop[p].from, c>> \in opened
    BY <2>5, <2>6, <2>7 DEF FragsOpened
  <2> HIDE DEF src, new
  <2> QED BY <1>0, <2>2, <2>3, <2>4, <2>8 DEF CanonicalOf
<1>5. CASE TouchFlow(p)
  <2>1. /\ loop[p] \in LoopBusy /\ FlowKeyOf(p) \in FlowKeys
        /\ FlowKeyOf(p) = <<p, loop[p].from, loop[p].conv>>
    BY <1>5, LoopKeys DEF TouchFlow
  <2>2. <<p, loop[p].from, loop[p].conv>> \in opened
    BY <1>5, <2>1 DEF TouchFlow, FlowsOpened
  <2>3. loop[p].conv \in Convs
    BY <1>5, <2>1 DEF TouchFlow, LoopBusy
  <2>4. /\ loop'[p].from = loop[p].from /\ loop'[p].conv = loop[p].conv
        /\ loop'[p].pc # "getFragment"
    BY <1>5, MatchOwn DEF TouchFlow
  <2> QED BY <1>0, <2>2, <2>3, <2>4 DEF CanonicalOf
<1>6. CASE TouchFlowMiss(p)
  <2>1. [loop[p] EXCEPT !.pc = "lookup", !.conv = NoConv].pc = "lookup"
    BY <1>6, LoopKeys DEF TouchFlowMiss, LoopBusy
  <2> QED BY <1>1, <1>6, <2>1 DEF TouchFlowMiss
<1>7. CASE Lookup(p)
  <2>1. /\ loop'[p].from = loop[p].from /\ loop'[p].src = Lease[<<p, loop[p].from>>]
        /\ loop'[p].pc # "getFragment"
    BY <1>7, MatchOwn DEF Lookup
  <2> QED BY <2>1 DEF CanonicalOf
<1>8. CASE PutFragment(p)
  <2> DEFINE new == [loop[p] EXCEPT !.pc = "write", !.mf = FALSE]
  <2>1. loop[p] \in LoopBusy
    BY <1>8, LoopKeys DEF PutFragment
  <2>2. loop'[p] = new
    BY <1>8, SetOwn DEF PutFragment
  <2>3. /\ new.pc = "write" /\ new.src = loop[p].src
        /\ new.from = loop[p].from /\ new.conv = loop[p].conv
    BY <2>1 DEF LoopBusy
  <2>4. CanonicalOf(p) /\ loop[p].pc = "putFragment"
    BY <1>8 DEF PutFragment, CanonicalOnlyIfOpened, CanonicalOf
  <2> HIDE DEF new
  <2> QED BY <1>0, <2>2, <2>3, <2>4 DEF CanonicalOf
<1> QED BY <1>2, <1>3, <1>4, <1>5, <1>6, <1>7, <1>8 DEF profileLoop

\* Every step keeps OpenedInv.
LEMMA OpenedStep ==
  ASSUME SenderInv, OpenedInv, [Next]_vars
  PROVE  OpenedInv'
<1> USE DEF SenderInv, OpenedInv
<1>0. opened \subseteq opened'
  BY OpenedGrows
<1>1. FlowsOpened'
  BY <1>0, FlowsChange DEF FlowsOpened
<1>2. FragsOpened'
  <2>1. SUFFICES ASSUME NEW q \in Profiles, NEW x \in Canonicals, NEW i \in FragIds,
                        frags'[<<q, x, i>>].st = "live", frags'[<<q, x, i>>].eff = NoAddr,
                        Lease[<<q, x>>] # x
                 PROVE  \E c \in Convs : <<q, x, c>> \in opened'
    BY DEF FragsOpened
  <2>2. <<q, x, i>> \in FragKeys
    BY Keys DEF fragmentKey
  <2>3. CASE frags[<<q, x, i>>].st = "live" /\ frags[<<q, x, i>>].eff = NoAddr
    BY <1>0, <2>1, <2>3 DEF FragsOpened
  <2>4. ASSUME NEW p \in Profiles, PutFragment(p),
               <<q, x, i>> = <<p, loop[p].from, loop[p].id>>,
               loop[p].src \in {loop[p].from, NoAddr}
        PROVE  \E c \in Convs : <<q, x, c>> \in opened'
    <3>1. p = q /\ x = loop[p].from
      BY <2>4
    <3>2. loop[p].src # NoAddr
      <4>1. loop[p].src \in {loop[p].from, Lease[<<p, loop[p].from>>]}
        BY <2>4 DEF PutFragment, SourceIsSender
      <4>2. <<p, loop[p].from>> \in Targets /\ loop[p].from \in Canonicals
        BY <2>4, LoopKeys DEF PutFragment
      <4> QED BY <4>1, <4>2, LeaseAssumption
    <3>3. loop[p].src # Lease[<<p, loop[p].from>>]
      BY <2>1, <2>4, <3>1, <3>2
    <3>4. \E c \in Convs : <<p, loop[p].from, c>> \in opened
      BY <2>4, <3>2, <3>3 DEF PutFragment, CanonicalOnlyIfOpened
    <3> QED BY <1>0, <3>1, <3>4
  <2> QED BY <2>1, <2>2, <2>3, <2>4, FragsChange
<1>3. ASSUME NEW q \in Profiles
      PROVE  CanonicalOf(q)' /\ (loop'[q].pc = "getFragment" => loop'[q].conv = NoConv)
  <2>1. CASE loop'[q] = loop[q]
    <3>1. CanonicalOf(q)
      BY DEF CanonicalOnlyIfOpened, CanonicalOf
    <3> QED BY <1>0, <2>1, <3>1 DEF CanonicalOf, LaterHasNoPorts
  <2>2. CASE loop'[q] # loop[q]
    BY <2>2, LoopsChange, LoopOpened
  <2> QED BY <2>1, <2>2
<1>4. CanonicalOnlyIfOpened' /\ LaterHasNoPorts'
  BY <1>3 DEF CanonicalOnlyIfOpened, CanonicalOf, LaterHasNoPorts
<1> QED BY <1>1, <1>2, <1>4

\* CanonicalOnlyIfOpened: whatever the leases are, canonical addresses included,
\* unsolicited traffic never reaches the host under another address than its sender's
\* lease, however the table entries, timeouts and purges interleave.
THEOREM CanonicalIsAlwaysOpened == Spec => []CanonicalOnlyIfOpened
<1>1. Init => OpenedInv
  <2> SUFFICES ASSUME Init PROVE OpenedInv
    OBVIOUS
  <2>1. FlowsOpened /\ FragsOpened
    <3>1. \A k \in FragKeys : frags[k].st = "none"
      BY DEF Init, NoFrag
    <3>2. \A k \in FlowKeys : flows[k] = "none"
      BY DEF Init
    <3> QED BY <3>1, <3>2, Keys DEF FlowsOpened, FragsOpened, fragmentKey
  <2>2. LaterHasNoPorts /\ CanonicalOnlyIfOpened
    BY DEF Init, LaterHasNoPorts, CanonicalOnlyIfOpened, LoopIdle
  <2> QED BY <2>1, <2>2 DEF OpenedInv
<1>2. SenderInv /\ OpenedInv /\ [Next]_vars => OpenedInv'
  BY OpenedStep
<1>3. OpenedInv => CanonicalOnlyIfOpened
  BY DEF OpenedInv
<1> QED BY <1>1, <1>2, <1>3, SenderInvariant, PTL DEF Spec

-----------------------------------------------------------------------------
\* A part of a set of at most n elements has at most n elements.
LEMMA PartIsSmaller ==
  ASSUME NEW S, NEW T, S \subseteq T, IsFiniteSet(T), NEW n \in Nat, Cardinality(T) <= n
  PROVE  IsFiniteSet(S) /\ Cardinality(S) <= n
<1>1. IsFiniteSet(S) /\ Cardinality(S) <= Cardinality(T)
  BY FS_Subset
<1>2. Cardinality(S) \in Nat /\ Cardinality(T) \in Nat
  BY <1>1, FS_CardinalityType
<1> QED BY <1>1, <1>2

\* One more element than a set with room for it.
LEMMA RoomForOne ==
  ASSUME NEW S, NEW T, NEW e, S \subseteq T \cup {e}, IsFiniteSet(T),
         NEW n \in Nat, Cardinality(T) < n
  PROVE  IsFiniteSet(S) /\ Cardinality(S) <= n
<1>1. IsFiniteSet(T \cup {e}) /\ Cardinality(T \cup {e}) \in {Cardinality(T), Cardinality(T) + 1}
  BY FS_AddElement
<1>2. Cardinality(T) \in Nat
  BY FS_CardinalityType
<1>3. Cardinality(T \cup {e}) <= n
  BY <1>1, <1>2
<1> QED BY <1>1, <1>3, PartIsSmaller

\* Every step keeps BoundedInv.
LEMMA BoundedStep ==
  ASSUME SenderInv, BoundedInv, [Next]_vars
  PROVE  BoundedInv'
<1> USE DEF SenderInv, BoundedInv
<1>0. MaxFlows \in Nat /\ MaxFrags \in Nat
  BY LimitAssumption
<1>1. IsFiniteSet(UsedFlows') /\ Cardinality(UsedFlows') <= MaxFlows
  <2>1. CASE ~AddFlow
    <3>1. UsedFlows' \subseteq UsedFlows
      BY <2>1, FlowsChange DEF UsedFlows
    <3> QED BY <1>0, <3>1, PartIsSmaller
  <2>2. CASE AddFlow
    <3> DEFINE key == flowKey(host.target[1], host.target[2], host.conv)
    <3>1. UsedFlows' \subseteq Live(flows) \cup {key}
      <4>1. SUFFICES ASSUME NEW k \in FlowKeys, flows'[k] # "none", k # key
                     PROVE  flows[k] = "live"
        BY Types DEF UsedFlows, Live
      <4>2. flows[k] # "idle" /\ flows'[k] = flows[k]
        BY <2>2, <4>1 DEF AddFlow
      <4> QED BY <4>1, <4>2, Types DEF EntryStates
    <3>2. Live(flows) \subseteq UsedFlows
      BY Types DEF Live, UsedFlows
    <3>3. IsFiniteSet(Live(flows)) /\ Cardinality(Live(flows)) < MaxFlows
      BY <1>0, <2>2, <3>2, PartIsSmaller DEF AddFlow
    <3> HIDE DEF key
    <3> QED BY <1>0, <3>1, <3>3, RoomForOne
  <2> QED BY <2>1, <2>2
<1>2. IsFiniteSet(UsedFrags') /\ Cardinality(UsedFrags') <= MaxFrags
  <2>1. CASE \A p \in Profiles : ~PutFragment(p)
    <3>1. UsedFrags' \subseteq UsedFrags
      BY <2>1, FragsChange DEF UsedFrags
    <3> QED BY <1>0, <3>1, PartIsSmaller
  <2>2. ASSUME NEW p \in Profiles, PutFragment(p)
        PROVE  IsFiniteSet(UsedFrags') /\ Cardinality(UsedFrags') <= MaxFrags
    <3> DEFINE full == Cardinality(LiveFrags) >= MaxFrags
               eff == IF loop[p].src = loop[p].from THEN NoAddr ELSE loop[p].src
    <3>1. LiveFrags \subseteq UsedFrags
      BY DEF LiveFrags, UsedFrags
    <3>2. IsFiniteSet(LiveFrags) /\ Cardinality(LiveFrags) <= MaxFrags
      BY <1>0, <3>1, PartIsSmaller
    <3>3. frags' = [k \in FragKeys |->
              IF k = FragKeyOf(p) /\ ~full THEN [st |-> "live", eff |-> eff]
              ELSE IF frags[k].st = "idle" THEN NoFrag ELSE frags[k]]
      BY <2>2 DEF PutFragment
    <3> HIDE DEF full, eff
    <3>4. ASSUME NEW k \in FragKeys, frags'[k].st # "none", ~(k = FragKeyOf(p) /\ ~full)
          PROVE  k \in LiveFrags
      <4>1. frags[k].st # "idle" /\ frags'[k] = frags[k]
        BY <3>3, <3>4 DEF NoFrag
      <4>2. frags[k].st \in EntryStates
        BY Types DEF FragStates
      <4> QED BY <3>4, <4>1, <4>2 DEF EntryStates, LiveFrags
    <3>5. CASE full
      <4>1. UsedFrags' \subseteq LiveFrags
        BY <3>4, <3>5 DEF UsedFrags
      <4> QED BY <1>0, <3>2, <4>1, PartIsSmaller
    <3>6. CASE ~full
      <4>1. UsedFrags' \subseteq LiveFrags \cup {FragKeyOf(p)}
        BY <3>4, <3>6 DEF UsedFrags
      <4>2. Cardinality(LiveFrags) < MaxFrags
        BY <1>0, <3>2, <3>6, FS_CardinalityType DEF full
      <4> QED BY <1>0, <3>2, <4>1, <4>2, RoomForOne
    <3> QED BY <3>5, <3>6
  <2> QED BY <2>1, <2>2
<1> QED BY <1>1, <1>2

\* TablesBounded: neither table outgrows its limit, whatever it is, also while
\* idle entries wait for the next addFlow or putFragment to expire them.
THEOREM TablesStayBounded == Spec => []TablesBounded
<1>1. Init => BoundedInv
  <2> SUFFICES ASSUME Init PROVE BoundedInv
    OBVIOUS
  <2>1. UsedFlows = {} /\ UsedFrags = {}
    BY DEF Init, UsedFlows, UsedFrags, NoFrag
  <2> QED BY <2>1, FS_EmptySet, LimitAssumption DEF BoundedInv
<1>2. SenderInv /\ BoundedInv /\ [Next]_vars => BoundedInv'
  BY BoundedStep
<1>3. BoundedInv => TablesBounded
  BY DEF BoundedInv, TablesBounded, UsedFlows, UsedFrags
<1> QED BY <1>1, <1>2, <1>3, SenderInvariant, PTL DEF Spec

-----------------------------------------------------------------------------
\* Who may have a packet in flight after a step: a bound profile, or one that had
\* a packet in flight already.
LEMMA FlightStarts ==
  ASSUME TypeOK, BoundTargets, [Next]_vars, NEW q \in Profiles, InFlight(q)'
  PROVE  InFlight(q) \/ (q \in bind.profiles /\ bind' = bind)
<1>1. CASE host' # host /\ host'.pc = "addFlow" /\ host'.target[1] = q
  <2>1. ~Update /\ ~FlowTimeout /\ ~FragmentTimeout /\ ~UNCHANGED vars
    BY <1>1 DEF Update, UpdateSwap, PurgeFlows, PurgeFragments, ensureProfileLoops,
                FlowTimeout, FragmentTimeout, vars
  <2>2. \A p \in Profiles : ~profileLoop(p)
    BY <1>1 DEF profileLoop, Receive, GetFragmentMiss, GetFragment, TouchFlow, TouchFlowMiss,
                Lookup, LookupMiss, PutFragment, WritePacket
  <2>3. ~AddFlowNoKey /\ ~AddFlowFull /\ ~HostInject
    BY <1>1 DEF AddFlowNoKey, AddFlowFull, HostInject, HostIdle
  <2>4. ~AddFlow
    <3>1. SUFFICES ASSUME AddFlow PROVE host'.pc = "inject"
      BY <1>1
    <3>2. host \in HostBusy
      BY <3>1, Types, Busy DEF AddFlow
    <3> QED BY <3>1, <3>2 DEF AddFlow, HostBusy
  <2>5. HostRead
    BY <2>1, <2>2, <2>3, <2>4 DEF Next, hostLoop
  <2>6. PICK dst \in Addresses, t \in Targets, c \in Headers, later \in BOOLEAN :
          /\ Finds(dst, t)
          /\ host' = IF dst # Lease[t] /\ ~later
                     THEN [pc |-> "addFlow", target |-> t, conv |-> c]
                     ELSE [pc |-> "inject", target |-> t, conv |-> NoConv]
    BY <2>5 DEF HostRead
  <2>7. host'.target = t
    BY <2>6
  <2>8. t \in bind.targets
    <3>1. t = <<t[1], t[2]>>
      BY Keys
    <3> QED BY <2>6, <3>1 DEF Finds, RawOwner
  <2> QED BY <1>1, <2>5, <2>7, <2>8 DEF BoundTargets, HostRead
<1>2. CASE loop'[q] # loop[q] /\ loop'[q].pc \notin {"idle", "write"}
  <2>1. profileLoop(q)
    BY <1>2, LoopsChange
  <2>2. CASE Receive(q)
    BY <2>2 DEF Receive
  <2>3. CASE loop[q].pc \notin {"idle", "write"}
    BY <2>3 DEF InFlight
  <2>4. ~WritePacket(q)
    BY <1>2, SetOwn DEF WritePacket, LoopIdle
  <2> QED BY <2>1, <2>2, <2>3, <2>4 DEF profileLoop, GetFragmentMiss, GetFragment, TouchFlow,
                TouchFlowMiss, Lookup, LookupMiss, PutFragment
<1> QED BY <1>1, <1>2 DEF InFlight

\* Swapping the bindings: whoever is no longer accounted for has nothing in
\* flight and is about to be purged.
LEMMA SwapAccounts ==
  ASSUME TypeOK, UpdateSwap, NEW q \in Accounted, q \notin Accounted'
  PROVE  ~InFlight(q) /\ upd'.pc = "flows" /\ q \in upd'.removed
<1>1. PICK T \in SUBSET Targets, P \in SUBSET Profiles :
        /\ bind' = New(T, P)
        /\ upd' = [pc |-> IF bind.profiles \subseteq P THEN "loops" ELSE "flows",
                   removed |-> bind.profiles \ P, profiles |-> P]
        /\ raced' = (raced \ P) \cup {p \in bind.profiles \ P : InFlight(p)}
  BY DEF UpdateSwap
<1>2. bind'.profiles = P
  BY <1>1 DEF New
<1>3. q \in bind.profiles /\ q \notin P /\ ~InFlight(q)
  BY <1>1, <1>2 DEF Accounted
<1> QED BY <1>1, <1>3

\* Every step keeps PurgeInv.
LEMMA PurgeStep ==
  ASSUME SenderInv, PurgeInv, [Next]_vars
  PROVE  PurgeInv'
<1> USE DEF SenderInv, PurgeInv
<1>1. CASE ~UpdateSwap
  <2>1. bind' = bind /\ raced' = raced
    <3>1. CASE hostLoop
      BY <3>1 DEF hostLoop, HostRead, AddFlowNoKey, AddFlowFull, AddFlow, HostInject
    <3>2. ASSUME NEW p \in Profiles, profileLoop(p) PROVE bind' = bind /\ raced' = raced
      BY <3>2 DEF profileLoop, Receive, GetFragmentMiss, GetFragment, TouchFlow,
                  TouchFlowMiss, Lookup, LookupMiss, PutFragment, WritePacket
    <3>3. CASE PurgeFlows \/ PurgeFragments \/ ensureProfileLoops
      BY <3>3 DEF PurgeFlows, PurgeFragments, ensureProfileLoops
    <3>4. CASE FlowTimeout \/ FragmentTimeout \/ UNCHANGED vars
      BY <3>4 DEF FlowTimeout, FragmentTimeout, vars
    <3> QED BY <1>1, <3>1, <3>2, <3>3, <3>4 DEF Next, Update
  <2>2. Accounted' = Accounted
    BY <2>1 DEF Accounted
  <2>3. BoundTargets'
    BY <2>1 DEF BoundTargets
  <2>4. PacketsInFlight'
    BY <2>2, FlightStarts DEF PacketsInFlight, Accounted
  <2>5. \A k \in FlowKeys : flows'[k] # "none" =>
          k[1] \in Accounted \/ (upd.pc = "flows" /\ k[1] \in upd.removed)
    <3>1. SUFFICES ASSUME NEW k \in FlowKeys, flows'[k] # "none", flows[k] = "none"
                   PROVE  k[1] \in Accounted
      BY DEF FlowsAccounted
    <3>2. host.pc = "addFlow" /\ k[1] = host.target[1]
      BY <3>1, FlowsChange DEF AddFlow
    <3>3. k[1] \in Profiles
      BY Keys
    <3> QED BY <3>2, <3>3 DEF PacketsInFlight, InFlight
  <2>6. \A k \in FragKeys : frags'[k].st # "none" =>
          k[1] \in Accounted \/ (upd.pc \in {"flows", "fragments"} /\ k[1] \in upd.removed)
    <3>1. SUFFICES ASSUME NEW k \in FragKeys, frags'[k].st # "none", frags[k].st = "none"
                   PROVE  k[1] \in Accounted
      BY DEF FragsAccounted
    <3>2. PICK p \in Profiles : PutFragment(p) /\ k = <<p, loop[p].from, loop[p].id>>
      BY <3>1, FragsChange
    <3>3. k[1] = p
      BY <3>2
    <3>4. InFlight(p)
      BY <3>2 DEF PutFragment, InFlight
    <3> QED BY <3>3, <3>4 DEF PacketsInFlight
  <2>7. CASE PurgeFlows
    <3>1. upd'.pc = "fragments" /\ upd'.removed = upd.removed
      BY <2>7, Types, Busy DEF PurgeFlows, UpdateBusy
    <3>2. \A k \in FlowKeys : flows'[k] # "none" => k[1] \notin upd.removed
      BY <2>7 DEF PurgeFlows
    <3>3. upd.pc = "flows"
      BY <2>7 DEF PurgeFlows
    <3>4. FlowsAccounted'
      BY <2>2, <2>5, <3>2 DEF FlowsAccounted
    <3>5. FragsAccounted'
      BY <2>2, <2>6, <3>1 DEF FragsAccounted
    <3> QED BY <2>3, <2>4, <3>4, <3>5
  <2>8. CASE PurgeFragments
    <3>1. \A k \in FragKeys : frags'[k].st # "none" => k[1] \notin upd.removed
      BY <2>8 DEF PurgeFragments, NoFrag
    <3>2. upd.pc = "fragments"
      BY <2>8 DEF PurgeFragments
    <3>3. FlowsAccounted'
      BY <2>2, <2>5, <3>2 DEF FlowsAccounted
    <3>4. FragsAccounted'
      BY <2>2, <2>6, <3>1 DEF FragsAccounted
    <3> QED BY <2>3, <2>4, <3>3, <3>4
  <2>9. CASE ensureProfileLoops
    <3>1. upd.pc = "loops"
      BY <2>9 DEF ensureProfileLoops
    <3>2. FlowsAccounted'
      BY <2>2, <2>5, <3>1 DEF FlowsAccounted
    <3>3. FragsAccounted'
      BY <2>2, <2>6, <3>1 DEF FragsAccounted
    <3> QED BY <2>3, <2>4, <3>2, <3>3
  <2>10. CASE upd' = upd
    <3>1. FlowsAccounted'
      BY <2>2, <2>5, <2>10 DEF FlowsAccounted
    <3>2. FragsAccounted'
      BY <2>2, <2>6, <2>10 DEF FragsAccounted
    <3> QED BY <2>3, <2>4, <3>1, <3>2
  <2>11. upd' = upd \/ Update
    <3>1. CASE hostLoop
      BY <3>1 DEF hostLoop, HostRead, AddFlowNoKey, AddFlowFull, AddFlow, HostInject
    <3>2. ASSUME NEW p \in Profiles, profileLoop(p) PROVE upd' = upd
      BY <3>2 DEF profileLoop, Receive, GetFragmentMiss, GetFragment, TouchFlow,
                  TouchFlowMiss, Lookup, LookupMiss, PutFragment, WritePacket
    <3>3. CASE FlowTimeout \/ FragmentTimeout \/ UNCHANGED vars
      BY <3>3 DEF FlowTimeout, FragmentTimeout, vars
    <3> QED BY <3>1, <3>2, <3>3 DEF Next
  <2> QED BY <1>1, <2>7, <2>8, <2>9, <2>10, <2>11 DEF Update
<1>2. CASE UpdateSwap
  <2>1. upd.pc = "idle" /\ flows' = flows /\ frags' = frags /\ host' = host /\ loop' = loop
    BY <1>2 DEF UpdateSwap
  <2>2. \A q \in Accounted : q \in Accounted' \/
          (~InFlight(q) /\ upd'.pc = "flows" /\ q \in upd'.removed)
    BY <1>2, SwapAccounts
  <2>3. BoundTargets'
    BY <1>2 DEF UpdateSwap, New, BoundTargets
  <2>4. PacketsInFlight'
    BY <2>1, <2>2 DEF PacketsInFlight, InFlight
  <2>5. FlowsAccounted'
    <3>1. \A k \in FlowKeys : flows[k] # "none" => k[1] \in Accounted
      BY <2>1 DEF FlowsAccounted
    <3> QED BY <2>1, <2>2, <3>1 DEF FlowsAccounted
  <2>6. FragsAccounted'
    <3>1. \A k \in FragKeys : frags[k].st # "none" => k[1] \in Accounted
      BY <2>1 DEF FragsAccounted
    <3> QED BY <2>1, <2>2, <3>1 DEF FragsAccounted
  <2> QED BY <2>3, <2>4, <2>5, <2>6
<1> QED BY <1>1, <1>2

\* PurgedUnlessInFlight: what purgeProfiles leaves behind of a withdrawn profile
\* was written by a loop that held a packet of it while the bindings were swapped.
THEOREM PurgedUnlessRaced == Spec => []PurgedUnlessInFlight
<1>1. Init => PurgeInv
  <2> SUFFICES ASSUME Init PROVE PurgeInv
    OBVIOUS
  <2>1. FlowsAccounted /\ FragsAccounted
    BY DEF Init, FlowsAccounted, FragsAccounted, NoFrag
  <2>2. PacketsInFlight
    BY DEF Init, PacketsInFlight, InFlight, LoopIdle, HostIdle
  <2>3. BoundTargets
    BY DEF Init, New, BoundTargets
  <2> QED BY <2>1, <2>2, <2>3 DEF PurgeInv
<1>2. SenderInv /\ PurgeInv /\ [Next]_vars => PurgeInv'
  BY PurgeStep
<1>3. PurgeInv => PurgedUnlessInFlight
  BY DEF PurgeInv, PurgedUnlessInFlight, FlowsAccounted, FragsAccounted, Accounted
<1> QED BY <1>1, <1>2, <1>3, SenderInvariant, PTL DEF Spec

\* ActiveNeverEvicted: addFlow and putFragment, on a full table, refuse the new
\* entry; an entry in use goes by a timeout or by the purge of its profile.
THEOREM ActiveStays == Spec => ActiveNeverEvicted
<1> DEFINE Keep == /\ \A k \in FlowKeys : flows[k] = "live" /\ flows'[k] = "none" =>
                        upd.pc = "flows" /\ k[1] \in upd.removed
                   /\ \A k \in FragKeys : frags[k].st = "live" /\ frags'[k].st = "none" =>
                        upd.pc = "fragments" /\ k[1] \in upd.removed
<1>1. SenderInv /\ [Next]_vars => [Keep]_vars
  <2> SUFFICES ASSUME SenderInv, Next PROVE Keep
    OBVIOUS
  <2> USE Types DEF SenderInv
  <2>1. CASE HostRead \/ AddFlowNoKey \/ HostInject
    BY <2>1 DEF HostRead, AddFlowNoKey, HostInject
  <2>2. CASE AddFlowFull
    BY <2>2 DEF AddFlowFull
  <2>3. CASE AddFlow
    BY <2>3 DEF AddFlow
  <2>4. ASSUME NEW p \in Profiles, profileLoop(p) PROVE Keep
    <3>1. CASE GetFragmentMiss(p)
      BY <3>1 DEF GetFragmentMiss, NoFrag
    <3>2. CASE TouchFlowMiss(p)
      BY <3>2 DEF TouchFlowMiss
    <3>3. CASE PutFragment(p)
      BY <3>3 DEF PutFragment, NoFrag
    <3>4. CASE Receive(p) \/ GetFragment(p) \/ TouchFlow(p) \/ Lookup(p) \/ LookupMiss(p)
               \/ WritePacket(p)
      BY <3>4 DEF Receive, GetFragment, TouchFlow, Lookup, LookupMiss, WritePacket
    <3> QED BY <2>4, <3>1, <3>2, <3>3, <3>4 DEF profileLoop
  <2>5. CASE PurgeFlows
    BY <2>5 DEF PurgeFlows
  <2>6. CASE PurgeFragments
    BY <2>6 DEF PurgeFragments
  <2>7. CASE UpdateSwap \/ ensureProfileLoops
    BY <2>7 DEF UpdateSwap, ensureProfileLoops
  <2>8. CASE FlowTimeout
    BY <2>8 DEF FlowTimeout
  <2>9. CASE FragmentTimeout
    BY <2>9 DEF FragmentTimeout, FragStates
  <2> QED BY <2>1, <2>2, <2>3, <2>4, <2>5, <2>6, <2>7, <2>8, <2>9 DEF Next, hostLoop, Update
<1> QED BY <1>1, SenderInvariant, PTL DEF Spec, ActiveNeverEvicted

===============================================================================
