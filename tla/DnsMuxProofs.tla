----------------------------- MODULE DnsMuxProofs -----------------------------
(***************************************************************************)
(* The merged DNS server, for any inventories, tables, questions and       *)
(* number of handlers.                                                     *)
(*                                                                         *)
(* Two arguments.  The tables catch up because a round that misses a       *)
(* change leaves a notification behind, or one that is still due: RoundInv *)
(* says what the snapshots of a round are worth while there is none.  A    *)
(* round that fails is the exception.  An answer fits the                  *)
(* tables because the tables are replaced only when no query is at an      *)
(* engine: the readers are exactly those queries, so AskedInv, which       *)
(* relates each of them to the tables, is never disturbed by Update.       *)
(***************************************************************************)
EXTENDS DnsMux, TLAPS

\* The shape of a handler's record, whatever its question and answer are.
QueryOK ==
  /\ query = [q \in Queries |-> query[q]]
  /\ \A q \in Queries :
       /\ query[q] = [pc |-> query[q].pc, question |-> query[q].question,
                      asked |-> query[q].asked, answer |-> query[q].answer]
       /\ query[q].pc \in {"idle", "lock", "upstream", "answered"}

\* The round's record is Resting, or has taken its first or both snapshots.
RoundOK ==
  /\ round = [pc |-> round.pc, targets |-> round.targets, leased |-> round.leased,
              failed |-> round.failed]
  /\ round.pc \in {"idle", "leases", "lock", "closed"} /\ round.failed \in BOOLEAN
  /\ round.pc \in {"leases", "lock"} => round.targets \in Inventories
  /\ round.pc = "lock" => round.leased \in Inventories
  /\ round.targets \cup round.leased \subseteq Targets

TablesOK ==
  /\ tables = [targets |-> tables.targets, leased |-> tables.leased]
  /\ tables.targets \in Inventories /\ tables.leased \in Inventories

\* The read lock is held exactly by the queries that wait for an engine.
ReadersInv == readers = {q \in Queries : query[q].pc = "upstream"}

\* As long as no notification waits or is due, what the round has taken is current,
\* and so are the tables when no round is under way and the last one did not fail.
RoundInv ==
  ~changed /\ due = {} =>
    /\ round.pc = "idle" /\ ~round.failed => tables.targets = inventory /\ tables.leased = inventory
    /\ round.pc \in {"leases", "lock"} => round.targets = inventory
    /\ round.pc = "lock" => round.leased = inventory

\* The tables would still send each question at an engine to that engine.
AskedInv ==
  \A q \in Queries : query[q].pc = "upstream" => query[q].asked \in Forward(query[q].question)

DnsInv ==
  /\ inventory \in Inventories /\ due \subseteq Profiles /\ changed \in BOOLEAN
  /\ QueryOK /\ RoundOK /\ TablesOK
  /\ ReadersInv /\ RoundInv /\ AskedInv

-----------------------------------------------------------------------------
\* What a step does to the query it is about, and to no other.

\* Answer: the handler's record is replaced by its answer.
LEMMA Answered ==
  ASSUME QueryOK, NEW q \in Queries, NEW a, Answer(q, a)
  PROVE  /\ QueryOK'
         /\ query'[q].pc = "answered" /\ query'[q].answer = a
         /\ \A r \in Queries : r # q => query'[r] = query[r]
BY DEF QueryOK, Answer, Quiet

\* Arrive: a handler that is free waits for the read lock.
LEMMA Arrived ==
  ASSUME QueryOK, NEW q \in Queries, Arrive(q)
  PROVE  /\ QueryOK'
         /\ query'[q].pc = "lock" /\ query[q].pc # "upstream"
         /\ \A r \in Queries : r # q => query'[r] = query[r]
BY DEF QueryOK, Arrive, Quiet

\* Ask: the handler goes upstream, to a profile the tables give.
LEMMA Asks ==
  ASSUME QueryOK, NEW q \in Queries, Ask(q)
  PROVE  /\ QueryOK'
         /\ query'[q].pc = "upstream"
         /\ query'[q].question = query[q].question
         /\ query'[q].asked \in Forward(query[q].question)
         /\ \A r \in Queries : r # q => query'[r] = query[r]
BY DEF QueryOK, Ask

\* The steps of a query leave the tables and the round alone.
LEMMA QueryStep ==
  ASSUME DnsInv, NEW q \in Queries, Arrive(q) \/ Serve(q) \/ Upstream(q)
  PROVE  /\ UNCHANGED <<inventory, due, changed, round, tables>>
         /\ QueryOK' /\ ReadersInv'
         /\ \A r \in Queries : query'[r].pc = "upstream" =>
              query'[r].asked \in Forward(query'[r].question)
<1>0. QueryOK /\ ReadersInv /\ AskedInv
  BY DEF DnsInv
<1>1. CASE Arrive(q)
  <2>1. UNCHANGED <<inventory, due, changed, round, tables, readers>>
    BY <1>1 DEF Arrive
  <2>2. /\ QueryOK' /\ query'[q].pc = "lock" /\ query[q].pc # "upstream"
        /\ \A r \in Queries : r # q => query'[r] = query[r]
    BY <1>0, <1>1, Arrived
  <2> QED BY <1>0, <2>1, <2>2 DEF ReadersInv, AskedInv
<1>2. CASE ServeLocal(q) \/ ServeUnknown(q)
  <2>1. PICK a : Answer(q, a)
    BY <1>2 DEF ServeLocal, ServeUnknown
  <2>2. UNCHANGED <<inventory, due, changed, round, tables, readers>> /\ query[q].pc = "lock"
    BY <1>2 DEF ServeLocal, ServeUnknown, CanRead
  <2>3. /\ QueryOK' /\ query'[q].pc = "answered"
        /\ \A r \in Queries : r # q => query'[r] = query[r]
    BY <1>0, <2>1, Answered
  <2> QED BY <1>0, <2>2, <2>3 DEF ReadersInv, AskedInv
<1>3. CASE Ask(q)
  <2>1. UNCHANGED <<inventory, due, changed, round, tables>> /\ readers' = readers \cup {q}
    BY <1>3 DEF Ask
  <2>2. /\ QueryOK' /\ query'[q].pc = "upstream"
        /\ query'[q].asked \in Forward(query'[q].question)
        /\ \A r \in Queries : r # q => query'[r] = query[r]
    BY <1>0, <1>3, Asks
  <2> QED BY <1>0, <2>1, <2>2 DEF ReadersInv, AskedInv
<1>4. CASE Upstream(q)
  <2>1. PICK a : Answer(q, a)
    BY <1>4 DEF Upstream
  <2>2. UNCHANGED <<inventory, due, changed, round, tables>> /\ readers' = readers \ {q}
    BY <1>4 DEF Upstream
  <2>3. /\ QueryOK' /\ query'[q].pc = "answered"
        /\ \A r \in Queries : r # q => query'[r] = query[r]
    BY <1>0, <2>1, Answered
  <2> QED BY <1>0, <2>2, <2>3 DEF ReadersInv, AskedInv
<1> QED BY <1>1, <1>2, <1>3, <1>4 DEF Serve

\* Which profiles a question may be forwarded to depends on the tables only.
LEMMA ForwardKept ==
  ASSUME tables' = tables, NEW question
  PROVE  Forward(question)' = Forward(question)
BY DEF Forward, profileFor, profileForPTR, Zones, suffix

\* The initial tables are those of the initial inventory, and nobody reads.
LEMMA InitialDns == Init => DnsInv
<1> SUFFICES ASSUME Init PROVE DnsInv
  OBVIOUS
<1>1. inventory \in Inventories /\ due \subseteq Profiles
  BY DEF Init
<1>2. changed \in BOOLEAN
  BY Zenon DEF Init
<1>3. QueryOK /\ ReadersInv /\ AskedInv
  BY DEF Init, QueryOK, ReadersInv, AskedInv, Quiet
<1>4. RoundOK /\ TablesOK /\ RoundInv
  BY DEF Init, RoundOK, TablesOK, RoundInv, Resting
<1> QED BY <1>1, <1>2, <1>3, <1>4 DEF DnsInv

\* Every step keeps DnsInv.
LEMMA DnsStep == DnsInv /\ [Next]_vars => DnsInv'
<1> SUFFICES ASSUME DnsInv, [Next]_vars PROVE DnsInv'
  OBVIOUS
<1>0. /\ inventory \in Inventories /\ due \subseteq Profiles /\ changed \in BOOLEAN
      /\ QueryOK /\ RoundOK /\ TablesOK /\ ReadersInv /\ RoundInv /\ AskedInv
  BY DEF DnsInv
<1>a. \A i \in Inventories : i \in SUBSET Targets
  BY InventoriesAssumption
<1>b. ASSUME UNCHANGED <<tables, readers, query>>
      PROVE  QueryOK' /\ TablesOK' /\ ReadersInv' /\ AskedInv'
  <2>1. AskedInv'
    BY <1>0, <1>b, ForwardKept DEF AskedInv
  <2> QED BY <1>0, <1>b, <2>1 DEF QueryOK, TablesOK, ReadersInv
<1>1. CASE InventoryChanges
  <2>1. PICK p \in Profiles : inventory' \in Inventories /\ due' = due \cup {p}
    BY <1>1 DEF InventoryChanges
  <2>2. UNCHANGED <<changed, round, tables, readers, query>>
    BY <1>1 DEF InventoryChanges
  <2>3. RoundOK' /\ RoundInv' /\ due' \subseteq Profiles
    BY <1>0, <2>1, <2>2 DEF RoundOK, RoundInv
  <2> QED BY <1>0, <1>b, <2>1, <2>2, <2>3 DEF DnsInv
<1>2. CASE RoundInventory
  <2>1. UNCHANGED <<inventory, due, tables, readers, query>> /\ changed' \in BOOLEAN
    BY <1>2 DEF RoundInventory
  <2>2. round' = [pc |-> "leases", targets |-> inventory, leased |-> round.leased,
                  failed |-> round.failed]
    BY <1>0, <1>2 DEF RoundInventory, RoundOK
  <2>3. RoundOK' /\ RoundInv'
    BY <1>0, <1>a, <2>1, <2>2 DEF RoundOK, RoundInv
  <2> QED BY <1>0, <1>b, <2>1, <2>3 DEF DnsInv
<1>3. CASE RoundLeases
  <2>1. UNCHANGED <<inventory, due, changed, tables, readers, query>> /\ round.pc = "leases"
    BY <1>3 DEF RoundLeases
  <2>2. round' = [pc |-> "lock", targets |-> round.targets, leased |-> inventory,
                  failed |-> round.failed]
    BY <1>0, <1>3 DEF RoundLeases, RoundOK
  <2>3. RoundOK' /\ RoundInv'
    BY <1>0, <1>a, <2>1, <2>2 DEF RoundOK, RoundInv
  <2> QED BY <1>0, <1>b, <2>1, <2>3 DEF DnsInv
<1>4. CASE Update
  <2>1. UNCHANGED <<inventory, due, changed, readers, query>> /\ readers = {} /\ round.pc = "lock"
    BY <1>4 DEF Update
  <2>2. tables' = [targets |-> round.targets, leased |-> round.leased] /\ round' = Resting(FALSE)
    BY <1>4 DEF Update
  <2>3. QueryOK' /\ ReadersInv'
    BY <1>0, <2>1 DEF QueryOK, ReadersInv
  <2>4. AskedInv'
    BY <1>0, <2>1, <2>3 DEF AskedInv, ReadersInv
  <2>5. RoundOK' /\ RoundInv' /\ TablesOK'
    BY <1>0, <2>1, <2>2 DEF RoundOK, RoundInv, TablesOK, Resting
  <2> QED BY <1>0, <2>1, <2>3, <2>4, <2>5 DEF DnsInv
<1>5. ASSUME NEW q \in Queries, Arrive(q) \/ Serve(q) \/ Upstream(q) PROVE DnsInv'
  <2>1. /\ UNCHANGED <<inventory, due, changed, round, tables>>
        /\ QueryOK' /\ ReadersInv'
        /\ \A r \in Queries : query'[r].pc = "upstream" =>
             query'[r].asked \in Forward(query'[r].question)
    BY <1>5, QueryStep
  <2>2. AskedInv'
    BY <2>1, ForwardKept DEF AskedInv
  <2>3. RoundOK' /\ RoundInv' /\ TablesOK'
    BY <1>0, <2>1 DEF RoundOK, RoundInv, TablesOK
  <2> QED BY <1>0, <2>1, <2>2, <2>3 DEF DnsInv
<1>6. CASE Notify
  <2>1. PICK p \in due : due' = due \ {p}
    BY <1>6 DEF Notify
  <2>2. changed' /\ changed' \in BOOLEAN /\ UNCHANGED <<inventory, round, tables, readers, query>>
    BY <1>6 DEF Notify
  <2>3. RoundOK' /\ RoundInv'
    BY <1>0, <2>2 DEF RoundOK, RoundInv
  <2> QED BY <1>0, <1>b, <2>1, <2>2, <2>3 DEF DnsInv
<1>7. CASE RoundLeasesFail
  <2>1. UNCHANGED <<inventory, due, changed, tables, readers, query>> /\ round' = Resting(TRUE)
    BY <1>7 DEF RoundLeasesFail
  <2>2. RoundOK' /\ RoundInv'
    BY <2>1 DEF RoundOK, RoundInv, Resting
  <2> QED BY <1>0, <1>b, <2>1, <2>2 DEF DnsInv
<1>8. CASE Close
  <2>1. UNCHANGED <<inventory, due, tables, readers, query>> /\ changed' \in BOOLEAN
    BY <1>0, <1>8 DEF Close
  <2>2. round' = [pc |-> "closed", targets |-> round.targets, leased |-> round.leased,
                  failed |-> round.failed]
    BY <1>0, <1>8 DEF Close, RoundOK
  <2>3. RoundOK' /\ RoundInv'
    BY <1>0, <2>1, <2>2 DEF RoundOK, RoundInv
  <2> QED BY <1>0, <1>b, <2>1, <2>3 DEF DnsInv
<1>9. CASE UNCHANGED vars
  <2>1. UNCHANGED <<inventory, due, changed, round, tables, readers, query>>
    BY <1>9 DEF vars
  <2>2. RoundOK' /\ RoundInv'
    BY <1>0, <2>1 DEF RoundOK, RoundInv
  <2> QED BY <1>0, <1>b, <2>1, <2>2 DEF DnsInv
<1> QED BY <1>1, <1>2, <1>3, <1>4, <1>5, <1>6, <1>7, <1>8, <1>9 DEF Next, Round

-----------------------------------------------------------------------------
\* DnsInv is an invariant of the server, its handlers and the main loop.
THEOREM DnsSafe == Spec => []DnsInv
BY InitialDns, DnsStep, PTL DEF Spec

\* Every variable has its type, and the read lock is held by exactly the queries
\* that wait for an engine.
THEOREM DnsTypes == Spec => []TypeOK
<1>1. DnsInv => TypeOK
  BY DEF DnsInv, TypeOK, QueryOK, RoundOK, TablesOK, ReadersInv
<1> QED BY <1>1, DnsSafe, PTL

\* Two snapshots, any number of changes in between, failed rounds before: when nothing
\* is on its way and the last round succeeded, the tables are those of the
\* supervisor's inventory.
THEOREM TablesCatchUp == Spec => []TablesCurrent
<1>1. DnsInv => TablesCurrent
  BY DEF DnsInv, RoundInv, TablesCurrent, Settling, RoundOK
<1> QED BY <1>1, DnsSafe, PTL

\* No update of the tables comes between the choice of a profile and the use of
\* its answer.
THEOREM ForwardedByTables == Spec => ForwardedByCurrentTables
<1> DEFINE Fits == \A q \in Queries :
                     query[q].pc = "upstream" /\ query'[q].pc = "answered" =>
                       query[q].asked \in Forward(query[q].question)
<1>1. DnsInv /\ [Next]_vars => [Fits]_vars
  BY DEF DnsInv, AskedInv
<1> QED BY <1>1, DnsSafe, PTL DEF Spec, ForwardedByCurrentTables

\* The tables themselves answer with leases, names and response codes.
LEMMA LocalKinds ==
  ASSUME NEW question, NEW a \in LocalAnswer(question)
  PROVE  a.kind # "address"
<1>1. \/ a \in {Rcode("FORMERR"), Rcode("NODATA"), Rcode("NOTIMP")}
      \/ \E t \in Mapped : a = Name(FQDN[t])
      \/ a = localA(question.name)
  BY DEF LocalAnswer
<1> QED BY <1>1 DEF localA, Lease, Name, Rcode

\* rewrite leaves an address alone only when no mapped target has it.
LEMMA RewriteKinds ==
  ASSUME NEW a, rewrite(a).kind = "address"
  PROVE  \A t \in Mapped : Canonical[t] # rewrite(a).of
<1>1. {t \in Mapped : Canonical[t] = a} = {}
  BY DEF rewrite, Lease
<1>2. rewrite(a) = Address(a)
  BY <1>1 DEF rewrite
<1> QED BY <1>1, <1>2 DEF Address

\* The reply to a question that the tables forward: an address in it has been
\* through rewrite, because only A and PTR questions are forwarded, and an engine
\* answers a PTR question with a name.
LEMMA ReplyKinds ==
  ASSUME NEW q \in Queries, query[q].asked \in Forward(query[q].question),
         NEW a \in Replies(q), a.kind = "address"
  PROVE  \A t \in Mapped : Canonical[t] # a.of
<1>1. query[q].question.type \in {"A", "PTR"}
  BY DEF Forward
<1>2. PICK e \in EngineAnswers(query[q].asked, query[q].question) :
        a = IF query[q].question.type = "A" THEN rewrite(e.of) ELSE e
  BY DEF Replies, Rcode
<1>3. CASE query[q].question.type = "PTR"
  BY <1>2, <1>3 DEF EngineAnswers, Name
<1>4. CASE query[q].question.type = "A"
  <2>1. a = rewrite(e.of)
    BY <1>2, <1>4
  <2> QED BY <2>1, RewriteKinds
<1> QED BY <1>1, <1>3, <1>4

\* No answer, of the tables or of any profile's engine, shows the canonical
\* address of a target that has a lease.
THEOREM CanonicalNeverShown == Spec => NeverCanonical
<1> DEFINE Hidden == \A q \in Queries :
                       Answers(q, "address") => \A t \in Mapped : Canonical[t] # query'[q].answer.of
<1>1. DnsInv /\ [Next]_vars => [Hidden]_vars
  <2> SUFFICES ASSUME DnsInv, Next, NEW q \in Queries, Answers(q, "address")
               PROVE  \A t \in Mapped : Canonical[t] # query'[q].answer.of
    OBVIOUS
  <2>0. QueryOK /\ AskedInv /\ query' # query
    BY DEF DnsInv, Answers
  <2>1. PICK r \in Queries : Arrive(r) \/ Serve(r) \/ Upstream(r)
    BY <2>0 DEF Next, InventoryChanges, Notify, Round, RoundInventory, RoundLeases,
       RoundLeasesFail, Update, Close
  <2>2. CASE Arrive(r)
    BY <2>0, <2>2, Arrived DEF Answers
  <2>3. CASE ServeLocal(r) \/ ServeUnknown(r)
    <3>1. PICK a : Answer(r, a) /\ a.kind # "address"
      BY <2>3, LocalKinds DEF ServeLocal, ServeUnknown, Rcode
    <3> QED BY <2>0, <3>1, Answered DEF Answers
  <2>4. CASE Ask(r)
    BY <2>0, <2>4, Asks DEF Answers
  <2>5. CASE Upstream(r)
    <3>1. PICK a \in Replies(r) : Answer(r, a)
      BY <2>5 DEF Upstream
    <3>2. /\ query'[r].answer = a
          /\ \A p \in Queries : p # r => query'[p] = query[p]
      BY <2>0, <3>1, Answered
    <3>3. q = r /\ a.kind = "address"
      BY <3>2 DEF Answers
    <3>4. query[r].asked \in Forward(query[r].question)
      BY <2>0, <2>5 DEF AskedInv, Upstream
    <3> QED BY <3>2, <3>3, <3>4, ReplyKinds
  <2> QED BY <2>1, <2>2, <2>3, <2>4, <2>5 DEF Serve
<1> QED BY <1>1, DnsSafe, PTL DEF Spec, NeverCanonical

===============================================================================
