--------------------------- MODULE ProfileSetProofs ---------------------------
(***************************************************************************)
(* Which profiles run, for any number of names, ids, edits and restarts.   *)
(*                                                                         *)
(* All of it holds for any number of editors and handlers.  LoginStartsAll *)
(* because profiles only grow while a login is under way: what its         *)
(* snapshot passed over stays.  OneEngineUnlessRaced because a profile     *)
(* that only one login has still to start has no engine until that login   *)
(* appends it.  OrderAsConfigured needs edits that do not overlap          *)
(* (EditsApart): an entry is then new to a file that runs only at its end, *)
(* and the stale copy of a second editor, written after a move, cannot     *)
(* undo the move.                                                          *)
(***************************************************************************)
EXTENDS ProfileSet, FiniteSetTheorems, SequenceTheorems, TLAPS

\* The entries that editors and handlers have loaded.
Copied == UNION {Elements(cli[e].c) : e \in Editors}
Loaded == UNION {Elements(login[h].c) : h \in Handlers}

\* The entries that the file, a copy of it or the daemon has.
Live ==
  Elements(config) \cup Elements(boot) \cup Elements(profiles)
  \cup Copied \cup Loaded

\* What has been seen of an id has been given out.
KnownInv == \A x \in Live : x.id \in used

\* A login starts entries of the file it loaded.
TodoInv ==
  \A h \in Handlers : /\ login[h].todo \subseteq DOMAIN login[h].c
                      /\ login[h].pc = "idle" => login[h].todo = {}

\* What a login does not have to start any more is running.
StartsInv ==
  \A h \in Handlers :
    /\ login[h].pc \in {"start", "append"} =>
         \A k \in DOMAIN login[h].c :
           k \in login[h].todo \/ login[h].c[k].id \in IdsOf(profiles)
    /\ login[h].pc = "login" => IdsOf(login[h].c) \subseteq IdsOf(profiles)

DistinctIds(s) == \A i, j \in DOMAIN s : i # j => s[i].id # s[j].id

\* Copies of the file have no id twice, and logins run only once Start has returned.
BootInv ==
  /\ DistinctIds(config) /\ DistinctIds(boot)
  /\ daemon = "down" => profiles = <<>> /\ boot = <<>>
  /\ daemon # "up" => \A h \in Handlers : login[h].pc = "idle"
  /\ daemon = "up" => boot = <<>>
  /\ \A h \in Handlers : DistinctIds(login[h].c)

\* What each handler still has to start.
Starts == [h \in Handlers |-> ToStart(h)]

\* Id i has at most one engine in ps; while it is still to be started, by Start (in b)
\* or by a login (in S), it has none, and only one login has it to start.
Alone(i, ps, b, S) ==
  /\ \A j, k \in DOMAIN ps : ps[j].id = i /\ ps[k].id = i => j = k
  /\ i \in IdsOf(b) => i \notin IdsOf(ps)
  /\ \A h \in Handlers : i \in S[h] => i \notin IdsOf(ps)
  /\ \A g, h \in Handlers : i \in S[g] /\ i \in S[h] => g = h

AloneInv == \A i \in Ids \ raced : Alone(i, profiles, boot, Starts)

-----------------------------------------------------------------------------
\* Sequences of entries.

\* Append, Head and Tail, by their elements.
LEMMA ElementsOfList ==
  ASSUME NEW S, NEW s \in Seq(S)
  PROVE  /\ Elements(s) \subseteq S
         /\ \A x \in S : Append(s, x) \in Seq(S) /\ Elements(Append(s, x)) = Elements(s) \cup {x}
         /\ s # <<>> => /\ Tail(s) \in Seq(S) /\ Head(s) \in S
                        /\ Elements(s) = Elements(Tail(s)) \cup {Head(s)}
<1>1. DOMAIN s = 1 .. Len(s) /\ Len(s) \in Nat /\ \A i \in 1 .. Len(s) : s[i] \in S
  BY ElementOfSeq
<1>2. Elements(s) \subseteq S
  BY <1>1 DEF Elements
<1>3. ASSUME NEW x \in S
      PROVE  Append(s, x) \in Seq(S) /\ Elements(Append(s, x)) = Elements(s) \cup {x}
  <2>1. /\ Append(s, x) \in Seq(S) /\ Len(Append(s, x)) = Len(s) + 1
        /\ Append(s, x)[Len(s) + 1] = x /\ \A i \in 1 .. Len(s) : Append(s, x)[i] = s[i]
    BY AppendProperties
  <2>2. DOMAIN Append(s, x) = (1 .. Len(s)) \cup {Len(s) + 1}
    BY <1>1, <2>1
  <2> QED BY <1>1, <2>1, <2>2 DEF Elements
<1>4. ASSUME s # <<>>
      PROVE  /\ Tail(s) \in Seq(S) /\ Head(s) \in S
             /\ Elements(s) = Elements(Tail(s)) \cup {Head(s)}
  <2>1. /\ Tail(s) \in Seq(S) /\ Len(Tail(s)) = Len(s) - 1 /\ Head(s) = s[1] /\ Len(s) >= 1
        /\ \A i \in 1 .. Len(Tail(s)) : Tail(s)[i] = s[i + 1]
    BY <1>1, <1>4, HeadTailProperties, EmptySeq
  <2>2. DOMAIN Tail(s) = 1 .. (Len(s) - 1)
    BY <2>1
  <2>3. \A i \in 1 .. Len(s) : i = 1 \/ (i - 1 \in 1 .. (Len(s) - 1) /\ Tail(s)[i - 1] = s[i])
    BY <1>1, <2>1
  <2>4. \A i \in 1 .. (Len(s) - 1) : i + 1 \in 1 .. Len(s) /\ Tail(s)[i] = s[i + 1]
    BY <1>1, <2>1
  <2>5. Elements(s) \subseteq Elements(Tail(s)) \cup {Head(s)}
    <3>1. SUFFICES ASSUME NEW i \in 1 .. Len(s) PROVE s[i] \in Elements(Tail(s)) \cup {Head(s)}
      BY <1>1 DEF Elements
    <3>2. i # 1 => i - 1 \in DOMAIN Tail(s) /\ Tail(s)[i - 1] = s[i]
      BY <2>2, <2>3
    <3>3. \A k \in DOMAIN Tail(s) : Tail(s)[k] \in Elements(Tail(s))
      BY DEF Elements
    <3> QED BY <2>1, <3>2, <3>3
  <2>6. Head(s) \in Elements(s)
    BY <1>1, <2>1 DEF Elements
  <2>7. Elements(Tail(s)) \subseteq Elements(s)
    BY <1>1, <2>2, <2>4 DEF Elements
  <2>8. Head(s) \in S
    BY <1>1, <2>1
  <2> QED BY <2>1, <2>5, <2>6, <2>7, <2>8
<1> QED BY <1>2, <1>3, <1>4

\* A part of a sequence has no other elements.
LEMMA PartOfList ==
  ASSUME NEW S, NEW s \in Seq(S), NEW m \in 1 .. Len(s) + 1, NEW n \in 0 .. Len(s)
  PROVE  SubSeq(s, m, n) \in Seq(S) /\ Elements(SubSeq(s, m, n)) \subseteq Elements(s)
<1>1. DOMAIN s = 1 .. Len(s) /\ Len(s) \in Nat
  BY ElementOfSeq
<1>2. /\ SubSeq(s, m, n) \in Seq(S)
      /\ Len(SubSeq(s, m, n)) = IF m <= n THEN n - m + 1 ELSE 0
      /\ \A i \in 1 .. n - m + 1 : SubSeq(s, m, n)[i] = s[m + i - 1]
  BY <1>1, SubSeqProperties
<1>3. DOMAIN SubSeq(s, m, n) = 1 .. Len(SubSeq(s, m, n))
  BY <1>2
<1>4. \A i \in DOMAIN SubSeq(s, m, n) : m + i - 1 \in 1 .. Len(s) /\ SubSeq(s, m, n)[i] = s[m + i - 1]
  BY <1>1, <1>2, <1>3
<1> QED BY <1>1, <1>2, <1>4 DEF Elements

\* Two sequences joined have the elements of both.
LEMMA JoinedLists ==
  ASSUME NEW S, NEW s \in Seq(S), NEW t \in Seq(S)
  PROVE  s \o t \in Seq(S) /\ Elements(s \o t) \subseteq Elements(s) \cup Elements(t)
<1>1. /\ s \o t \in Seq(S) /\ Len(s \o t) = Len(s) + Len(t)
      /\ \A i \in 1 .. Len(s) + Len(t) :
           (s \o t)[i] = IF i <= Len(s) THEN s[i] ELSE t[i - Len(s)]
  BY ConcatProperties
<1>2. /\ DOMAIN s = 1 .. Len(s) /\ DOMAIN t = 1 .. Len(t) /\ Len(s) \in Nat /\ Len(t) \in Nat
      /\ DOMAIN (s \o t) = 1 .. Len(s) + Len(t)
  BY <1>1, ElementOfSeq
<1>3. ASSUME NEW i \in DOMAIN (s \o t) PROVE (s \o t)[i] \in Elements(s) \cup Elements(t)
  <2>1. CASE i <= Len(s)
    BY <1>1, <1>2, <2>1 DEF Elements
  <2>2. CASE i > Len(s)
    <3>1. i - Len(s) \in DOMAIN t /\ (s \o t)[i] = t[i - Len(s)]
      BY <1>1, <1>2, <2>2
    <3> QED BY <3>1 DEF Elements
  <2> QED BY <1>2, <2>1, <2>2
<1> QED BY <1>1, <1>3 DEF Elements

\* profiles remove leaves entries of the file it loaded.
LEMMA RemoveKeeps ==
  ASSUME NEW S, NEW c \in Seq(S), NEW i \in DOMAIN c
  PROVE  Without(c, i) \in Seq(S) /\ Elements(Without(c, i)) \subseteq Elements(c)
<1>1. i \in 1 .. Len(c) /\ Len(c) \in Nat
  BY ElementOfSeq
<1> DEFINE before == SubSeq(c, 1, i - 1)
           after == SubSeq(c, i + 1, Len(c))
<1>2. /\ before \in Seq(S) /\ Elements(before) \subseteq Elements(c)
      /\ after \in Seq(S) /\ Elements(after) \subseteq Elements(c)
  <2>1. 1 \in 1 .. Len(c) + 1 /\ i - 1 \in 0 .. Len(c)
    BY <1>1
  <2>2. i + 1 \in 1 .. Len(c) + 1 /\ Len(c) \in 0 .. Len(c)
    BY <1>1
  <2> QED BY <2>1, <2>2, PartOfList
<1>3. Without(c, i) = before \o after
  BY DEF Without
<1> HIDE DEF before, after
<1>4. before \o after \in Seq(S) /\ Elements(before \o after) \subseteq Elements(c)
  BY <1>2, JoinedLists
<1> QED BY <1>3, <1>4

\* The file as profiles move writes it.
MovedTo(c, i, pos) ==
  LET rest == Without(c, i)
  IN  SubSeq(rest, 1, pos) \o <<c[i]>> \o SubSeq(rest, pos + 1, Len(rest))

\* profiles move leaves entries of the file it loaded.
LEMMA MoveKeeps ==
  ASSUME NEW S, NEW c \in Seq(S), NEW i \in DOMAIN c, NEW pos \in 0 .. Len(c) - 1
  PROVE  MovedTo(c, i, pos) \in Seq(S) /\ Elements(MovedTo(c, i, pos)) \subseteq Elements(c)
<1>1. i \in 1 .. Len(c) /\ Len(c) \in Nat /\ c[i] \in S /\ c[i] \in Elements(c)
  BY ElementOfSeq DEF Elements
<1> DEFINE rest == Without(c, i)
<1>2. rest \in Seq(S) /\ Elements(rest) \subseteq Elements(c)
  BY RemoveKeeps
<1>3. Len(rest) = Len(c) - 1
  <2> DEFINE before == SubSeq(c, 1, i - 1)
             after == SubSeq(c, i + 1, Len(c))
  <2>1. /\ before \in Seq(S) /\ Len(before) = i - 1
        /\ after \in Seq(S) /\ Len(after) = Len(c) - i
    BY <1>1, SubSeqProperties
  <2>2. rest = before \o after
    BY DEF Without
  <2> HIDE DEF before, after
  <2>3. Len(before \o after) = Len(before) + Len(after)
    BY <2>1, ConcatProperties
  <2> HIDE DEF rest
  <2> QED BY <1>1, <2>1, <2>2, <2>3
<1> HIDE DEF rest
<1> DEFINE before == SubSeq(rest, 1, pos)
           after == SubSeq(rest, pos + 1, Len(rest))
           one == <<c[i]>>
<1>4. /\ before \in Seq(S) /\ Elements(before) \subseteq Elements(c)
      /\ after \in Seq(S) /\ Elements(after) \subseteq Elements(c)
  <2>1. 1 \in 1 .. Len(rest) + 1 /\ pos \in 0 .. Len(rest)
    BY <1>1, <1>3
  <2>2. pos + 1 \in 1 .. Len(rest) + 1 /\ Len(rest) \in 0 .. Len(rest)
    BY <1>1, <1>3
  <2> QED BY <1>2, <2>1, <2>2, PartOfList
<1>5. one \in Seq(S) /\ Elements(one) \subseteq Elements(c)
  BY <1>1 DEF Elements
<1>6. MovedTo(c, i, pos) = (before \o one) \o after
  BY DEF MovedTo, rest
<1> HIDE DEF before, after, one
<1>7. before \o one \in Seq(S) /\ Elements(before \o one) \subseteq Elements(c)
  BY <1>4, <1>5, JoinedLists
<1> DEFINE start == before \o one
<1>8. start \in Seq(S) /\ Elements(start) \subseteq Elements(c) /\ MovedTo(c, i, pos) = start \o after
  BY <1>6, <1>7
<1> HIDE DEF start
<1>9. start \o after \in Seq(S) /\ Elements(start \o after) \subseteq Elements(c)
  BY <1>4, <1>8, JoinedLists
<1> QED BY <1>8, <1>9

-----------------------------------------------------------------------------
\* What the handlers and the editors do.

LoginRec == [pc : {"idle", "snapshot", "start", "append", "login"},
             c : Seq(Entry), todo : SUBSET Nat]

\* A handler that works on the file it has loaded.
At(l, pc, todo) == [pc |-> pc, c |-> l.c, todo |-> todo]

LoadedFile == [pc |-> "snapshot", c |-> config, todo |-> {}]

\* It starts entries of that file.
Startable(l) == l.todo \subseteq DOMAIN l.c /\ (l.pc = "idle" => l.todo = {})

\* A step of handler h that leaves it with the record `new`.
Moves(h, new) ==
  LET l == login[h] IN
  \/ daemon = "up" /\ new = LoadedFile /\ UNCHANGED <<profiles, raced>>
  \/ /\ l.pc = "snapshot" /\ UNCHANGED profiles
     /\ new = At(l, "start", Missing(l.c))
     /\ raced' = raced \cup ({l.c[k].id : k \in Missing(l.c)}
                               \cap UNION {ToStart(g) : g \in Handlers})
  \/ l.pc = "start" /\ new = At(l, "append", l.todo) /\ UNCHANGED <<profiles, raced>>
  \/ /\ l.pc = "append" /\ UNCHANGED raced
     /\ \E k \in l.todo : /\ \A j \in l.todo : k <= j
                          /\ new = At(l, "start", l.todo \ {k})
                          /\ profiles' = Append(profiles, l.c[k])
  \/ /\ l.pc = "start" /\ l.todo = {} /\ new = At(l, "login", {})
     /\ UNCHANGED <<profiles, raced>>
  \/ new = NoLogin /\ UNCHANGED <<profiles, raced>>

\* The record of a handler without a login.
LEMMA Idle ==
  /\ NoLogin \in LoginRec
  /\ NoLogin.pc = "idle" /\ NoLogin.c = <<>> /\ NoLogin.todo = {}
<1>1. <<>> \in Seq(Entry)
  OBVIOUS
<1> QED BY <1>1 DEF NoLogin, LoginRec

\* The records that the actions make of a handler's.
LEMMA Updates ==
  ASSUME NEW l \in LoginRec, NEW pc, NEW todo
  PROVE  /\ [l EXCEPT !.pc = pc] = At(l, pc, l.todo)
         /\ [l EXCEPT !.pc = pc, !.todo = todo] = At(l, pc, todo)
<1>1. l = [pc |-> l.pc, c |-> l.c, todo |-> l.todo]
  BY DEF LoginRec
<1>2. [l EXCEPT !.pc = pc] = At(l, pc, l.todo)
  BY <1>1 DEF At
<1>3. [l EXCEPT !.pc = pc, !.todo = todo] = [[l EXCEPT !.pc = pc] EXCEPT !.todo = todo]
  OBVIOUS
<1>4. [At(l, pc, l.todo) EXCEPT !.todo = todo] = At(l, pc, todo)
  BY DEF At
<1> QED BY <1>2, <1>3, <1>4

\* Every action of a handler is such a step.
LEMMA HandlerMoves ==
  ASSUME login \in [Handlers -> LoginRec], NEW h \in Handlers, handle(h)
  PROVE  /\ \E new : login' = [login EXCEPT ![h] = new] /\ Moves(h, new)
         /\ UNCHANGED <<config, moved, used, cli, daemon, boot>>
<1> DEFINE l == login[h]
<1>0. l \in LoginRec /\ l = At(l, l.pc, l.todo)
  BY DEF LoginRec, At
<1>1. UNCHANGED <<config, moved, used, cli, daemon, boot>>
  BY DEF handle, LoginLoad, LoginSnapshot, startProfile, startProfileFails, AppendProfile,
         Login, LoginUnknown, LoginReturns
<1>2. CASE LoginLoad(h)
  <2>1. /\ login' = [login EXCEPT ![h] = LoadedFile]
        /\ daemon = "up" /\ UNCHANGED <<profiles, raced>>
    BY <1>2 DEF LoginLoad, LoadedFile
  <2> QED BY <1>1, <2>1 DEF Moves
<1>3. CASE LoginSnapshot(h)
  <2> DEFINE todo == Missing(l.c)
  <2>1. /\ login' = [login EXCEPT ![h].pc = "start", ![h].todo = todo]
        /\ l.pc = "snapshot" /\ UNCHANGED profiles
        /\ raced' = raced \cup ({l.c[k].id : k \in todo} \cap UNION {ToStart(g) : g \in Handlers})
    BY <1>3 DEF LoginSnapshot
  <2>2. login' = [login EXCEPT ![h] = [l EXCEPT !.pc = "start", !.todo = todo]]
    BY <2>1
  <2>3. login' = [login EXCEPT ![h] = At(l, "start", todo)]
    <3>1. [l EXCEPT !.pc = "start", !.todo = todo] = At(l, "start", todo)
      BY <1>0, Updates, Zenon
    <3> QED BY <2>2, <3>1
  <2>4. Moves(h, At(l, "start", todo))
    BY <2>1 DEF Moves, todo
  <2> QED BY <1>1, <2>3, <2>4
<1>4. CASE startProfile(h)
  <2>1. /\ login' = [login EXCEPT ![h].pc = "append"] /\ l.pc = "start"
        /\ UNCHANGED <<profiles, raced>>
    BY <1>4 DEF startProfile
  <2>2. login' = [login EXCEPT ![h] = [l EXCEPT !.pc = "append"]]
    BY <2>1
  <2>3. login' = [login EXCEPT ![h] = At(l, "append", l.todo)]
    BY <1>0, <2>2, Updates
  <2> QED BY <1>1, <2>1, <2>3 DEF Moves
<1>5. CASE AppendProfile(h)
  <2>1. PICK k \in l.todo : /\ \A j \in l.todo : k <= j
                            /\ profiles' = Append(profiles, l.c[k])
                            /\ login' = [login EXCEPT ![h].pc = "start", ![h].todo = @ \ {k}]
    BY <1>5 DEF AppendProfile, First
  <2>2. login' = [login EXCEPT ![h] = [l EXCEPT !.pc = "start", !.todo = l.todo \ {k}]]
    BY <2>1
  <2>3. login' = [login EXCEPT ![h] = At(l, "start", l.todo \ {k})]
    <3>1. [l EXCEPT !.pc = "start", !.todo = l.todo \ {k}] = At(l, "start", l.todo \ {k})
      BY <1>0, Updates, Zenon
    <3> QED BY <2>2, <3>1
  <2>4. l.pc = "append" /\ UNCHANGED raced
    BY <1>5 DEF AppendProfile
  <2> QED BY <1>1, <2>1, <2>3, <2>4 DEF Moves
<1>6. CASE Login(h)
  <2>1. /\ login' = [login EXCEPT ![h].pc = "login"]
        /\ l.pc = "start" /\ l.todo = {} /\ UNCHANGED <<profiles, raced>>
    BY <1>6 DEF Login
  <2>2. login' = [login EXCEPT ![h] = [l EXCEPT !.pc = "login"]]
    BY <2>1
  <2>3. login' = [login EXCEPT ![h] = At(l, "login", {})]
    <3>1. [l EXCEPT !.pc = "login"] = At(l, "login", l.todo)
      BY <1>0, Updates, Zenon
    <3> QED BY <2>1, <2>2, <3>1
  <2> QED BY <1>1, <2>1, <2>3 DEF Moves
<1>7. CASE startProfileFails(h) \/ LoginUnknown(h) \/ LoginReturns(h)
  <2>1. login' = [login EXCEPT ![h] = NoLogin] /\ UNCHANGED <<profiles, raced>>
    BY <1>7 DEF startProfileFails, LoginUnknown, LoginReturns
  <2> QED BY <1>1, <2>1 DEF Moves
<1> QED BY <1>2, <1>3, <1>4, <1>5, <1>6, <1>7 DEF handle

CliRec == [pc : {"idle", "loaded"}, c : Seq(Entry)]

\* An editor loads the file, gives up, or replaces the file by entries of its copy
\* and at most one that is new.
Edits(e) ==
  \/ cli' = [cli EXCEPT ![e] = [pc |-> "loaded", c |-> config]] /\ UNCHANGED <<config, used>>
  \/ cli' = [cli EXCEPT ![e] = NoEdit] /\ UNCHANGED <<config, used>>
  \/ /\ cli' = [cli EXCEPT ![e] = NoEdit]
     /\ config' \in Seq(Entry) /\ Valid(config')
     /\ Elements(config') \subseteq Elements(cli[e].c)
     /\ used' = used
  \/ /\ cli' = [cli EXCEPT ![e] = NoEdit]
     /\ config' \in Seq(Entry) /\ Valid(config')
     /\ \E x \in Entry : /\ x.id \notin used
                         /\ Elements(config') = Elements(cli[e].c) \cup {x}
                         /\ used' = used \cup {x.id}

\* Every command of an editor is such a step.
LEMMA EditorMoves ==
  ASSUME cli \in [Editors -> CliRec], NEW e \in Editors, edit(e)
  PROVE  Edits(e) /\ UNCHANGED <<daemon, boot, profiles, raced, login>>
<1>0. cli[e].c \in Seq(Entry)
  BY DEF CliRec
<1>1. CASE CliLoad(e)
  BY <1>1 DEF CliLoad, Edits
<1>2. CASE CliAdd(e)
  <2>1. PICK i \in Ids \ used, n \in Names :
          /\ WriteAtomic(e, Append(cli[e].c, [id |-> i, name |-> n]))
          /\ used' = used \cup {i}
    BY <1>2 DEF CliAdd
  <2> DEFINE x == [id |-> i, name |-> n]
  <2>2. x \in Entry /\ x.id = i /\ x.id \notin used
    BY DEF Entry
  <2>3. Append(cli[e].c, x) \in Seq(Entry) /\ Elements(Append(cli[e].c, x)) = Elements(cli[e].c) \cup {x}
    BY <1>0, <2>2, ElementsOfList
  <2>4. /\ config' = Append(cli[e].c, x) /\ Valid(Append(cli[e].c, x))
        /\ cli' = [cli EXCEPT ![e] = NoEdit]
        /\ UNCHANGED <<daemon, boot, profiles, raced, login>>
    BY <2>1 DEF WriteAtomic
  <2> HIDE DEF x
  <2>5. /\ config' \in Seq(Entry) /\ Valid(config')
        /\ Elements(config') = Elements(cli[e].c) \cup {x}
        /\ used' = used \cup {x.id}
    BY <2>1, <2>2, <2>3, <2>4
  <2> QED BY <2>2, <2>4, <2>5 DEF Edits
<1>3. ASSUME NEW c \in Seq(Entry), Elements(c) \subseteq Elements(cli[e].c), WriteAtomic(e, c),
             UNCHANGED used
      PROVE  Edits(e) /\ UNCHANGED <<daemon, boot, profiles, raced, login>>
  BY <1>3 DEF WriteAtomic, Edits
<1>4. CASE CliRemove(e)
  <2>1. PICK i \in DOMAIN cli[e].c : WriteAtomic(e, Without(cli[e].c, i))
    BY <1>4 DEF CliRemove
  <2>2. used' = used
    BY <1>4 DEF CliRemove
  <2> QED BY <1>0, <1>3, <2>1, <2>2, RemoveKeeps
<1>5. CASE CliMove(e)
  <2>1. PICK i \in DOMAIN cli[e].c, pos \in 0 .. Len(cli[e].c) - 1 :
          WriteAtomic(e, MovedTo(cli[e].c, i, pos))
    BY <1>5 DEF CliMove, MovedTo
  <2>2. used' = used
    BY <1>5 DEF CliMove
  <2> QED BY <1>0, <1>3, <2>1, <2>2, MoveKeeps
<1>6. CASE CliDies(e)
  BY <1>6 DEF CliDies, Edits
<1> QED BY <1>1, <1>2, <1>4, <1>5, <1>6 DEF edit

-----------------------------------------------------------------------------
\* Types.

\* The types, and the positions of what a login has to start.
Typed == TypeOK /\ TodoInv

\* TypeOK in the names used here.
LEMMA TypeParts ==
  TypeOK <=> /\ config \in Seq(Entry) /\ boot \in Seq(Entry) /\ profiles \in Seq(Entry)
             /\ moved \in BOOLEAN /\ used \subseteq Ids
             /\ raced \subseteq Ids /\ daemon \in {"down", "starting", "up"}
             /\ cli \in [Editors -> CliRec] /\ login \in [Handlers -> LoginRec]
BY DEF TypeOK, CliRec, LoginRec

\* A handler's record keeps its type, and what it appends is an entry.
LEMMA MoveTyped ==
  ASSUME Typed, NEW h \in Handlers, NEW new, Moves(h, new)
  PROVE  /\ new \in LoginRec /\ Startable(new)
         /\ profiles' \in Seq(Entry) /\ raced' \subseteq Ids
<1> DEFINE l == login[h]
<1>0. /\ config \in Seq(Entry) /\ profiles \in Seq(Entry) /\ l \in LoginRec
      /\ l.todo \subseteq DOMAIN l.c /\ raced \subseteq Ids
  BY TypeParts DEF Typed, TodoInv
<1>1. /\ l.c \in Seq(Entry) /\ l.todo \in SUBSET Nat
      /\ DOMAIN l.c \subseteq Nat /\ \A k \in DOMAIN l.c : l.c[k] \in Entry
  BY <1>0, ElementOfSeq DEF LoginRec
<1>2. Missing(l.c) \subseteq DOMAIN l.c /\ {l.c[k].id : k \in Missing(l.c)} \subseteq Ids
  BY <1>1 DEF Missing, Entry
<1>3. ASSUME NEW pc \in {"snapshot", "start", "append", "login"},
             NEW todo \in SUBSET DOMAIN l.c, new = At(l, pc, todo)
      PROVE  new \in LoginRec /\ Startable(new)
  BY <1>1, <1>3 DEF At, LoginRec, Startable
<1>4. CASE UNCHANGED <<profiles, raced>> /\ new = LoadedFile
  BY <1>0, <1>4 DEF LoginRec, LoadedFile, Startable
<1>5. CASE /\ UNCHANGED profiles /\ new = At(l, "start", Missing(l.c))
           /\ raced' = raced \cup ({l.c[k].id : k \in Missing(l.c)}
                                     \cap UNION {ToStart(g) : g \in Handlers})
  <2>1. new \in LoginRec /\ Startable(new)
    BY <1>2, <1>3, <1>5
  <2>2. raced' \subseteq Ids
    BY <1>0, <1>2, <1>5
  <2> QED BY <1>0, <1>5, <2>1, <2>2
<1>6. CASE UNCHANGED <<profiles, raced>> /\ new = At(l, "append", l.todo)
  BY <1>0, <1>1, <1>3, <1>6
<1>7. ASSUME NEW k \in l.todo, new = At(l, "start", l.todo \ {k}), UNCHANGED raced,
             profiles' = Append(profiles, l.c[k])
      PROVE  /\ new \in LoginRec /\ Startable(new)
             /\ profiles' \in Seq(Entry) /\ raced' \subseteq Ids
  <2>1. l.todo \ {k} \in SUBSET DOMAIN l.c /\ l.c[k] \in Entry
    BY <1>0, <1>1
  <2>2. Append(profiles, l.c[k]) \in Seq(Entry)
    BY <1>0, <2>1, ElementsOfList
  <2> QED BY <1>0, <1>3, <1>7, <2>1, <2>2
<1>8. CASE new = At(l, "login", {}) /\ UNCHANGED <<profiles, raced>>
  <2>1. {} \in SUBSET DOMAIN l.c
    OBVIOUS
  <2> QED BY <1>0, <1>3, <1>8, <2>1
<1>9. CASE UNCHANGED <<profiles, raced>> /\ new = NoLogin
  BY <1>0, <1>9, Idle DEF Startable
<1> QED BY <1>4, <1>5, <1>6, <1>7, <1>8, <1>9 DEF Moves

\* moved is a history flag.
LEMMA MovedTyped ==
  ASSUME moved \in BOOLEAN, [Next]_vars
  PROVE  moved' \in BOOLEAN
<1>1. moved' = moved \/ moved' = TRUE \/ moved' = FALSE
  <2>1. ASSUME NEW e \in Editors, edit(e) PROVE moved' = moved \/ moved' = TRUE
    BY <2>1 DEF edit, CliLoad, CliAdd, CliRemove, CliMove, CliDies
  <2>2. ASSUME NEW h \in Handlers, handle(h) PROVE moved' = moved
    BY <2>2 DEF handle, LoginLoad, LoginSnapshot, startProfile, startProfileFails, AppendProfile,
                Login, LoginUnknown, LoginReturns
  <2> QED BY <2>1, <2>2 DEF Next, BootLoad, BootStarts, BootDone, Exit, vars
<1> QED BY <1>1, Zenon

\* The initial state has the types.
LEMMA InitialTypes ==
  ASSUME Init
  PROVE  Typed
<1>1. <<>> \in Seq(Entry)
  OBVIOUS
<1>2. config \in Seq(Entry) /\ boot \in Seq(Entry) /\ profiles \in Seq(Entry)
  BY <1>1 DEF Init
<1>3. moved \in BOOLEAN
  BY Zenon DEF Init
<1>4. cli \in [Editors -> CliRec]
  <2>1. NoEdit \in CliRec
    BY <1>1 DEF NoEdit, CliRec
  <2> QED BY <2>1, Zenon DEF Init
<1>5. login \in [Handlers -> LoginRec] /\ TodoInv
  <2>1. login = [h \in Handlers |-> NoLogin]
    BY Zenon DEF Init
  <2>2. login \in [Handlers -> LoginRec]
    BY <2>1, Idle
  <2> QED BY <2>1, <2>2, Idle DEF TodoInv
<1>6. used \subseteq Ids /\ raced \subseteq Ids /\ daemon \in {"down", "starting", "up"}
  BY DEF Init
<1> QED BY <1>2, <1>3, <1>4, <1>5, <1>6, TypeParts DEF Typed

\* Every step keeps the types.
LEMMA TypedStep ==
  ASSUME Typed, [Next]_vars
  PROVE  Typed'
<1>0. /\ config \in Seq(Entry) /\ boot \in Seq(Entry) /\ profiles \in Seq(Entry)
      /\ moved \in BOOLEAN /\ used \subseteq Ids
      /\ raced \subseteq Ids /\ daemon \in {"down", "starting", "up"}
      /\ cli \in [Editors -> CliRec] /\ login \in [Handlers -> LoginRec] /\ TodoInv
  BY TypeParts DEF Typed
<1>1. moved' \in BOOLEAN
  BY <1>0, MovedTyped
<1> DEFINE Goal == /\ config' \in Seq(Entry) /\ boot' \in Seq(Entry) /\ profiles' \in Seq(Entry)
                   /\ used' \subseteq Ids /\ raced' \subseteq Ids /\ daemon' \in {"down", "starting", "up"}
                   /\ cli' \in [Editors -> CliRec] /\ login' \in [Handlers -> LoginRec]
                   /\ TodoInv'
<1> SUFFICES Goal
  BY <1>1, TypeParts DEF Typed, TypeOK, CliRec, LoginRec
<1>2. <<>> \in Seq(Entry)
  OBVIOUS
<1>3. ASSUME NEW e \in Editors, edit(e) PROVE Goal
  <2>1. Edits(e) /\ UNCHANGED <<daemon, boot, profiles, raced, login>>
    BY <1>0, <1>3, EditorMoves
  <2>2. config' \in Seq(Entry)
    BY <1>0, <2>1 DEF Edits
  <2>3. used' \subseteq Ids
    BY <1>0, <2>1 DEF Edits, Entry
  <2>4. [pc |-> "loaded", c |-> config] \in CliRec /\ NoEdit \in CliRec
    BY <1>0, <1>2 DEF CliRec, NoEdit
  <2>5. cli' \in [Editors -> CliRec]
    BY <1>0, <2>1, <2>4 DEF Edits
  <2>6. TodoInv'
    BY <1>0, <2>1 DEF TodoInv
  <2> QED BY <1>0, <2>1, <2>2, <2>3, <2>5, <2>6
<1>4. ASSUME NEW h \in Handlers, handle(h) PROVE Goal
  <2>1. UNCHANGED <<config, used, cli, daemon, boot>>
    BY <1>0, <1>4, HandlerMoves
  <2>2. PICK new : login' = [login EXCEPT ![h] = new] /\ Moves(h, new)
    BY <1>0, <1>4, HandlerMoves
  <2>3. /\ new \in LoginRec /\ Startable(new) /\ profiles' \in Seq(Entry)
        /\ raced' \subseteq Ids
    BY <2>2, MoveTyped
  <2>4. login' \in [Handlers -> LoginRec] /\ TodoInv'
    BY <1>0, <2>2, <2>3 DEF TodoInv, Startable
  <2> QED BY <1>0, <2>1, <2>3, <2>4
<1>5. CASE BootLoad
  BY <1>0, <1>5 DEF BootLoad, TodoInv
<1>6. CASE BootStarts
  <2>1. Head(boot) \in Entry /\ Tail(boot) \in Seq(Entry)
    BY <1>0, <1>6, ElementsOfList DEF BootStarts
  <2>2. Append(profiles, Head(boot)) \in Seq(Entry)
    BY <1>0, <2>1, ElementsOfList
  <2>3. UNCHANGED <<config, used, cli, daemon, raced, login>>
    BY <1>6 DEF BootStarts
  <2>4. profiles' \in Seq(Entry) /\ boot' \in Seq(Entry)
    BY <1>6, <2>1, <2>2 DEF BootStarts
  <2> QED BY <1>0, <2>3, <2>4 DEF TodoInv
<1>7. CASE BootDone
  BY <1>0, <1>7 DEF BootDone, TodoInv
<1>8. CASE Exit
  <2>1. login' = [h \in Handlers |-> NoLogin]
    BY <1>8 DEF Exit
  <2>2. login' \in [Handlers -> LoginRec] /\ TodoInv'
    BY <2>1, Idle DEF TodoInv
  <2> QED BY <1>0, <1>2, <1>8, <2>2 DEF Exit
<1>9. CASE UNCHANGED vars
  BY <1>0, <1>9 DEF vars, TodoInv
<1> QED BY <1>3, <1>4, <1>5, <1>6, <1>7, <1>8, <1>9 DEF Next

-----------------------------------------------------------------------------
\* Ids.

\* The parts of Live.
LEMMA LiveParts ==
  /\ Elements(config) \subseteq Live /\ Elements(boot) \subseteq Live
  /\ Elements(profiles) \subseteq Live
  /\ \A e \in Editors : Elements(cli[e].c) \subseteq Live
  /\ \A h \in Handlers : Elements(login[h].c) \subseteq Live
<1>1. \A e \in Editors : Elements(cli[e].c) \subseteq Copied
  BY DEF Copied
<1>2. \A h \in Handlers : Elements(login[h].c) \subseteq Loaded
  BY DEF Loaded
<1> QED BY <1>1, <1>2 DEF Live

\* Live after a step that adds at most S.
LEMMA LiveAfter ==
  ASSUME NEW S, Elements(config') \subseteq S, Elements(boot') \subseteq S,
         Elements(profiles') \subseteq S,
         \A e \in Editors : Elements(cli'[e].c) \subseteq S,
         \A h \in Handlers : Elements(login'[h].c) \subseteq S
  PROVE  Live' \subseteq S
<1>1. Copied' \subseteq S
  BY DEF Copied, Elements
<1>2. Loaded' \subseteq S
  BY DEF Loaded, Elements
<1>3. Elements(config)' \subseteq S /\ Elements(boot)' \subseteq S /\ Elements(profiles)' \subseteq S
  BY DEF Elements
<1> QED BY <1>1, <1>2, <1>3 DEF Live

\* A step without a new entry.
LEMMA KnownKept ==
  ASSUME KnownInv, Live' \subseteq Live, used' = used
  PROVE  KnownInv'
BY DEF KnownInv

\* A step with one, whose id is fresh.
LEMMA KnownNew ==
  ASSUME KnownInv, NEW x \in Entry, x.id \notin used, Live' \subseteq Live \cup {x},
         used' = used \cup {x.id}
  PROVE  KnownInv'
BY DEF KnownInv

\* What a handler's step does to the entries it knows, and to the profiles.
LEMMA MoveEntries ==
  ASSUME Typed, NEW h \in Handlers, NEW new, Moves(h, new)
  PROVE  /\ new.c \in {config, login[h].c, <<>>}
         /\ Elements(profiles) \subseteq Elements(profiles')
         /\ Elements(profiles') \subseteq Elements(profiles) \cup Elements(login[h].c)
<1> DEFINE l == login[h]
<1>0. profiles \in Seq(Entry) /\ l.c \in Seq(Entry) /\ l.todo \subseteq DOMAIN l.c
  BY TypeParts DEF Typed, TodoInv, LoginRec
<1>1. new.c \in {config, l.c, <<>>}
  BY Idle DEF Moves, At, LoadedFile
<1>2. CASE UNCHANGED profiles
  BY <1>1, <1>2
<1>3. CASE \E k \in l.todo : profiles' = Append(profiles, l.c[k])
  <2>1. PICK k \in l.todo : profiles' = Append(profiles, l.c[k])
    BY <1>3
  <2>2. l.c[k] \in Elements(l.c) /\ l.c[k] \in Entry
    BY <1>0, ElementsOfList DEF Elements
  <2>3. Elements(Append(profiles, l.c[k])) = Elements(profiles) \cup {l.c[k]}
    BY <1>0, <2>2, ElementsOfList
  <2> QED BY <1>1, <2>1, <2>2, <2>3
<1> QED BY <1>2, <1>3 DEF Moves

\* Every step keeps KnownInv.
LEMMA KnownStep ==
  ASSUME Typed, KnownInv, [Next]_vars
  PROVE  KnownInv'
<1>0. /\ config \in Seq(Entry) /\ boot \in Seq(Entry) /\ profiles \in Seq(Entry)
      /\ cli \in [Editors -> CliRec] /\ login \in [Handlers -> LoginRec]
  BY TypeParts DEF Typed
<1>1. Elements(<<>>) = {}
  BY DEF Elements
<1>2. ASSUME NEW e \in Editors, edit(e) PROVE KnownInv'
  <2>1. Edits(e) /\ UNCHANGED <<daemon, boot, profiles, raced, login>>
    BY <1>0, <1>2, EditorMoves
  <2>2. \A f \in Editors : cli'[f].c \in {cli[f].c, config, <<>>}
    BY <1>0, <2>1 DEF Edits, NoEdit
  <2>3. \A f \in Editors : Elements(cli'[f].c) \subseteq Live
    BY <1>1, <2>2, LiveParts
  <2>4. CASE used' = used
    <3>1. Elements(config') \subseteq Live
      <4>1. \/ config' = config \/ Elements(config') \subseteq Elements(cli[e].c)
            \/ \E x \in Entry : x.id \notin used /\ used' = used \cup {x.id}
        BY <2>1 DEF Edits
      <4> QED BY <2>4, <4>1, LiveParts
    <3>2. Live' \subseteq Live
      BY <2>1, <2>3, <3>1, LiveParts, LiveAfter
    <3> QED BY <2>4, <3>2, KnownKept
  <2>5. CASE used' # used
    <3>1. PICK x \in Entry : /\ x.id \notin used
                             /\ Elements(config') = Elements(cli[e].c) \cup {x}
                             /\ used' = used \cup {x.id}
      BY <2>1, <2>5 DEF Edits
    <3> DEFINE S == Live \cup {x}
    <3>2. Live \subseteq S /\ Elements(config') \subseteq S
      BY <3>1, LiveParts
    <3> HIDE DEF S
    <3>3. Live' \subseteq S
      BY <2>1, <2>3, <3>2, LiveParts, LiveAfter
    <3> QED BY <3>1, <3>3, KnownNew DEF S
  <2> QED BY <2>4, <2>5
<1>3. ASSUME NEW h \in Handlers, handle(h) PROVE KnownInv'
  <2>1. UNCHANGED <<config, used, cli, daemon, boot>>
    BY <1>0, <1>3, HandlerMoves
  <2>2. PICK new : login' = [login EXCEPT ![h] = new] /\ Moves(h, new)
    BY <1>0, <1>3, HandlerMoves
  <2>3. /\ new.c \in {config, login[h].c, <<>>}
        /\ Elements(profiles') \subseteq Elements(profiles) \cup Elements(login[h].c)
    BY <2>2, MoveEntries
  <2>4. \A g \in Handlers : login'[g].c \in {config, login[g].c, <<>>}
    BY <1>0, <2>2, <2>3
  <2>5. \A g \in Handlers : Elements(login'[g].c) \subseteq Live
    BY <1>1, <2>4, LiveParts
  <2>6. Elements(profiles') \subseteq Live
    BY <2>3, LiveParts
  <2>7. Live' \subseteq Live
    BY <2>1, <2>5, <2>6, LiveParts, LiveAfter
  <2> QED BY <2>1, <2>7, KnownKept
<1>4. CASE BootLoad
  <2>1. UNCHANGED <<config, used, cli, profiles, login>> /\ boot' = config
    BY <1>4 DEF BootLoad
  <2>2. Live' \subseteq Live
    BY <2>1, LiveParts, LiveAfter
  <2> QED BY <2>1, <2>2, KnownKept
<1>5. CASE BootStarts
  <2>1. /\ UNCHANGED <<config, used, cli, login>> /\ boot # <<>>
        /\ boot' = Tail(boot) /\ profiles' = Append(profiles, Head(boot))
    BY <1>5 DEF BootStarts
  <2>2. Head(boot) \in Entry /\ Elements(boot) = Elements(Tail(boot)) \cup {Head(boot)}
    BY <1>0, <2>1, ElementsOfList
  <2>3. Elements(Append(profiles, Head(boot))) = Elements(profiles) \cup {Head(boot)}
    BY <1>0, <2>2, ElementsOfList
  <2>4. Elements(boot') \subseteq Live /\ Elements(profiles') \subseteq Live
    BY <2>1, <2>2, <2>3, LiveParts
  <2>5. Live' \subseteq Live
    BY <2>1, <2>4, LiveParts, LiveAfter
  <2> QED BY <2>1, <2>5, KnownKept
<1>6. CASE Exit
  <2>1. /\ UNCHANGED <<config, used, cli>> /\ boot' = <<>> /\ profiles' = <<>>
        /\ login' = [h \in Handlers |-> NoLogin]
    BY <1>6 DEF Exit
  <2>2. \A h \in Handlers : Elements(login'[h].c) \subseteq Live
    BY <1>1, <2>1, Idle
  <2>3. Live' \subseteq Live
    BY <1>1, <2>1, <2>2, LiveParts, LiveAfter
  <2> QED BY <2>1, <2>3, KnownKept
<1>7. CASE BootDone \/ UNCHANGED vars
  <2>1. UNCHANGED <<config, used, cli, boot, profiles, login>>
    BY <1>7 DEF BootDone, vars
  <2>2. Live' \subseteq Live
    BY <2>1, LiveParts, LiveAfter
  <2> QED BY <2>1, <2>2, KnownKept
<1> QED BY <1>2, <1>3, <1>4, <1>5, <1>6, <1>7 DEF Next

\* A step that leaves the handlers alone, or ends them, or is one of theirs.
LEMMA LoginSteps ==
  ASSUME Typed, [Next]_vars
  PROVE  \/ login' = login /\ Elements(profiles) \subseteq Elements(profiles')
         \/ login' = [h \in Handlers |-> NoLogin]
         \/ \E h \in Handlers : \E new : login' = [login EXCEPT ![h] = new] /\ Moves(h, new)
<1>0. /\ boot \in Seq(Entry) /\ profiles \in Seq(Entry)
      /\ cli \in [Editors -> CliRec] /\ login \in [Handlers -> LoginRec]
  BY TypeParts DEF Typed
<1>1. ASSUME NEW e \in Editors, edit(e) PROVE UNCHANGED <<login, profiles>>
  BY <1>0, <1>1, EditorMoves
<1>2. ASSUME NEW h \in Handlers, handle(h)
      PROVE  \E new : login' = [login EXCEPT ![h] = new] /\ Moves(h, new)
  BY <1>0, <1>2, HandlerMoves
<1>3. CASE BootStarts
  <2>1. boot # <<>> /\ profiles' = Append(profiles, Head(boot)) /\ login' = login
    BY <1>3 DEF BootStarts
  <2>2. Head(boot) \in Entry
    BY <1>0, <2>1, ElementsOfList
  <2>3. Elements(Append(profiles, Head(boot))) = Elements(profiles) \cup {Head(boot)}
    BY <1>0, <2>2, ElementsOfList
  <2> QED BY <2>1, <2>3
<1> QED BY <1>1, <1>2, <1>3 DEF Next, BootLoad, BootDone, Exit, vars

\* Every step keeps StartsInv: the profiles grow while logins are under way.
LEMMA StartsStep ==
  ASSUME Typed, StartsInv, [Next]_vars
  PROVE  StartsInv'
<1>0. profiles \in Seq(Entry) /\ login \in [Handlers -> LoginRec]
  BY TypeParts DEF Typed
<1> DEFINE Fits(r, ps) ==
             /\ r.pc \in {"start", "append"} =>
                  \A k \in DOMAIN r.c : k \in r.todo \/ r.c[k].id \in IdsOf(ps)
             /\ r.pc = "login" => IdsOf(r.c) \subseteq IdsOf(ps)
<1>1. \A h \in Handlers : Fits(login[h], profiles)
  BY DEF StartsInv
<1>2. SUFFICES \A h \in Handlers : Fits(login'[h], profiles')
  BY DEF StartsInv, IdsOf, Elements
<1>3. Elements(profiles) \subseteq Elements(profiles') => IdsOf(profiles) \subseteq IdsOf(profiles')
  BY DEF IdsOf
<1>4. CASE login' = login /\ Elements(profiles) \subseteq Elements(profiles')
  BY <1>1, <1>3, <1>4
<1>5. CASE login' = [h \in Handlers |-> NoLogin]
  BY <1>5, Idle
<1>6. ASSUME NEW h \in Handlers, NEW new, login' = [login EXCEPT ![h] = new], Moves(h, new)
      PROVE  \A g \in Handlers : Fits(login'[g], profiles')
  <2> DEFINE l == login[h]
  <2>0. l.c \in Seq(Entry) /\ l.todo \subseteq DOMAIN l.c
    BY <1>0 DEF Typed, TodoInv, LoginRec
  <2>1. IdsOf(profiles) \subseteq IdsOf(profiles')
    BY <1>3, <1>6, MoveEntries
  <2>2. CASE new.pc \in {"idle", "snapshot"}
    BY <1>0, <1>1, <1>6, <2>1, <2>2
  <2>3. CASE new = At(l, "start", Missing(l.c))
    <3>1. Fits(new, profiles)
      BY <2>3 DEF At, Missing
    <3> QED BY <1>0, <1>1, <1>6, <2>1, <3>1
  <2>4. CASE l.pc = "start" /\ new = At(l, "append", l.todo)
    <3>1. Fits(new, profiles)
      BY <1>1, <2>4 DEF At
    <3> QED BY <1>0, <1>1, <1>6, <2>1, <3>1
  <2>5. ASSUME l.pc = "append", NEW k \in l.todo, new = At(l, "start", l.todo \ {k}),
               profiles' = Append(profiles, l.c[k])
        PROVE  \A g \in Handlers : Fits(login'[g], profiles')
    <3>1. l.c[k] \in Entry
      BY <2>0, ElementOfSeq
    <3>2. l.c[k].id \in IdsOf(profiles')
      BY <1>0, <2>5, <3>1, ElementsOfList DEF IdsOf
    <3>3. \A j \in DOMAIN l.c : j \in l.todo \/ l.c[j].id \in IdsOf(profiles')
      BY <1>1, <2>1, <2>5
    <3>4. Fits(new, profiles')
      BY <2>5, <3>2, <3>3 DEF At
    <3> QED BY <1>0, <1>1, <1>6, <2>1, <3>4
  <2>6. CASE l.pc = "start" /\ l.todo = {} /\ new = At(l, "login", {})
    <3>1. \A j \in DOMAIN l.c : l.c[j].id \in IdsOf(profiles)
      BY <1>1, <2>6
    <3>2. IdsOf(l.c) \subseteq IdsOf(profiles)
      BY <3>1 DEF IdsOf, Elements
    <3>3. Fits(new, profiles)
      BY <2>6, <3>2 DEF At
    <3> QED BY <1>0, <1>1, <1>6, <2>1, <3>3
  <2>7. CASE new = LoadedFile
    BY <2>2, <2>7 DEF LoadedFile
  <2>8. CASE new = NoLogin
    BY <2>2, <2>8, Idle
  <2> QED BY <1>6, <2>3, <2>4, <2>5, <2>6, <2>7, <2>8 DEF Moves
<1> QED BY <1>4, <1>5, <1>6, LoginSteps

\* The initial state has all of it.
LEMMA InitialInvs ==
  ASSUME Init
  PROVE  Typed /\ KnownInv /\ StartsInv /\ BootInv /\ AloneInv
<1>1. /\ config = <<>> /\ boot = <<>> /\ profiles = <<>> /\ daemon = "down"
      /\ \A e \in Editors : cli[e].c = <<>>
      /\ \A h \in Handlers : login[h].c = <<>> /\ login[h].todo = {} /\ login[h].pc = "idle"
  BY Idle DEF Init, NoEdit
<1>2. Elements(<<>>) = {}
  BY DEF Elements
<1>3. Copied = {} /\ Loaded = {}
  BY <1>1, <1>2 DEF Copied, Loaded
<1>4. Live = {}
  BY <1>1, <1>2, <1>3 DEF Live
<1>5. KnownInv
  BY <1>4 DEF KnownInv
<1>6. StartsInv
  BY <1>1 DEF StartsInv
<1>7. BootInv
  BY <1>1 DEF BootInv, DistinctIds, IdsOf, Elements
<1>8. AloneInv
  <2>1. \A h \in Handlers : Starts[h] = {}
    BY <1>1 DEF Starts, ToStart
  <2> QED BY <1>1, <1>2, <2>1 DEF AloneInv, Alone, IdsOf
<1> QED BY <1>5, <1>6, <1>7, <1>8, InitialTypes

-----------------------------------------------------------------------------
\* Every variable of the file, the editors, the daemon and its handlers has its
\* type: what a login appends is an entry of the file it loaded.
THEOREM ProfileTypes == Spec => []TypeOK
<1>1. Init => Typed
  BY InitialTypes
<1>2. Typed /\ [Next]_vars => Typed'
  BY TypedStep
<1>3. Typed => TypeOK
  BY DEF Typed
<1> QED BY <1>1, <1>2, <1>3, PTL DEF Spec

\* However many editors and logins there are, a login that goes through has every
\* profile of the file it loaded running.
THEOREM LoginsStartAll == Spec => []LoginStartsAll
<1> DEFINE Inv == Typed /\ StartsInv
<1>1. Init => Inv
  BY InitialInvs
<1>2. Inv /\ [Next]_vars => Inv'
  BY TypedStep, StartsStep
<1>3. Inv => LoginStartsAll
  BY DEF StartsInv, LoginStartsAll
<1> QED BY <1>1, <1>2, <1>3, PTL DEF Spec

-----------------------------------------------------------------------------
\* One engine per profile.

\* The ids of a sequence of entries that is extended by one.
LEMMA ExtendedIds ==
  ASSUME NEW s \in Seq(Entry), NEW x \in Entry
  PROVE  /\ IdsOf(Append(s, x)) = IdsOf(s) \cup {x.id}
         /\ \A j, k \in DOMAIN Append(s, x) :
              Append(s, x)[j].id = Append(s, x)[k].id =>
                \/ j \in DOMAIN s /\ k \in DOMAIN s /\ s[j].id = s[k].id
                     /\ s[j].id = Append(s, x)[j].id
                \/ j = k
                \/ x.id \in IdsOf(s) /\ x.id = Append(s, x)[j].id
<1> DEFINE t == Append(s, x)
           n == Len(s)
<1>1. /\ t \in Seq(Entry) /\ Len(t) = n + 1 /\ t[n + 1] = x /\ \A i \in 1 .. n : t[i] = s[i]
  BY AppendProperties
<1>2. n \in Nat /\ DOMAIN s = 1 .. n /\ DOMAIN t = 1 .. n + 1
  BY <1>1, LenProperties
<1>3. Elements(t) = Elements(s) \cup {x}
  BY ElementsOfList
<1> HIDE DEF t, n
<1>4. IdsOf(t) = IdsOf(s) \cup {x.id}
  BY <1>3 DEF IdsOf
<1>5. \A i \in DOMAIN t : i = n + 1 \/ (i \in DOMAIN s /\ t[i] = s[i] /\ s[i].id \in IdsOf(s))
  BY <1>1, <1>2 DEF IdsOf, Elements
<1>6. ASSUME NEW j \in DOMAIN t, NEW k \in DOMAIN t, t[j].id = t[k].id
      PROVE  \/ j \in DOMAIN s /\ k \in DOMAIN s /\ s[j].id = s[k].id /\ s[j].id = t[j].id
             \/ j = k
             \/ x.id \in IdsOf(s) /\ x.id = t[j].id
  BY <1>1, <1>5, <1>6
<1> QED BY <1>4, <1>6 DEF t

\* The first of a sequence with different ids is not among the rest.
LEMMA DistinctRest ==
  ASSUME NEW s \in Seq(Entry), DistinctIds(s), s # <<>>
  PROVE  /\ DistinctIds(Tail(s)) /\ Head(s).id \notin IdsOf(Tail(s))
         /\ IdsOf(s) = IdsOf(Tail(s)) \cup {Head(s).id}
<1>1. DOMAIN s = 1 .. Len(s) /\ Len(s) \in Nat
  BY ElementOfSeq
<1>2. /\ Tail(s) \in Seq(Entry) /\ Len(Tail(s)) = Len(s) - 1 /\ Head(s) = s[1] /\ Len(s) >= 1
      /\ \A i \in 1 .. Len(Tail(s)) : Tail(s)[i] = s[i + 1]
  BY <1>1, HeadTailProperties, EmptySeq
<1>3. DOMAIN Tail(s) = 1 .. (Len(s) - 1)
  BY <1>2
<1>4. \A i \in DOMAIN Tail(s) : i + 1 \in DOMAIN s /\ i + 1 # 1 /\ Tail(s)[i].id = s[i + 1].id
  BY <1>1, <1>2, <1>3
<1>5. DistinctIds(Tail(s))
  <2>1. \A i, j \in DOMAIN Tail(s) : i # j => i + 1 # j + 1
    BY <1>1, <1>3
  <2> QED BY <1>4, <2>1 DEF DistinctIds
<1>6. \A i \in DOMAIN Tail(s) : Tail(s)[i].id # Head(s).id
  <2>1. 1 \in DOMAIN s
    BY <1>1, <1>2
  <2> QED BY <1>2, <1>4, <2>1 DEF DistinctIds
<1>7. Head(s).id \notin IdsOf(Tail(s))
  BY <1>6 DEF IdsOf, Elements
<1>8. Elements(s) = Elements(Tail(s)) \cup {Head(s)}
  BY ElementsOfList
<1>9. IdsOf(s) = IdsOf(Tail(s)) \cup {Head(s).id}
  BY <1>8 DEF IdsOf
<1> QED BY <1>5, <1>7, <1>9

\* Every step keeps BootInv.
LEMMA BootStep ==
  ASSUME Typed, BootInv, [Next]_vars
  PROVE  BootInv'
<1>0. /\ config \in Seq(Entry) /\ boot \in Seq(Entry) /\ profiles \in Seq(Entry)
      /\ cli \in [Editors -> CliRec] /\ login \in [Handlers -> LoginRec]
  BY TypeParts DEF Typed
<1>1. DistinctIds(<<>>)
  BY DEF DistinctIds
<1>2. ASSUME NEW e \in Editors, edit(e) PROVE BootInv'
  <2>1. Edits(e) /\ UNCHANGED <<daemon, boot, profiles, raced, login>>
    BY <1>0, <1>2, EditorMoves
  <2>2. DistinctIds(config')
    BY <2>1 DEF Edits, Valid, DistinctIds, BootInv
  <2> QED BY <2>1, <2>2 DEF BootInv, DistinctIds
<1>3. ASSUME NEW h \in Handlers, handle(h) PROVE BootInv'
  <2>1. UNCHANGED <<config, daemon, boot>>
    BY <1>0, <1>3, HandlerMoves
  <2>2. PICK new : login' = [login EXCEPT ![h] = new] /\ Moves(h, new)
    BY <1>0, <1>3, HandlerMoves
  <2>3. \A g \in Handlers : login'[g] = IF g = h THEN new ELSE login[g]
    BY <1>0, <2>2
  <2>4. daemon # "up" => login[h].pc = "idle"
    BY DEF BootInv
  <2>5. daemon # "up" => UNCHANGED profiles /\ new.pc = "idle"
    BY <2>2, <2>4, Idle DEF Moves
  <2>6. new.c \in {config, login[h].c, <<>>}
    BY <2>2, MoveEntries
  <2>7. \A g \in Handlers : DistinctIds(login'[g].c)
    BY <1>1, <2>3, <2>6 DEF BootInv
  <2> QED BY <2>1, <2>3, <2>5, <2>7 DEF BootInv, DistinctIds
<1>4. CASE BootLoad
  BY <1>4 DEF BootLoad, BootInv, DistinctIds
<1>5. CASE BootStarts
  <2>1. /\ UNCHANGED <<config, daemon, login>> /\ boot # <<>> /\ daemon = "starting"
        /\ boot' = Tail(boot)
    BY <1>5 DEF BootStarts
  <2>2. DistinctIds(Tail(boot))
    BY <1>0, <2>1, DistinctRest DEF BootInv
  <2> QED BY <2>1, <2>2 DEF BootInv, DistinctIds
<1>6. CASE BootDone
  BY <1>6 DEF BootDone, BootInv, DistinctIds
<1>7. CASE Exit
  <2>1. /\ UNCHANGED config /\ boot' = <<>> /\ profiles' = <<>> /\ daemon' = "down"
        /\ login' = [h \in Handlers |-> NoLogin]
    BY <1>7 DEF Exit
  <2>2. \A h \in Handlers : login'[h].pc = "idle" /\ login'[h].c = <<>>
    BY <2>1, Idle
  <2> QED BY <1>1, <2>1, <2>2 DEF BootInv, DistinctIds
<1>8. CASE UNCHANGED vars
  BY <1>8 DEF vars, BootInv, DistinctIds
<1> QED BY <1>2, <1>3, <1>4, <1>5, <1>6, <1>7, <1>8 DEF Next

\* AloneInv after a step.
LEMMA AloneAfter ==
  ASSUME \A i \in Ids \ raced' : Alone(i, profiles', boot', Starts')
  PROVE  AloneInv'
BY DEF AloneInv, Alone, IdsOf, Elements, Starts, ToStart

\* A step of a handler keeps AloneInv: a profile that it has to start, and no other
\* login, has no engine.
LEMMA AloneMove ==
  ASSUME Typed, BootInv, AloneInv, NEW h \in Handlers, NEW new,
         login' = [login EXCEPT ![h] = new], Moves(h, new), UNCHANGED boot
  PROVE  AloneInv'
<1> DEFINE l == login[h]
           mine == {new.c[k].id : k \in new.todo}
<1>0. /\ profiles \in Seq(Entry) /\ login \in [Handlers -> LoginRec] /\ l.c \in Seq(Entry)
      /\ l.todo \subseteq DOMAIN l.c
  BY TypeParts DEF Typed, TodoInv, LoginRec
<1>1. \A g \in Handlers : Starts'[g] = IF g = h THEN mine ELSE Starts[g]
  BY <1>0 DEF Starts, ToStart
<1>2. Starts[h] = {l.c[k].id : k \in l.todo}
  BY DEF Starts, ToStart
<1>3. SUFFICES ASSUME NEW i \in Ids \ raced' PROVE Alone(i, profiles', boot, Starts')
  BY AloneAfter
<1>4. i \in Ids \ raced
  BY <1>3 DEF Moves
<1>5. Alone(i, profiles, boot, Starts)
  BY <1>4 DEF AloneInv
<1>6. ASSUME UNCHANGED profiles, i \in mine => i \in Starts[h]
      PROVE  Alone(i, profiles', boot, Starts')
  BY <1>1, <1>5, <1>6 DEF Alone
<1>7. CASE UNCHANGED profiles /\ (new = LoadedFile \/ new = NoLogin \/ new = At(l, "login", {}))
  <2>1. mine = {}
    BY <1>7, Idle DEF LoadedFile, At
  <2> QED BY <1>6, <1>7, <2>1
<1>8. CASE UNCHANGED profiles /\ new = At(l, "append", l.todo)
  <2>1. mine = Starts[h]
    BY <1>2, <1>8 DEF At
  <2> QED BY <1>6, <1>8, <2>1
<1>9. CASE /\ UNCHANGED profiles /\ new = At(l, "start", Missing(l.c))
           /\ raced' = raced \cup ({l.c[k].id : k \in Missing(l.c)}
                                     \cap UNION {ToStart(g) : g \in Handlers})
  <2>1. mine = {l.c[k].id : k \in Missing(l.c)}
    BY <1>9 DEF At
  <2>2. i \in mine => i \notin IdsOf(profiles)
    BY <2>1 DEF Missing
  <2>3. i \in mine => \A g \in Handlers : i \notin ToStart(g)
    BY <1>3, <1>9, <2>1
  <2>4. \A g \in Handlers : Starts[g] = ToStart(g)
    BY DEF Starts
  <2> HIDE DEF mine
  <2> QED BY <1>1, <1>5, <1>9, <2>2, <2>3, <2>4 DEF Alone
<1>10. ASSUME l.pc = "append", NEW k \in l.todo, new = At(l, "start", l.todo \ {k}),
              profiles' = Append(profiles, l.c[k])
       PROVE  Alone(i, profiles', boot, Starts')
  <2> DEFINE z == l.c[k]
             more == Append(profiles, z)
  <2>1. z \in Entry /\ z.id \in Starts[h]
    BY <1>0, <1>2, ElementOfSeq
  <2>2. mine = {l.c[j].id : j \in l.todo \ {k}}
    BY <1>10 DEF At
  <2>3. mine \subseteq Starts[h] /\ z.id \notin mine
    BY <1>0, <1>2, <2>2 DEF BootInv, DistinctIds
  <2>4. boot = <<>>
    <3>1. daemon = "up"
      BY <1>10 DEF BootInv
    <3> QED BY <3>1 DEF BootInv
  <2>5. i \notin IdsOf(boot)
    BY <2>4 DEF IdsOf, Elements
  <2> HIDE DEF z, mine
  <2>6. /\ IdsOf(more) = IdsOf(profiles) \cup {z.id}
        /\ \A j, n \in DOMAIN more : more[j].id = more[n].id =>
             \/ j \in DOMAIN profiles /\ n \in DOMAIN profiles /\ profiles[j].id = profiles[n].id
                  /\ profiles[j].id = more[j].id
             \/ j = n
             \/ z.id \in IdsOf(profiles) /\ z.id = more[j].id
    BY <1>0, <2>1, ExtendedIds
  <2>7. profiles' = more
    BY <1>10 DEF z
  <2> HIDE DEF more
  <2>8. i = z.id => i \notin IdsOf(profiles)
    BY <1>5, <2>1 DEF Alone
  <2>9. \A j, n \in DOMAIN more : more[j].id = i /\ more[n].id = i => j = n
    BY <1>5, <2>6, <2>8 DEF Alone
  <2>10. \A g \in Handlers : i \in Starts'[g] => i \in Starts[g] /\ (i = z.id => g # h)
    BY <1>1, <2>3
  <2>11. \A g \in Handlers : i \in Starts'[g] => i # z.id
    BY <1>5, <2>1, <2>10 DEF Alone
  <2>12. \A g \in Handlers : i \in Starts'[g] => i \notin IdsOf(more)
    BY <1>5, <2>6, <2>10, <2>11 DEF Alone
  <2>13. \A f, g \in Handlers : i \in Starts'[f] /\ i \in Starts'[g] => f = g
    BY <1>5, <2>10 DEF Alone
  <2> QED BY <2>5, <2>7, <2>9, <2>12, <2>13 DEF Alone
<1> QED BY <1>7, <1>8, <1>9, <1>10 DEF Moves

\* Every step keeps AloneInv.
LEMMA AloneStep ==
  ASSUME Typed, BootInv, AloneInv, [Next]_vars
  PROVE  AloneInv'
<1>0. /\ config \in Seq(Entry) /\ boot \in Seq(Entry) /\ profiles \in Seq(Entry)
      /\ cli \in [Editors -> CliRec] /\ login \in [Handlers -> LoginRec]
  BY TypeParts DEF Typed
<1>1. IdsOf(<<>>) = {}
  BY DEF IdsOf, Elements
<1>2. UNCHANGED login => Starts' = Starts
  BY DEF Starts, ToStart
<1>3. ASSUME UNCHANGED <<profiles, boot, raced, login>> PROVE AloneInv'
  BY <1>2, <1>3, AloneAfter DEF AloneInv
<1>4. ASSUME NEW e \in Editors, edit(e) PROVE AloneInv'
  BY <1>0, <1>3, <1>4, EditorMoves
<1>5. ASSUME NEW h \in Handlers, handle(h) PROVE AloneInv'
  <2>1. UNCHANGED boot
    BY <1>0, <1>5, HandlerMoves
  <2>2. PICK new : login' = [login EXCEPT ![h] = new] /\ Moves(h, new)
    BY <1>0, <1>5, HandlerMoves
  <2> QED BY <2>1, <2>2, AloneMove
<1>6. CASE BootLoad
  <2>1. UNCHANGED <<profiles, raced, login>> /\ daemon = "down"
    BY <1>6 DEF BootLoad
  <2>2. profiles = <<>>
    BY <2>1 DEF BootInv
  <2> QED BY <1>1, <1>2, <2>1, <2>2, AloneAfter DEF AloneInv, Alone
<1>7. CASE BootStarts
  <2>1. /\ UNCHANGED <<raced, login>> /\ boot # <<>> /\ daemon = "starting"
        /\ boot' = Tail(boot) /\ profiles' = Append(profiles, Head(boot))
    BY <1>7 DEF BootStarts
  <2> DEFINE x == Head(boot)
             rest == Tail(boot)
             more == Append(profiles, x)
  <2>2. x \in Entry
    BY <1>0, <2>1, ElementsOfList
  <2>3. x.id \notin IdsOf(rest) /\ IdsOf(boot) = IdsOf(rest) \cup {x.id}
    BY <1>0, <2>1, DistinctRest DEF BootInv
  <2> HIDE DEF x
  <2>4. /\ IdsOf(more) = IdsOf(profiles) \cup {x.id}
        /\ \A j, n \in DOMAIN more : more[j].id = more[n].id =>
             \/ j \in DOMAIN profiles /\ n \in DOMAIN profiles /\ profiles[j].id = profiles[n].id
                  /\ profiles[j].id = more[j].id
             \/ j = n
             \/ x.id \in IdsOf(profiles) /\ x.id = more[j].id
    BY <1>0, <2>2, ExtendedIds
  <2>5. boot' = rest /\ profiles' = more /\ Starts' = Starts
    BY <1>2, <2>1 DEF x
  <2>6. \A h \in Handlers : Starts[h] = {}
    <3>1. \A h \in Handlers : login[h].pc = "idle"
      BY <2>1 DEF BootInv
    <3>2. \A h \in Handlers : login[h].todo = {}
      BY <3>1 DEF Typed, TodoInv
    <3> QED BY <3>2 DEF Starts, ToStart
  <2> HIDE DEF rest, more
  <2>7. ASSUME NEW i \in Ids \ raced' PROVE Alone(i, more, rest, Starts)
    <3>1. i \in Ids \ raced
      BY <2>1
    <3>2. Alone(i, profiles, boot, Starts)
      BY <3>1 DEF AloneInv
    <3>3. i = x.id => i \notin IdsOf(profiles)
      BY <2>3, <3>2 DEF Alone
    <3>4. \A j, n \in DOMAIN more : more[j].id = i /\ more[n].id = i => j = n
      BY <2>4, <3>2, <3>3 DEF Alone
    <3>5. i \in IdsOf(rest) => i \notin IdsOf(more)
      BY <2>3, <2>4, <3>2 DEF Alone
    <3> QED BY <2>6, <3>4, <3>5 DEF Alone
  <2> QED BY <2>5, <2>7, AloneAfter
<1>8. CASE Exit
  <2>1. boot' = <<>> /\ profiles' = <<>> /\ login' = [h \in Handlers |-> NoLogin]
    BY <1>8 DEF Exit
  <2>2. \A h \in Handlers : Starts'[h] = {}
    BY <2>1, Idle DEF Starts, ToStart
  <2>3. \A i : Alone(i, <<>>, <<>>, Starts')
    BY <1>1, <2>2 DEF Alone
  <2> QED BY <2>1, <2>3, AloneAfter
<1>9. CASE BootDone \/ UNCHANGED vars
  BY <1>3, <1>9 DEF BootDone, vars
<1> QED BY <1>4, <1>5, <1>6, <1>7, <1>8, <1>9 DEF Next

\* A set without two elements has at most one.
LEMMA AtMostOne ==
  ASSUME NEW S, \A x, y \in S : x = y
  PROVE  Cardinality(S) \in {0, 1} /\ (S = {} => Cardinality(S) = 0)
<1>1. CASE S = {}
  BY <1>1, FS_EmptySet
<1>2. CASE S # {}
  <2>1. PICK x : x \in S
    BY <1>2
  <2>2. S = {x}
    BY <2>1
  <2> QED BY <1>2, <2>2, FS_Singleton
<1> QED BY <1>1, <1>2

\* For any number of handlers: however logins overlap and fail, the file is edited and
\* the daemon is restarted, no profile gets a second engine on its state directory, but
\* one that two logins have had to start at the same time.
THEOREM OneEngineEach == Spec => []OneEngineUnlessRaced
<1> DEFINE Inv == Typed /\ BootInv /\ AloneInv
<1>1. Init => Inv
  BY InitialInvs
<1>2. Inv /\ [Next]_vars => Inv'
  BY TypedStep, BootStep, AloneStep
<1>3. ASSUME Inv PROVE OneEngineUnlessRaced
  <2> SUFFICES ASSUME NEW i \in Ids \ raced
               PROVE  Cardinality({k \in DOMAIN profiles : profiles[k].id = i})
                        + Cardinality(Starting(i)) <= 1
    BY DEF OneEngineUnlessRaced
  <2> DEFINE Engines == {k \in DOMAIN profiles : profiles[k].id = i}
  <2>0. Alone(i, profiles, boot, Starts)
    BY <1>3 DEF AloneInv
  <2>1. \A j, k \in Engines : j = k
    BY <2>0 DEF Alone
  <2>2. \A h \in Starting(i) : h \in Handlers /\ i \in Starts[h]
    BY DEF Starting, First, Starts, ToStart
  <2>3. \A g, h \in Starting(i) : g = h
    BY <2>0, <2>2 DEF Alone
  <2>4. Engines = {} \/ Starting(i) = {}
    <3>1. ASSUME NEW h \in Starting(i) PROVE i \notin IdsOf(profiles)
      BY <2>0, <2>2 DEF Alone
    <3>2. ASSUME NEW k \in Engines PROVE i \in IdsOf(profiles)
      BY DEF IdsOf, Elements
    <3> QED BY <3>1, <3>2
  <2> HIDE DEF Engines
  <2>5. Cardinality(Engines) \in {0, 1} /\ (Engines = {} => Cardinality(Engines) = 0)
    BY <2>1, AtMostOne
  <2>6. /\ Cardinality(Starting(i)) \in {0, 1}
        /\ (Starting(i) = {} => Cardinality(Starting(i)) = 0)
    BY <2>3, AtMostOne
  <2>7. Cardinality(Engines) + Cardinality(Starting(i)) <= 1
    BY <2>4, <2>5, <2>6
  <2> QED BY <2>7 DEF Engines
<1> QED BY <1>1, <1>2, <1>3, PTL DEF Spec

-----------------------------------------------------------------------------
\* The order of the file.

\* In s, the entry of id x stands before that of id y.
Before(s, x, y) == \E i, j \in DOMAIN s : i < j /\ s[i].id = x /\ s[j].id = y

\* In t, an entry of id x stands before every one of id y.
Precedes(t, x, y) ==
  \A j \in DOMAIN t : t[j].id = y => \E i \in DOMAIN t : i < j /\ t[i].id = x

\* t has what stands in s before an entry of t, and has it before that entry.
Inherits(s, t) == \A x, y : Before(s, x, y) => Precedes(t, x, y)

\* What runs, and what is about to.
Running == profiles \o boot

\* An editor works on the file as it is, and until the file is reordered: the engines
\* stand in the order of the file, and so does the copy that a login has of it: an
\* entry the file has gained since that copy stands last.
OrderInv ==
  /\ \A e \in Editors : cli[e].pc = "loaded" => cli[e].c = config
  /\ ~moved /\ daemon # "down" =>
       /\ Inherits(config, Running)
       /\ \A h \in Handlers : login[h].pc \in {"snapshot", "start", "append"} =>
            Inherits(config, login[h].c)

\* No two commands are between loading the file and replacing it.
EditsApart ==
  \A e, f \in Editors : cli[e].pc = "loaded" /\ cli[f].pc = "loaded" => e = f

\* Append puts an entry last.
LEMMA BeforeAppend ==
  ASSUME NEW s \in Seq(Entry), NEW z \in Entry
  PROVE  /\ \A x, y : Before(Append(s, z), x, y) => Before(s, x, y) \/ y = z.id
         /\ \A x, y : Precedes(s, x, y) /\ (y = z.id => x \in IdsOf(s))
                        => Precedes(Append(s, z), x, y)
<1> DEFINE t == Append(s, z)
           m == Len(s)
<1>1. /\ t \in Seq(Entry) /\ Len(t) = m + 1
      /\ \A i \in 1 .. m : t[i] = s[i]
      /\ t[m + 1] = z
  BY AppendProperties
<1>2. m \in Nat /\ DOMAIN s = 1 .. m /\ DOMAIN t = 1 .. m + 1
  BY <1>1, LenProperties
<1> HIDE DEF t, m
<1>5. DOMAIN s \subseteq DOMAIN t /\ \A i \in DOMAIN s : t[i] = s[i]
  BY <1>1, <1>2
<1>6. \A j \in DOMAIN t : j = m + 1 \/ j \in DOMAIN s
  BY <1>2
<1>7. ASSUME NEW x, NEW y, Precedes(s, x, y), y = z.id => x \in IdsOf(s) PROVE Precedes(t, x, y)
  <2> SUFFICES ASSUME NEW j \in DOMAIN t, t[j].id = y
               PROVE  \E i \in DOMAIN t : i < j /\ t[i].id = x
    BY DEF Precedes
  <2>1. CASE j \in DOMAIN s
    BY <1>5, <1>7, <2>1 DEF Precedes
  <2>2. CASE j = m + 1
    <3>1. y = z.id
      BY <1>1, <2>2
    <3>2. PICK i \in DOMAIN s : s[i].id = x
      BY <1>7, <3>1 DEF IdsOf, Elements
    <3>3. i \in DOMAIN t /\ i < j /\ t[i].id = x
      BY <1>2, <1>5, <2>2, <3>2
    <3> QED BY <3>3
  <2> QED BY <1>6, <2>1, <2>2
<1>8. ASSUME NEW x, NEW y, Before(t, x, y) PROVE Before(s, x, y) \/ y = z.id
  <2>1. PICK i \in DOMAIN t, j \in DOMAIN t : i < j /\ t[i].id = x /\ t[j].id = y
    BY <1>8 DEF Before
  <2>2. CASE j = m + 1
    BY <1>1, <2>1, <2>2
  <2>3. CASE j # m + 1
    <3>1. i \in DOMAIN s /\ j \in DOMAIN s
      BY <1>2, <2>1, <2>3
    <3> QED BY <1>5, <2>1, <3>1 DEF Before
  <2> QED BY <2>2, <2>3
<1> QED BY <1>7, <1>8 DEF t

\* profiles remove keeps the order of the other entries.
LEMMA BeforeWithout ==
  ASSUME NEW c \in Seq(Entry), NEW k \in DOMAIN c, NEW x, NEW y, Before(Without(c, k), x, y)
  PROVE  Before(c, x, y)
<1> DEFINE before == SubSeq(c, 1, k - 1)
           after == SubSeq(c, k + 1, Len(c))
           m == Len(c)
<1>1. k \in 1 .. m /\ m \in Nat /\ DOMAIN c = 1 .. m
  BY LenProperties
<1>2. /\ before \in Seq(Entry) /\ Len(before) = k - 1
      /\ \A i \in 1 .. k - 1 : before[i] = c[i]
  <2>1. /\ before \in Seq(Entry) /\ Len(before) = IF 1 <= k - 1 THEN (k - 1) - 1 + 1 ELSE 0
        /\ \A i \in 1 .. (k - 1) - 1 + 1 : before[i] = c[1 + i - 1]
    BY <1>1, SubSeqProperties
  <2> HIDE DEF before
  <2>2. \A i \in 1 .. k - 1 : i \in 1 .. (k - 1) - 1 + 1 /\ 1 + i - 1 = i
    BY <1>1
  <2> QED BY <1>1, <2>1, <2>2
<1>3. /\ after \in Seq(Entry) /\ Len(after) = m - k
      /\ \A i \in 1 .. m - k : after[i] = c[k + i]
  <2>1. /\ after \in Seq(Entry) /\ Len(after) = IF k + 1 <= m THEN m - (k + 1) + 1 ELSE 0
        /\ \A i \in 1 .. m - (k + 1) + 1 : after[i] = c[(k + 1) + i - 1]
    BY <1>1, SubSeqProperties
  <2> HIDE DEF after
  <2>2. \A i \in 1 .. m - k : i \in 1 .. m - (k + 1) + 1 /\ (k + 1) + i - 1 = k + i
    BY <1>1
  <2> QED BY <1>1, <2>1, <2>2
<1> DEFINE w == before \o after
<1>4. Without(c, k) = w
  BY DEF Without
<1> HIDE DEF before, after, m
<1>5. /\ w \in Seq(Entry) /\ Len(w) = Len(before) + Len(after)
      /\ \A i \in 1 .. Len(before) + Len(after) :
           w[i] = IF i <= Len(before) THEN before[i] ELSE after[i - Len(before)]
  BY <1>2, <1>3, ConcatProperties
<1> HIDE DEF w
<1>6. DOMAIN w = 1 .. m - 1 /\ Len(before) + Len(after) = m - 1
  <2>1. Len(w) = m - 1 /\ Len(before) + Len(after) = m - 1
    BY <1>1, <1>2, <1>3, <1>5
  <2>2. DOMAIN w = 1 .. Len(w)
    BY <1>5, LenProperties
  <2> QED BY <2>1, <2>2
<1> DEFINE At0(i) == IF i <= k - 1 THEN i ELSE i + 1
<1>7. ASSUME NEW i \in DOMAIN w PROVE At0(i) \in DOMAIN c /\ w[i] = c[At0(i)]
  <2>1. i \in 1 .. m - 1
    BY <1>6
  <2>2. CASE i <= k - 1
    <3>1. i \in 1 .. k - 1 /\ i <= Len(before) /\ i \in 1 .. Len(before) + Len(after)
      BY <1>1, <1>2, <1>6, <2>1, <2>2
    <3>2. w[i] = before[i] /\ before[i] = c[i]
      BY <1>2, <1>5, <3>1
    <3> QED BY <1>1, <2>1, <2>2, <3>2
  <2>3. CASE ~(i <= k - 1)
    <3>1. /\ i - (k - 1) \in 1 .. m - k /\ ~(i <= Len(before)) /\ i \in 1 .. Len(before) + Len(after)
          /\ k + (i - (k - 1)) = i + 1 /\ i - Len(before) = i - (k - 1) /\ i + 1 \in 1 .. m
      BY <1>1, <1>2, <1>6, <2>1, <2>3
    <3>2. w[i] = after[i - (k - 1)] /\ after[i - (k - 1)] = c[i + 1]
      BY <1>3, <1>5, <3>1
    <3> QED BY <1>1, <2>3, <3>1, <3>2
  <2> QED BY <2>2, <2>3
<1>8. PICK i \in DOMAIN w, j \in DOMAIN w : i < j /\ w[i].id = x /\ w[j].id = y
  BY <1>4 DEF Before
<1>9. At0(i) < At0(j)
  BY <1>1, <1>6, <1>8
<1>10. /\ At0(i) \in DOMAIN c /\ At0(j) \in DOMAIN c
       /\ c[At0(i)].id = x /\ c[At0(j)].id = y
  BY <1>7, <1>8
<1> QED BY <1>9, <1>10 DEF Before

\* Start moves the first profile from what is to be started to what runs: together they
\* hold the same.
LEMMA BootKeeps ==
  ASSUME NEW S, NEW s \in Seq(S), NEW t \in Seq(S), t # <<>>
  PROVE  /\ Append(s, Head(t)) \in Seq(S) /\ Tail(t) \in Seq(S) /\ Head(t) \in S
         /\ Append(s, Head(t)) \o Tail(t) = s \o t
<1> DEFINE x == Head(t)
           one == <<x>>
           rest == Tail(t)
<1>1. x \in S /\ rest \in Seq(S) /\ one \in Seq(S) /\ x = t[1]
  BY HeadTailProperties
<1>2. t = one \o rest
  <2>1. Len(t) \in Nat \ {0}
    BY EmptySeq
  <2>2. SubSeq(t, 1, Len(t)) = t /\ rest = SubSeq(t, 2, Len(t))
    BY SubSeqFull, TailIsSubSeq
  <2>3. 1 \in 1 .. Len(t) /\ Len(t) \in 1 .. Len(t) /\ 1 + 1 = 2
    BY <2>1
  <2>4. SubSeq(t, 1, Len(t)) = <<t[1]>> \o SubSeq(t, 1 + 1, Len(t))
    BY <2>3, SubSeqRecursiveFirst
  <2> QED BY <1>1, <2>2, <2>3, <2>4
<1>3. Append(s, x) = s \o one /\ Append(s, x) \in Seq(S)
  BY <1>1, AppendIsConcat, AppendProperties
<1> HIDE DEF x, one, rest
<1>4. (s \o one) \o rest = s \o (one \o rest)
  BY <1>1, ConcatAssociative
<1> QED BY <1>1, <1>2, <1>3, <1>4 DEF x, rest

\* OrderInv after a step.
LEMMA OrderAfter ==
  ASSUME \A e \in Editors : cli'[e].pc = "loaded" => cli'[e].c = config',
         ~moved' /\ daemon' # "down" =>
           /\ Inherits(config', profiles' \o boot')
           /\ \A h \in Handlers : login'[h].pc \in {"snapshot", "start", "append"} =>
                Inherits(config', login'[h].c)
  PROVE  OrderInv'
<1>1. Inherits(config, Running)' <=> Inherits(config', profiles' \o boot')
  BY DEF Inherits, Before, Precedes, Running
<1>2. ASSUME NEW h \in Handlers
      PROVE  Inherits(config, login[h].c)' <=> Inherits(config', login'[h].c)
  BY DEF Inherits, Before, Precedes
<1> QED BY <1>1, <1>2 DEF OrderInv

\* An edit that only removes entries, or appends one with a fresh id.
LEMMA EditKeepsOrder ==
  ASSUME Typed, KnownInv, OrderInv, UNCHANGED <<moved, daemon, boot, profiles, login>>,
         \A e \in Editors : cli'[e].pc = "loaded" => cli'[e].c = config',
         \A x, y : Before(config', x, y) => Before(config, x, y) \/ y \notin used
  PROVE  OrderInv'
<1>0. boot \in Seq(Entry) /\ profiles \in Seq(Entry)
  BY TypeParts DEF Typed
<1>1. IdsOf(Running) \subseteq used
  <2>1. Elements(Running) \subseteq Elements(profiles) \cup Elements(boot)
    BY <1>0, JoinedLists DEF Running
  <2>2. Elements(Running) \subseteq Live
    BY <2>1, LiveParts
  <2> QED BY <2>2 DEF IdsOf, KnownInv
<1>2. \A h \in Handlers : IdsOf(login[h].c) \subseteq used
  BY LiveParts DEF IdsOf, KnownInv
<1>3. \A t : IdsOf(t) \subseteq used /\ Inherits(config, t) => Inherits(config', t)
  <2>1. \A t, x, y : IdsOf(t) \subseteq used /\ y \notin used => Precedes(t, x, y)
    BY DEF Precedes, IdsOf, Elements
  <2> QED BY <2>1 DEF Inherits
<1>4. profiles' \o boot' = Running
  BY DEF Running
<1> QED BY <1>1, <1>2, <1>3, <1>4, OrderAfter DEF OrderInv

\* Every step keeps OrderInv while no two edits overlap.
LEMMA OrderStep ==
  ASSUME EditsApart, Typed, KnownInv, StartsInv, BootInv, OrderInv, [Next]_vars
  PROVE  OrderInv'
<1>0. /\ config \in Seq(Entry) /\ boot \in Seq(Entry) /\ profiles \in Seq(Entry)
      /\ cli \in [Editors -> CliRec] /\ login \in [Handlers -> LoginRec]
  BY TypeParts DEF Typed
<1>1. \A e \in Editors : cli[e].pc = "loaded" => cli[e].c = config
  BY DEF OrderInv
<1>2. Inherits(config, config)
  <2>1. DistinctIds(config) /\ \A i \in DOMAIN config : i \in Nat
    BY <1>0, LenProperties DEF BootInv
  <2> QED BY <2>1 DEF Inherits, Before, Precedes, DistinctIds
<1>3. ASSUME NEW e \in Editors, edit(e) PROVE OrderInv'
  <2>0. UNCHANGED <<daemon, boot, profiles, raced, login>>
    BY <1>0, <1>3, EditorMoves
  <2>1. CASE CliLoad(e) \/ CliDies(e)
    <3>1. /\ UNCHANGED <<config, moved>>
          /\ \/ cli' = [cli EXCEPT ![e] = [pc |-> "loaded", c |-> config]]
             \/ cli' = [cli EXCEPT ![e] = NoEdit]
      BY <2>1 DEF CliLoad, CliDies
    <3>2. \A f \in Editors : cli'[f].pc = "loaded" => cli'[f].c = config'
      BY <1>0, <1>1, <3>1 DEF NoEdit
    <3> QED BY <2>0, <3>1, <3>2, EditKeepsOrder
  <2>2. ASSUME cli[e].pc = "loaded", cli' = [cli EXCEPT ![e] = NoEdit]
        PROVE  \A f \in Editors : cli'[f].pc = "loaded" => cli'[f].c = config'
    BY <1>0, <2>2 DEF NoEdit, EditsApart
  <2>3. CASE CliAdd(e)
    <3>1. PICK i \in Ids \ used, n \in Names :
            WriteAtomic(e, Append(cli[e].c, [id |-> i, name |-> n]))
      BY <2>3 DEF CliAdd
    <3> DEFINE z == [id |-> i, name |-> n]
    <3>2. z \in Entry /\ z.id \notin used
      BY DEF Entry
    <3>3. cli[e].pc = "loaded" /\ cli[e].c = config /\ UNCHANGED moved
      BY <1>1, <2>3 DEF CliAdd
    <3>4. config' = Append(config, z) /\ cli' = [cli EXCEPT ![e] = NoEdit]
      BY <3>1, <3>3 DEF WriteAtomic
    <3> HIDE DEF z
    <3>5. \A x, y : Before(Append(config, z), x, y) => Before(config, x, y) \/ y = z.id
      BY <1>0, <3>2, BeforeAppend
    <3>6. \A x, y : Before(config', x, y) => Before(config, x, y) \/ y \notin used
      BY <3>2, <3>4, <3>5
    <3> QED BY <2>0, <2>2, <3>3, <3>4, <3>6, EditKeepsOrder
  <2>4. CASE CliRemove(e)
    <3>1. PICK i \in DOMAIN cli[e].c : WriteAtomic(e, Without(cli[e].c, i))
      BY <2>4 DEF CliRemove
    <3>2. cli[e].pc = "loaded" /\ cli[e].c = config /\ UNCHANGED moved
      BY <1>1, <2>4 DEF CliRemove
    <3>3. config' = Without(config, i) /\ cli' = [cli EXCEPT ![e] = NoEdit] /\ i \in DOMAIN config
      BY <3>1, <3>2 DEF WriteAtomic
    <3>4. \A x, y : Before(config', x, y) => Before(config, x, y)
      BY <1>0, <3>3, BeforeWithout
    <3> QED BY <2>0, <2>2, <3>2, <3>3, <3>4, EditKeepsOrder
  <2>5. CASE CliMove(e)
    <3>1. moved' = TRUE /\ cli[e].pc = "loaded" /\ cli' = [cli EXCEPT ![e] = NoEdit]
      BY <2>5 DEF CliMove, WriteAtomic
    <3>2. ~(~moved')
      BY <3>1
    <3> QED BY <2>2, <3>1, <3>2, OrderAfter
  <2> QED BY <1>3, <2>1, <2>3, <2>4, <2>5 DEF edit
<1>4. ASSUME NEW h \in Handlers, handle(h) PROVE OrderInv'
  <2> DEFINE l == login[h]
             busy == {"snapshot", "start", "append"}
  <2>1. UNCHANGED <<config, moved, cli, daemon, boot>>
    BY <1>0, <1>4, HandlerMoves
  <2>2. PICK new : login' = [login EXCEPT ![h] = new] /\ Moves(h, new)
    BY <1>0, <1>4, HandlerMoves
  <2>3. \A g \in Handlers : login'[g] = IF g = h THEN new ELSE login[g]
    BY <1>0, <2>2
  <2>4. SUFFICES ASSUME ~moved, daemon # "down"
                 PROVE  /\ Inherits(config, profiles' \o boot)
                        /\ new.pc \in busy => Inherits(config, new.c)
    BY <1>1, <2>1, <2>3, OrderAfter DEF OrderInv
  <2>5. /\ Inherits(config, Running)
        /\ l.pc \in busy => Inherits(config, l.c)
    BY <2>4 DEF OrderInv
  <2>6. CASE UNCHANGED profiles
    <3>1. profiles' \o boot = Running
      BY <2>6 DEF Running
    <3>2. new.pc \in busy => new.c = config \/ (l.pc \in busy /\ new.c = l.c)
      <4>1. CASE new = LoadedFile
        BY <4>1 DEF LoadedFile
      <4>2. CASE l.pc \in busy /\ \E pc, todo : new = At(l, pc, todo)
        BY <4>2 DEF At
      <4>3. CASE new = NoLogin
        BY <4>3, Idle
      <4> QED BY <2>2, <4>1, <4>2, <4>3 DEF Moves
    <3> QED BY <1>2, <2>5, <3>1, <3>2
  <2>7. ASSUME l.pc = "append", NEW k \in l.todo, \A j \in l.todo : k <= j,
               new = At(l, "start", l.todo \ {k}), profiles' = Append(profiles, l.c[k])
        PROVE  /\ Inherits(config, profiles' \o boot)
               /\ new.pc \in busy => Inherits(config, new.c)
    <3> DEFINE z == l.c[k]
    <3>1. l.c \in Seq(Entry) /\ k \in DOMAIN l.c /\ l.todo \subseteq DOMAIN l.c
      BY <1>0 DEF Typed, TodoInv, LoginRec
    <3>2. z \in Entry /\ DOMAIN l.c \subseteq Nat
      BY <3>1, ElementOfSeq, LenProperties
    <3>3. boot = <<>>
      BY <2>7 DEF BootInv, Typed, TypeOK
    <3>4. Running = profiles /\ profiles' \o boot = profiles'
      <4>1. profiles' \in Seq(Entry)
        BY <1>0, <2>7, <3>2, ElementsOfList
      <4> QED BY <1>0, <3>3, <4>1, ConcatEmptySeq DEF Running
    <3>5. Inherits(config, profiles) /\ Inherits(config, l.c)
      BY <2>5, <2>7, <3>4
    <3> HIDE DEF z
    <3>6. \A x, y : Precedes(profiles, x, y) /\ (y = z.id => x \in IdsOf(profiles))
                      => Precedes(profiles', x, y)
      <4>1. profiles' = Append(profiles, z)
        BY <2>7 DEF z
      <4> QED BY <1>0, <3>2, <4>1, BeforeAppend
    <3>7. \A j \in DOMAIN l.c : j \in l.todo \/ l.c[j].id \in IdsOf(profiles)
      BY <2>7 DEF StartsInv
    <3>8. ASSUME NEW x, Precedes(l.c, x, z.id) PROVE x \in IdsOf(profiles)
      <4>1. PICK i \in DOMAIN l.c : i < k /\ l.c[i].id = x
        BY <3>1, <3>8 DEF Precedes, z
      <4>2. i \notin l.todo
        BY <2>7, <3>1, <3>2, <4>1
      <4> QED BY <3>7, <4>1, <4>2
    <3>10. Inherits(config, profiles')
      BY <3>5, <3>6, <3>8 DEF Inherits
    <3>11. new.c = l.c
      BY <2>7 DEF At
    <3> QED BY <3>4, <3>5, <3>10, <3>11
  <2> QED BY <2>2, <2>6, <2>7 DEF Moves
<1>5. CASE BootLoad
  <2>1. /\ UNCHANGED <<config, cli, profiles, login>> /\ boot' = config
        /\ daemon = "down"
    BY <1>5 DEF BootLoad
  <2>2. profiles = <<>> /\ \A h \in Handlers : login[h].pc = "idle"
    BY <2>1 DEF BootInv
  <2>3. profiles' \o boot' = config
    BY <1>0, <2>1, <2>2, ConcatEmptySeq
  <2> QED BY <1>1, <1>2, <2>1, <2>2, <2>3, OrderAfter
<1>6. CASE BootStarts
  <2>1. /\ UNCHANGED <<config, moved, cli, daemon, login>> /\ boot # <<>>
        /\ boot' = Tail(boot) /\ profiles' = Append(profiles, Head(boot))
    BY <1>6 DEF BootStarts
  <2>2. Append(profiles, Head(boot)) \o Tail(boot) = Running
    BY <1>0, <2>1, BootKeeps DEF Running
  <2>3. profiles' \o boot' = Running
    BY <2>1, <2>2
  <2> QED BY <2>1, <2>3, OrderAfter DEF OrderInv
<1>7. CASE BootDone \/ UNCHANGED vars
  <2>1. /\ UNCHANGED <<config, moved, cli, boot, profiles, login>>
        /\ daemon' # "down" => daemon # "down"
    BY <1>7 DEF BootDone, vars
  <2>2. profiles' \o boot' = Running
    BY <2>1 DEF Running
  <2> QED BY <2>1, <2>2, OrderAfter DEF OrderInv
<1>8. CASE Exit
  <2>1. UNCHANGED <<config, cli>> /\ daemon' = "down"
    BY <1>8 DEF Exit
  <2> QED BY <1>1, <2>1, OrderAfter
<1> QED BY <1>3, <1>4, <1>5, <1>6, <1>7, <1>8 DEF Next

\* For any number of editors and handlers: while no two edits of the file overlap, what
\* runs stands in the order of the file until that is reordered, the profiles started at
\* once and those that logins have added since, from copies of the file however old.
THEOREM OrderFollowsFile == Spec /\ []EditsApart => []OrderAsConfigured
<1> DEFINE Inv == Typed /\ KnownInv /\ StartsInv /\ BootInv /\ OrderInv
<1>1. Init => Inv
  <2>1. Init => OrderInv
    BY DEF Init, NoEdit, OrderInv
  <2> QED BY <2>1, InitialInvs
<1>2. Inv /\ EditsApart /\ [Next]_vars => Inv'
  BY TypedStep, KnownStep, StartsStep, BootStep, OrderStep
<1>3. ASSUME Inv PROVE OrderAsConfigured
  <2> SUFFICES ASSUME ~moved, NEW x \in DOMAIN config, NEW y \in DOMAIN config,
                      NEW k \in DOMAIN profiles, x < y, profiles[k].id = config[y].id
               PROVE  \E m \in DOMAIN profiles : m < k /\ profiles[m].id = config[x].id
    BY DEF OrderAsConfigured
  <2>0. profiles \in Seq(Entry) /\ boot \in Seq(Entry)
    BY <1>3, TypeParts DEF Typed
  <2>1. daemon # "down"
    BY <1>3 DEF BootInv
  <2>2. Before(config, config[x].id, config[y].id)
    BY DEF Before
  <2>3. Precedes(Running, config[x].id, config[y].id)
    BY <1>3, <2>1, <2>2 DEF OrderInv, Inherits
  <2> DEFINE m == Len(profiles)
             n == Len(boot)
  <2>4. /\ Running \in Seq(Entry) /\ Len(Running) = m + n
        /\ \A j \in 1 .. m + n : Running[j] = IF j <= m THEN profiles[j] ELSE boot[j - m]
    BY <2>0, ConcatProperties DEF Running
  <2>5. m \in Nat /\ n \in Nat /\ DOMAIN profiles = 1 .. m /\ DOMAIN Running = 1 .. m + n
    BY <2>0, <2>4, LenProperties
  <2> HIDE DEF m, n
  <2>6. k \in DOMAIN Running /\ Running[k].id = config[y].id
    BY <2>4, <2>5
  <2>7. PICK i \in DOMAIN Running : i < k /\ Running[i].id = config[x].id
    BY <2>3, <2>6 DEF Precedes
  <2>8. i \in DOMAIN profiles /\ profiles[i].id = config[x].id
    BY <2>4, <2>5, <2>7
  <2> QED BY <2>7, <2>8
<1> QED BY <1>1, <1>2, <1>3, PTL DEF Spec
===============================================================================
