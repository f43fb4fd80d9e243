--------------------------- MODULE ResolverProofs ---------------------------
(***************************************************************************)
(* A function that stays available is found, and replicas take turns, for  *)
(* any number of resolvers over any table that behaves as FunctionTable    *)
(* says.                                                                   *)
(***************************************************************************)
EXTENDS Resolver, FiniteSetTheorems, TLAPS

Functions ==
    /\ DOMAIN rpc = Resolvers /\ DOMAIN asked = Resolvers /\ DOMAIN asOf = Resolvers
    /\ DOMAIN read = Resolvers /\ DOMAIN steady = Resolvers

\* Before its SELECT, what a handler will find includes what is steady; after
\* it, what it has read does.
SteadyInv ==
    /\ Functions
    /\ \A r \in Resolvers :
          /\ rpc[r] = "select" =>
                \A i \in steady[r] : IsCandidate(i, asked[r], asOf[r])
          /\ rpc[r] \in {"pick", "check"} => steady[r] \subseteq DOMAIN read[r]

LEMMA InitSteady == Init => SteadyInv
  BY DEF Init, SteadyInv, Functions

LEMMA NextSteady == SteadyInv /\ [Next]_vars => SteadyInv'
<1> SUFFICES ASSUME SteadyInv, [Next]_vars PROVE SteadyInv'
  OBVIOUS
<1>1. ASSUME NEW r \in Resolvers, NEW n \in Names, BeginResolve(r, n) PROVE SteadyInv'
  <2>1. Functions' /\ UNCHANGED <<db, now, read>>
    BY <1>1 DEF BeginResolve, SteadyInv, Functions, tableVars
  <2>2. ASSUME NEW q \in Resolvers, q # r
        PROVE  rpc'[q] = rpc[q] /\ asked'[q] = asked[q] /\ asOf'[q] = asOf[q]
               /\ steady'[q] = steady[q]
    BY <1>1, <2>2 DEF BeginResolve, SteadyInv, Functions
  <2>3. rpc'[r] = "select" /\ asked'[r] = n /\ asOf'[r] = now /\ steady'[r] = Candidates(n, now)
    BY <1>1 DEF BeginResolve, SteadyInv, Functions
  <2> QED
    BY <2>1, <2>2, <2>3 DEF SteadyInv, Candidates, IsCandidate
<1>2. ASSUME NEW r \in Resolvers, SelectCandidates(r) PROVE SteadyInv'
  <2>1. Functions' /\ UNCHANGED <<db, asked, asOf, steady>>
    BY <1>2 DEF SelectCandidates, Found, SteadyInv, Functions, tableVars
  <2>2. ASSUME NEW q \in Resolvers, q # r PROVE rpc'[q] = rpc[q] /\ read'[q] = read[q]
    BY <1>2, <2>2 DEF SelectCandidates, Found, SteadyInv, Functions
  <2>3. rpc'[r] # "select" /\ DOMAIN read'[r] = Candidates(asked[r], asOf[r])
    BY <1>2 DEF SelectCandidates, Found, AfterSelect, SteadyInv, Functions
  <2>4. steady[r] \subseteq Candidates(asked[r], asOf[r])
    BY <1>2 DEF SelectCandidates, Found, SteadyInv, Candidates, IsCandidate
  <2> QED
    BY <2>1, <2>2, <2>3, <2>4 DEF SteadyInv, IsCandidate
<1>3. ASSUME NEW r \in Resolvers, NEW a \in Answers, Answer(r, a), UNCHANGED db
      PROVE  SteadyInv'
  <2>1. Functions'
    BY <1>3 DEF Answer, SteadyInv, Functions
  <2>2. ASSUME NEW q \in Resolvers, q # r
        PROVE  rpc'[q] = rpc[q] /\ asked'[q] = asked[q] /\ asOf'[q] = asOf[q]
               /\ steady'[q] = steady[q] /\ read'[q] = read[q]
    BY <1>3, <2>2 DEF Answer, SteadyInv, Functions
  <2>3. rpc'[r] \notin {"select", "pick", "check"}
    BY <1>3 DEF Answer, Answers, SteadyInv, Functions
  <2> QED
    BY <1>3, <2>1, <2>2, <2>3 DEF SteadyInv, IsCandidate
<1>4. ASSUME NEW r \in Resolvers, CheckRecords(r) \/ Pick(r) PROVE SteadyInv'
  BY <1>3, <1>4 DEF CheckRecords, Pick, Answers, tableVars
<1>5. CASE TableChanges
  <2>1. Functions' /\ UNCHANGED <<rpc, asked, asOf, read>>
    BY <1>5 DEF TableChanges, SteadyInv, Functions
  <2>2. \A r \in Resolvers :
            steady'[r] = {i \in steady[r] : IsCandidate(i, asked[r], asOf[r])'}
    BY <1>5 DEF TableChanges
  <2> QED
    BY <2>1, <2>2 DEF SteadyInv
<1>6. CASE Restart
  BY <1>6 DEF Restart, SteadyInv, Functions
<1>7. CASE UNCHANGED vars
  BY <1>7 DEF vars, tableVars, resolverVars, SteadyInv, Functions, IsCandidate
<1> QED
  BY <1>1, <1>2, <1>4, <1>5, <1>6, <1>7 DEF Next, ResolveStep

\* A function that is available from the request to its answer is among the
\* candidates its resolver has read, whatever the writers do meanwhile.
THEOREM ResolverFindsSteady == Spec => []SteadyIsFound
<1>1. SteadyInv => SteadyIsFound
  BY DEF SteadyInv, SteadyIsFound
<1> QED
  BY InitSteady, NextSteady, <1>1, PTL DEF Spec

----------------------------------------------------------------------------
(* Types.                                                                  *)

RowTyped(row, time) ==
    row \in [name : Names, mesh : Meshes, health : Healths, expires : -1..(time + TTL)]

TableTyped ==
    /\ DOMAIN db \subseteq Ids
    /\ \A i \in DOMAIN db : RowTyped(db[i], now)
    /\ now \in 0..MaxTime

\* Whatever the write side commits, ids and leases stay within their bounds.
LEMMA TableKeepsType == TableTyped /\ TableNext => TableTyped'
<1> SUFFICES ASSUME TableTyped, TableNext PROVE TableTyped'
  OBVIOUS
<1> USE TableAssumption DEF TableTyped, RowTyped, Ids
<1>1. ASSUME NEW i \in Ids, NEW n \in Names, NEW m \in Meshes, NEW h \in Healths,
             AddRow(i, n, m, h)
      PROVE  TableTyped'
  BY <1>1 DEF AddRow, NoLease
<1>2. ASSUME NEW i \in Ids, NEW h \in Healths, SetHealth(i, h) PROVE TableTyped'
  BY <1>2 DEF SetHealth
<1>3. ASSUME NEW ids \in SUBSET DOMAIN db, NEW h \in Healths, NEW lease \in 0..(now + TTL),
             NEW healthIds \in SUBSET ids, RenewRows(ids, healthIds, h, lease)
      PROVE  TableTyped'
  <2>1. now' = now /\ DOMAIN db' = DOMAIN db
    BY <1>3 DEF RenewRows
  <2>2. ASSUME NEW i \in DOMAIN db
        PROVE  \E hh \in {h, db[i].health}, ee \in {lease, db[i].expires} :
                  db'[i] = [db[i] EXCEPT !.health = hh, !.expires = ee]
    BY <1>3 DEF RenewRows
  <2>3. ASSUME NEW i \in DOMAIN db PROVE RowTyped(db'[i], now)
    <3>1. PICK hh \in {h, db[i].health}, ee \in {lease, db[i].expires} :
              db'[i] = [db[i] EXCEPT !.health = hh, !.expires = ee]
      BY <2>2
    <3>2. RowTyped(db[i], now)
      OBVIOUS
    <3>3. hh \in Healths /\ ee \in -1..(now + TTL)
      BY <3>2
    <3> QED
      BY <3>1, <3>2, <3>3
  <2> QED
    BY <2>1, <2>3
<1>4. ASSUME NEW ids \in SUBSET DOMAIN db, RemoveRows(ids) PROVE TableTyped'
  BY <1>4 DEF RemoveRows
<1>5. CASE TimePasses
  BY <1>5 DEF TimePasses
<1> QED
  BY <1>1, <1>2, <1>3, <1>4, <1>5 DEF TableNext

\* A handler at work was asked for a name, beside what TypeOK says.
ResolverTypedInv ==
    /\ TypeOK
    /\ \A r \in Resolvers : rpc[r] \notin Answers => asked[r] \in Names

LEMMA InitTyped == Init => ResolverTypedInv
  BY TableAssumption, ResolverAssumption
  DEF Init, TableInit, TypeOK, ResolverTypedInv, Answers, NoName, NoRows, Ids

LEMMA CandidatesAreIds ==
    ASSUME TypeOK, NEW n, NEW time
    PROVE  Candidates(n, time) \subseteq Ids
  BY DEF TypeOK, Candidates, IsCandidate

\* Answering keeps what was said of the other resolvers.
LEMMA AnswerTyped ==
    ASSUME ResolverTypedInv, NEW r \in Resolvers, NEW a \in Answers, Answer(r, a),
           UNCHANGED <<tableVars, restarts>>,
           rrIndex' \in [Canonical -> 0..(Cycle - 1)]
    PROVE  ResolverTypedInv'
  BY TableAssumption
  DEF ResolverTypedInv, TypeOK, Answer, Answers, NoName, NoRows, tableVars

LEMMA NextTyped == ResolverTypedInv /\ [Next]_vars => ResolverTypedInv'
<1> SUFFICES ASSUME ResolverTypedInv, [Next]_vars PROVE ResolverTypedInv'
  OBVIOUS
<1> USE TableAssumption, ResolverAssumption
<1>1. ASSUME NEW r \in Resolvers, NEW n \in Names, BeginResolve(r, n) PROVE ResolverTypedInv'
  <2>1. Candidates(n, now) \in SUBSET Ids
    BY CandidatesAreIds DEF ResolverTypedInv
  <2> QED
    BY <1>1, <2>1
    DEF BeginResolve, ResolverTypedInv, TypeOK, Answers, tableVars, indexVars
<1>2. ASSUME NEW r \in Resolvers, SelectCandidates(r) PROVE ResolverTypedInv'
  <2>1. Found(r) \in SUBSET Ids
    BY CandidatesAreIds DEF ResolverTypedInv, Found
  <2>2. /\ rpc' = [rpc EXCEPT ![r] = AfterSelect(Found(r))]
        /\ read' = [read EXCEPT ![r] = [i \in Found(r) |-> db[i].mesh]]
        /\ UNCHANGED <<db, now, asked, asOf, steady, rrIndex, restarts>>
    BY <1>2 DEF SelectCandidates, tableVars, indexVars
  <2>3. AfterSelect(Found(r)) \in {"check", "pick"}
        /\ (AfterSelect(Found(r)) = "pick" => Found(r) # {})
    BY DEF AfterSelect
  <2>4. asked[r] \in Names
    BY <1>2 DEF SelectCandidates, ResolverTypedInv, Answers
  <2> QED
    BY <2>1, <2>2, <2>3, <2>4 DEF ResolverTypedInv, TypeOK, Answers
<1>3. ASSUME NEW r \in Resolvers, CheckRecords(r) PROVE ResolverTypedInv'
  BY <1>3, AnswerTyped DEF CheckRecords, Answers, indexVars, ResolverTypedInv, TypeOK
<1>4. ASSUME NEW r \in Resolvers, Pick(r) PROVE ResolverTypedInv'
  <2>1. \E s : rrIndex' = [rrIndex EXCEPT ![s] = (@ + RRNext(r)) % Cycle]
    BY <1>4 DEF Pick
  <2>2. PICK s : rrIndex' = [rrIndex EXCEPT ![s] = (@ + 1) % Cycle]
    BY <2>1 DEF RRNext
  <2>3. rrIndex' \in [Canonical -> 0..(Cycle - 1)]
    <3> DEFINE next == (rrIndex[s] + 1) % Cycle
    <3>1. s \in Canonical => next \in 0..(Cycle - 1)
      BY DEF ResolverTypedInv, TypeOK
    <3>2. rrIndex' = [rrIndex EXCEPT ![s] = next]
      BY <2>2
    <3> HIDE DEF next
    <3> QED
      BY <3>1, <3>2 DEF ResolverTypedInv, TypeOK
  <2>4. Answer(r, "ok") /\ UNCHANGED <<tableVars, restarts>>
    BY <1>4 DEF Pick
  <2> QED
    BY <2>3, <2>4, AnswerTyped DEF Answers
<1>5. CASE TableChanges
  <2>1. TableTyped'
    BY <1>5, TableKeepsType
    DEF TableChanges, ResolverTypedInv, TypeOK, TableTyped, RowTyped
  <2>2. \A r \in Resolvers : steady'[r] \subseteq steady[r]
    BY <1>5 DEF TableChanges
  <2>3. steady' \in [Resolvers -> SUBSET Ids]
    BY <1>5, <2>2 DEF TableChanges, ResolverTypedInv, TypeOK
  <2> QED
    BY <1>5, <2>1, <2>3
    DEF TableChanges, ResolverTypedInv, TypeOK, TableTyped, RowTyped, indexVars
<1>6. CASE Restart
  BY <1>6 DEF Restart, ResolverTypedInv, TypeOK, Answers, NoName, NoRows, tableVars
<1>7. CASE UNCHANGED vars
  BY <1>7 DEF vars, tableVars, resolverVars, indexVars, ResolverTypedInv, TypeOK
<1> QED
  BY <1>1, <1>2, <1>3, <1>4, <1>5, <1>6, <1>7 DEF Next, ResolveStep

\* The variables of the resolvers are well typed; one that picks has candidates,
\* so the index is never taken modulo 0.
THEOREM ResolverTyped == Spec => []TypeOK
<1>1. ResolverTypedInv => TypeOK
  BY DEF ResolverTypedInv
<1> QED
  BY InitTyped, NextTyped, <1>1, PTL DEF Spec

----------------------------------------------------------------------------
(* Turns.                                                                  *)

LEMMA Division ==
    ASSUME NEW n \in Nat \ {0}, NEW q \in Nat, NEW k \in 0..(n - 1)
    PROVE  (n * q + k) % n = k
  OBVIOUS

LEMMA SuccessorModulo ==
    ASSUME NEW n \in Nat \ {0}, NEW x \in Nat
    PROVE  (x + 1) % n = ((x % n) + 1) % n
<1> DEFINE q == x \div n
           k == x % n
<1>1. q \in Nat /\ k \in 0..(n - 1) /\ x = n * q + k
  OBVIOUS
<1> HIDE DEF q, k
<1>2. CASE k + 1 < n
  <2> DEFINE next == k + 1
  <2>1. next \in 0..(n - 1) /\ x + 1 = n * q + next
    BY <1>1, <1>2
  <2> HIDE DEF next
  <2>2. (x + 1) % n = next
    BY <1>1, <2>1, Division
  <2>3. next % n = next
    BY <2>1
  <2> QED
    BY <2>2, <2>3 DEF next, k
<1>3. CASE k + 1 = n
  <2>1. x + 1 = n * (q + 1) + 0
    BY <1>1, <1>3
  <2>2. (x + 1) % n = 0
    <3>1. q + 1 \in Nat /\ 0 \in 0..(n - 1)
      BY <1>1
    <3> QED
      BY <2>1, <3>1, Division
  <2>3. (k + 1) % n = 0
    BY <1>3
  <2> QED
    BY <2>2, <2>3 DEF k
<1> QED
  BY <1>1, <1>2, <1>3

\* The wrap of the index at Cycle is invisible to a list whose length divides it.
LEMMA WrapIsInvisible ==
    ASSUME NEW n \in Nat \ {0}, NEW c \in Nat \ {0}, c % n = 0, NEW x \in 0..(c - 1)
    PROVE  ((x + 1) % c) % n = ((x % n) + 1) % n
<1>1. ((x + 1) % c) % n = (x + 1) % n
  <2>1. CASE x + 1 < c
    <3>1. (x + 1) % c = x + 1
      BY <2>1
    <3> QED
      BY <3>1
  <2>2. CASE x + 1 = c
    <3>1. (x + 1) % c = 0
      BY <2>2
    <3> QED
      BY <2>2, <3>1
  <2> QED
    BY <2>1, <2>2
<1>2. x \in Nat
  OBVIOUS
<1>3. (x + 1) % n = ((x % n) + 1) % n
  BY <1>2, SuccessorModulo
<1> QED
  BY <1>1, <1>3, Zenon

LEMMA ListLength ==
    ASSUME NEW list, DOMAIN list \subseteq Ids, DOMAIN list # {}
    PROVE  /\ Cardinality(DOMAIN list) \in Nat \ {0}
           /\ Cycle % Cardinality(DOMAIN list) = 0
<1> USE TableAssumption, ResolverAssumption
<1>1. IsFiniteSet(Ids) /\ Cardinality(Ids) = MaxId
  BY FS_Interval DEF Ids
<1>2. IsFiniteSet(DOMAIN list) /\ Cardinality(DOMAIN list) <= MaxId
  BY <1>1, FS_Subset
<1>3. Cardinality(DOMAIN list) \in 1..MaxId
  BY <1>2, FS_CardinalityType, FS_EmptySet
<1> QED
  BY <1>3

\* The last pick of a name tells where its index is, for the list it was made
\* from: the one after it is next.
TurnsInv ==
    /\ ResolverTypedInv
    /\ DOMAIN lastPick = Canonical
    /\ \A s \in Canonical :
          LET list == lastPick[s].list
              n == Cardinality(DOMAIN list)
          IN  DOMAIN list # {} =>
                  /\ DOMAIN list \subseteq Ids
                  /\ rrIndex[s] % n = (Position(lastPick[s].id, list) + 1) % n

LEMMA InitTurns == Init => TurnsInv
  BY InitTyped DEF Init, TurnsInv, NoRows

\* What a pick reads and leaves.
LEMMA PickTurns ==
    ASSUME TurnsInv, NEW r \in Resolvers, Pick(r)
    PROVE  LET s == Semantic[asked[r]]
               list == read[r]
               n == Cardinality(DOMAIN list)
           IN  /\ s \in Canonical
               /\ DOMAIN list \subseteq Ids /\ DOMAIN list # {}
               /\ \E i \in DOMAIN list :
                     /\ lastPick' = [lastPick EXCEPT ![s] = [list |-> list, id |-> i]]
                     /\ Position(i, list) = rrIndex[s] % n
                     /\ rrIndex' = [rrIndex EXCEPT ![s] = (rrIndex[s] + 1) % Cycle]
                     /\ ((rrIndex[s] + 1) % Cycle) % n = (Position(i, list) + 1) % n
<1> DEFINE s == Semantic[asked[r]]
           list == read[r]
           n == Cardinality(DOMAIN list)
<1>1. rpc[r] = "pick" /\ asked[r] \in Names
  BY DEF Pick, TurnsInv, ResolverTypedInv, Answers
<1>2. s \in Canonical
  BY <1>1 DEF Canonical
<1>3. DOMAIN list \subseteq Ids /\ DOMAIN list # {}
  BY <1>1 DEF TurnsInv, ResolverTypedInv, TypeOK
<1>4. n \in Nat \ {0} /\ Cycle % n = 0
  BY <1>3, ListLength
<1>5. rrIndex[s] \in 0..(Cycle - 1)
  BY <1>2 DEF TurnsInv, ResolverTypedInv, TypeOK
<1>6. ((rrIndex[s] + 1) % Cycle) % n = ((rrIndex[s] % n) + 1) % n
  BY <1>4, <1>5, WrapIsInvisible, ResolverAssumption
<1>7. PICK i \in DOMAIN list :
          /\ Position(i, list) = rrIndex[s] % n
          /\ rrIndex' = [rrIndex EXCEPT ![s] = (@ + RRNext(r)) % Cycle]
          /\ lastPick' = [lastPick EXCEPT ![s] = [list |-> list, id |-> i]]
  BY DEF Pick
<1>8. rrIndex' = [rrIndex EXCEPT ![s] = (rrIndex[s] + 1) % Cycle]
  BY <1>7 DEF RRNext
<1> QED
  BY <1>2, <1>3, <1>6, <1>7, <1>8

LEMMA NextTurns == TurnsInv /\ [Next]_vars => TurnsInv'
<1> SUFFICES ASSUME TurnsInv, [Next]_vars PROVE TurnsInv'
  OBVIOUS
<1>1. ResolverTypedInv'
  BY NextTyped DEF TurnsInv
<1>2. ASSUME NEW r \in Resolvers, Pick(r) PROVE TurnsInv'
  <2> DEFINE s == Semantic[asked[r]]
             list == read[r]
             n == Cardinality(DOMAIN list)
             next == (rrIndex[s] + 1) % Cycle
  <2>1. s \in Canonical /\ DOMAIN list \subseteq Ids
    BY <1>2, PickTurns
  <2>2. PICK i \in DOMAIN list :
            /\ lastPick' = [lastPick EXCEPT ![s] = [list |-> list, id |-> i]]
            /\ rrIndex' = [rrIndex EXCEPT ![s] = next]
            /\ next % n = (Position(i, list) + 1) % n
    BY <1>2, PickTurns
  <2> HIDE DEF next, list, s
  <2>3. DOMAIN lastPick' = Canonical /\ DOMAIN rrIndex = Canonical
    BY <2>2 DEF TurnsInv, ResolverTypedInv, TypeOK
  <2>4. lastPick'[s].list = list /\ lastPick'[s].id = i /\ rrIndex'[s] = next
    BY <2>1, <2>2, <2>3 DEF TurnsInv
  <2>5. ASSUME NEW o \in Canonical, o # s
        PROVE  lastPick'[o] = lastPick[o] /\ rrIndex'[o] = rrIndex[o]
    BY <2>2, <2>3, <2>5 DEF TurnsInv
  <2> DEFINE Kept(o) ==
               LET l == lastPick[o].list
                   m == Cardinality(DOMAIN l)
               IN  DOMAIN l # {} =>
                       /\ DOMAIN l \subseteq Ids
                       /\ rrIndex[o] % m = (Position(lastPick[o].id, l) + 1) % m
  <2>6. ASSUME NEW o \in Canonical PROVE Kept(o)'
    <3>1. CASE o = s
      <4>1. lastPick'[o].list = list /\ lastPick'[o].id = i /\ rrIndex'[o] = next
        BY <2>4, <3>1
      <4> QED
        BY <2>1, <2>2, <4>1 DEF Position, Before
    <3>2. CASE o # s
      BY <2>5, <3>2 DEF TurnsInv, Position, Before
    <3> QED
      BY <3>1, <3>2
  <2> QED
    BY <1>1, <2>3, <2>6 DEF TurnsInv
<1>3. CASE UNCHANGED indexVars
  BY <1>1, <1>3 DEF TurnsInv, indexVars, Position, Before
<1>4. ASSUME NEW r \in Resolvers,
             SelectCandidates(r) \/ CheckRecords(r) \/ \E n \in Names : BeginResolve(r, n)
      PROVE  UNCHANGED indexVars
  BY <1>4 DEF SelectCandidates, CheckRecords, BeginResolve
<1>5. CASE Restart
  BY <1>1, <1>5 DEF Restart, TurnsInv, NoRows
<1>6. CASE TableChanges \/ UNCHANGED vars
  BY <1>3, <1>6 DEF TableChanges, vars
<1> QED
  BY <1>2, <1>3, <1>4, <1>5, <1>6 DEF Next, ResolveStep

\* A resolver that goes from picking to its answer picks.
LEMMA OnlyPickAnswers ==
    ASSUME TurnsInv, [Next]_vars, NEW r \in Resolvers, rpc[r] = "pick", rpc'[r] = "ok"
    PROVE  Pick(r)
<1> USE DEF TurnsInv, ResolverTypedInv, TypeOK, Answers
<1>1. ASSUME NEW q \in Resolvers, NEW n \in Names, BeginResolve(q, n) PROVE FALSE
  BY <1>1 DEF BeginResolve
<1>2. ASSUME NEW q \in Resolvers, SelectCandidates(q) PROVE FALSE
  BY <1>2 DEF SelectCandidates, AfterSelect
<1>3. ASSUME NEW q \in Resolvers, CheckRecords(q) PROVE FALSE
  BY <1>3 DEF CheckRecords, Answer
<1>4. ASSUME NEW q \in Resolvers, q # r, Pick(q) PROVE FALSE
  BY <1>4 DEF Pick, Answer
<1>5. CASE TableChanges \/ Restart \/ UNCHANGED vars
  BY <1>5 DEF TableChanges, Restart, vars, resolverVars
<1> QED
  BY <1>1, <1>2, <1>3, <1>4, <1>5 DEF Next, ResolveStep

\* The step that RoundRobinTurns speaks of.
LEMMA StepTurns ==
    ASSUME TurnsInv, [Next]_vars
    PROVE  [ \A r \in Resolvers : rpc[r] = "pick" /\ rpc'[r] = "ok" =>
                 LET s == Semantic[asked[r]]
                     list == read[r]
                 IN  lastPick[s].list = list =>
                         Position(lastPick'[s].id, list)
                             = (Position(lastPick[s].id, list) + 1) % Cardinality(DOMAIN list)
           ]_vars
<1> SUFFICES ASSUME NEW r \in Resolvers, rpc[r] = "pick", rpc'[r] = "ok",
                    lastPick[Semantic[asked[r]]].list = read[r]
             PROVE  Position(lastPick'[Semantic[asked[r]]].id, read[r])
                      = (Position(lastPick[Semantic[asked[r]]].id, read[r]) + 1)
                            % Cardinality(DOMAIN read[r])
  OBVIOUS
<1> DEFINE s == Semantic[asked[r]]
           list == read[r]
           n == Cardinality(DOMAIN list)
<1>1. Pick(r)
  BY OnlyPickAnswers
<1>2. s \in Canonical /\ DOMAIN list # {}
  BY <1>1, PickTurns
<1>3. PICK i \in DOMAIN list :
          /\ lastPick' = [lastPick EXCEPT ![s] = [list |-> list, id |-> i]]
          /\ Position(i, list) = rrIndex[s] % n
  BY <1>1, PickTurns
<1>4. lastPick'[s].id = i
  BY <1>2, <1>3 DEF TurnsInv
<1>5. rrIndex[s] % n = (Position(lastPick[s].id, list) + 1) % n
  BY <1>2 DEF TurnsInv
<1> QED
  BY <1>3, <1>4, <1>5

\* Replicas take turns: whatever the length of the list, and however the
\* requests for the spellings of one name interleave, a pick from the list of
\* the last one takes its successor.
THEOREM ResolverTakesTurns == Spec => RoundRobinTurns
<1>1. Spec => []TurnsInv
  BY InitTurns, NextTurns, PTL DEF Spec
<1> QED
  BY <1>1, StepTurns, PTL DEF Spec, RoundRobinTurns
=============================================================================
