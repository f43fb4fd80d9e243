------------------------------ MODULE Resolver ------------------------------
(***************************************************************************)
(* POST /resolve of the registry (mr-registry/app/main.py), over a table   *)
(* that others write: a handler takes the time, reads the candidates of    *)
(* the canonical name in one SELECT, and picks one of them under RR_LOCK,  *)
(* from what it has read; without candidates a second SELECT decides       *)
(* between 410 and 404.                                                    *)
(*                                                                         *)
(* RR_INDEX counts without bound and is only used modulo the number of     *)
(* candidates: it is kept modulo Cycle, a multiple of each such number.    *)
(***************************************************************************)
EXTENDS FunctionTable

CONSTANTS
    Resolvers,   \* threads of the pool that serve /resolve
    MeshOrder,   \* the order of mesh ids as strings: mesh -> Nat
    NoHealth,    \* a health column that is NULL
    Cycle,
    MaxRestarts  \* bound: crashes of the registry process

ASSUME ResolverAssumption ==
    /\ MeshOrder \in [Meshes -> Nat]
    /\ \A m, k \in Meshes : MeshOrder[m] = MeshOrder[k] => m = k
    /\ Cycle \in Nat \ {0}
    /\ \A n \in 1..MaxId : Cycle % n = 0
    /\ MaxRestarts \in Nat

VARIABLES
    rpc,       \* next step of each resolver, or its last answer
    asked,     \* the name it was asked for
    asOf,      \* the time it took
    read,      \* the candidates it has read: row id -> mesh
    rrIndex,   \* RR_INDEX, modulo Cycle
    restarts,  \* crashes so far
    steady,    \* history: ids of candidates at every moment since it began
    lastPick   \* history: canonical name -> the last list picked from, and the pick

resolverVars == <<rpc, asked, asOf, read, steady>>
indexVars == <<rrIndex, lastPick>>
vars == <<tableVars, resolverVars, indexVars, restarts>>

Canonical == {Semantic[n] : n \in Names}
NoRows == [i \in {} |-> 0]
NoName == "none"
Answers == {"idle", "ok", "gone", "missing"}   \* 200, 410 and 404

Init ==
    /\ TableInit
    /\ rpc = [r \in Resolvers |-> "idle"]
    /\ asked = [r \in Resolvers |-> NoName]
    /\ asOf = [r \in Resolvers |-> 0]
    /\ read = [r \in Resolvers |-> NoRows]
    /\ steady = [r \in Resolvers |-> {}]
    /\ rrIndex = [s \in Canonical |-> 0]
    /\ lastPick = [s \in Canonical |-> [list |-> NoRows, id |-> 0]]
    /\ restarts = 0

----------------------------------------------------------------------------
(* list_candidates.                                                        *)

\* SQL: health != 'unavailable' is not true of NULL.
Available(row, time) ==
    /\ row.health \notin {Unavailable, NoHealth}
    /\ row.expires = NoLease \/ row.expires >= time

SameName(row, n) == Semantic[row.name] = Semantic[n]
IsCandidate(i, n, time) ==
    i \in DOMAIN db /\ SameName(db[i], n) /\ Available(db[i], time)
Candidates(n, time) == {i \in DOMAIN db : IsCandidate(i, n, time)}

----------------------------------------------------------------------------
(* The handler.                                                            *)

BeginResolve(r, n) ==
    /\ rpc[r] \in Answers
    /\ rpc' = [rpc EXCEPT ![r] = "select"]
    /\ asked' = [asked EXCEPT ![r] = n]
    /\ asOf' = [asOf EXCEPT ![r] = now]
    /\ steady' = [steady EXCEPT ![r] = Candidates(n, now)]
    /\ UNCHANGED <<tableVars, read, indexVars, restarts>>

\* Mutated form: the empty list goes to the index, which is taken modulo 0.
AfterSelectAlways(found) == "pick"
AfterSelect(found) == IF found = {} THEN "check" ELSE "pick"

\* Mutated form: a row that has no lease yet is left out.
FoundLeased(r) == {i \in Candidates(asked[r], asOf[r]) : db[i].expires # NoLease}
Found(r) == Candidates(asked[r], asOf[r])

SelectCandidates(r) ==
    /\ rpc[r] = "select"
    /\ LET found == Found(r) IN
       /\ read' = [read EXCEPT ![r] = [i \in found |-> db[i].mesh]]
       /\ rpc' = [rpc EXCEPT ![r] = AfterSelect(found)]
    /\ UNCHANGED <<tableVars, asked, asOf, steady, indexVars, restarts>>

Answer(r, a) ==
    /\ rpc' = [rpc EXCEPT ![r] = a]
    /\ asked' = [asked EXCEPT ![r] = NoName]
    /\ asOf' = [asOf EXCEPT ![r] = 0]
    /\ read' = [read EXCEPT ![r] = NoRows]
    /\ steady' = [steady EXCEPT ![r] = {}]

CheckRecords(r) ==
    /\ rpc[r] = "check"
    /\ Answer(r, IF \E i \in DOMAIN db : SameName(db[i], asked[r]) THEN "gone" ELSE "missing")
    /\ UNCHANGED <<tableVars, indexVars, restarts>>

\* sorted by mesh id and endpoint; rows of one mesh have one endpoint, and keep
\* the order of the SELECT.
Before(i, j, list) ==
    \/ MeshOrder[list[i]] < MeshOrder[list[j]]
    \/ list[i] = list[j] /\ i < j
Position(i, list) == Cardinality({j \in DOMAIN list : Before(j, i, list)})

\* Mutated form: the index is kept per name as asked for; of the canonical
\* name's spellings only the canonical one moves it on.
RRNextOfSpelling(r) == IF asked[r] = Semantic[asked[r]] THEN 1 ELSE 0
RRNext(r) == 1

Pick(r) ==
    /\ rpc[r] = "pick"
    /\ LET s == Semantic[asked[r]]
           list == read[r] IN
       \E i \in DOMAIN list :
          /\ Position(i, list) = rrIndex[s] % Cardinality(DOMAIN list)
          /\ rrIndex' = [rrIndex EXCEPT ![s] = (@ + RRNext(r)) % Cycle]
          /\ lastPick' = [lastPick EXCEPT ![s] = [list |-> list, id |-> i]]
    /\ Answer(r, "ok")
    /\ UNCHANGED <<tableVars, restarts>>

----------------------------------------------------------------------------
\* Any commit of the write side; what stays available is still steady.
TableChanges ==
    /\ TableNext
    /\ UNCHANGED <<rpc, asked, asOf, read, indexVars, restarts>>
    /\ steady' = [r \in Resolvers |-> {i \in steady[r] : IsCandidate(i, asked[r], asOf[r])'}]

\* RR_INDEX is lost with the process.
Restart ==
    /\ restarts < MaxRestarts
    /\ restarts' = restarts + 1
    /\ rpc' = [r \in Resolvers |-> "idle"]
    /\ asked' = [r \in Resolvers |-> NoName]
    /\ asOf' = [r \in Resolvers |-> 0]
    /\ read' = [r \in Resolvers |-> NoRows]
    /\ steady' = [r \in Resolvers |-> {}]
    /\ rrIndex' = [s \in Canonical |-> 0]
    /\ lastPick' = [s \in Canonical |-> [list |-> NoRows, id |-> 0]]
    /\ UNCHANGED tableVars

ResolveStep(r) == SelectCandidates(r) \/ CheckRecords(r) \/ Pick(r)

Next ==
    \/ \E r \in Resolvers : ResolveStep(r) \/ \E n \in Names : BeginResolve(r, n)
    \/ TableChanges
    \/ Restart

Spec == Init /\ [][Next]_vars

----------------------------------------------------------------------------
TypeOK ==
    /\ DOMAIN db \subseteq Ids
    /\ \A i \in DOMAIN db :
          db[i] \in [name : Names, mesh : Meshes, health : Healths,
                     expires : -1..(now + TTL)]
    /\ now \in 0..MaxTime
    /\ rpc \in [Resolvers -> Answers \cup {"select", "check", "pick"}]
    /\ asked \in [Resolvers -> Names \cup {NoName}]
    /\ asOf \in [Resolvers -> 0..MaxTime]
    /\ DOMAIN read = Resolvers
    /\ \A r \in Resolvers :
          DOMAIN read[r] \subseteq Ids /\ (rpc[r] = "pick" => DOMAIN read[r] # {})
    /\ steady \in [Resolvers -> SUBSET Ids]
    /\ rrIndex \in [Canonical -> 0..(Cycle - 1)]
    /\ restarts \in 0..MaxRestarts

\* A function that is available from the request to its answer is among the
\* candidates, so never answered with 404 or 410: one that was registered and
\* has no lease yet, one that is renewed or registered again meanwhile.
SteadyIsFound ==
    \A r \in Resolvers : rpc[r] \in {"pick", "check"} => steady[r] \subseteq DOMAIN read[r]

\* Round robin: of two picks from one list, with none from another list of the
\* name between, the second takes the successor of the first, whichever
\* spellings were asked for and however the two requests interleaved.
RoundRobinTurns ==
    [][ \A r \in Resolvers : rpc[r] = "pick" /\ rpc'[r] = "ok" =>
            LET s == Semantic[asked[r]]
                list == read[r]
            IN  lastPick[s].list = list =>
                    Position(lastPick'[s].id, list)
                        = (Position(lastPick[s].id, list) + 1) % Cardinality(DOMAIN list)
      ]_vars
=============================================================================
