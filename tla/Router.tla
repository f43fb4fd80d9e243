------------------------------- MODULE Router -------------------------------
(***************************************************************************)
(* POST /call of the router (mr-router/app/main.py, acl.py): resolve,      *)
(* check the roles, execute, and when that fails resolve and execute once  *)
(* more; every path ends in an answer, and most of them in the statistics. *)
(* The handler only suspends in resolve_function and execute_mcp_tool, so  *)
(* what lies between two of these is one atomic step, and STATS_LOCK is    *)
(* never waited for.                                                       *)
(*                                                                         *)
(* What the registry replies may differ from one request to the next:      *)
(* Replies is any set of replies.  execute_mcp_tool is ToolCall.  Of the   *)
(* statistics, the totals and the count by mesh are kept; arguments,       *)
(* results, endpoints and durations are left out.                          *)
(***************************************************************************)
EXTENDS ToolCall, FiniteSets

CONSTANTS
    Roles,        \* roles that calls may have
    Meshes,       \* mesh ids
    Replies,      \* replies with ok = TRUE
    MaxAnswers    \* bound: calls in a behaviour

Transports == {"stdio", "sse", "streamable-http", "other"}
Supported == {"sse", "streamable-http"}

\* An acl is the set of its lists of roles: none, or one that may be empty.
NoAcl == {}
Acls == {NoAcl} \cup {{allowed} : allowed \in SUBSET Roles}

ASSUME RouterAssumption ==
    /\ Replies \subseteq [mesh : Meshes, transport : Transports, acl : Acls]
    /\ MaxAnswers \in Nat

VARIABLES
    pc,           \* where the handler of each call is
    roles,        \* context.roles of the call
    first,        \* resolve_resp, once it answered ok
    second,       \* resolve_resp2
    left,         \* attempts left to be given another endpoint than stdio
    stats,        \* STATS_TOTAL, STATS_OK, STATS_ERR
    byMesh,       \* STATS_BY_MESH_ID
    ranAt,        \* history: the mesh where the call last started a tool
    runs,         \* history: starts of a tool for the call, counted to 2 * Attempts + 1
    served,       \* history: ok answers, by the mesh where the tool ran
    answers       \* history: answers given, ok and error

handlerVars == <<pc, roles, first, second, left, ranAt, runs>>
statsVars == <<stats, byMesh>>
countVars == <<statsVars, served, answers>>
vars == <<toolVars, handlerVars, countVars>>

Places == {"idle", "resolve", "avoid", "exec", "again", "exec_again"}
NoMesh == "none"
NoReply == [mesh |-> NoMesh, transport |-> "none", acl |-> {}]
Avoid == 3

Init ==
    /\ ToolInit
    /\ pc = [c \in Calls |-> "idle"]
    /\ roles = [c \in Calls |-> {}]
    /\ first = [c \in Calls |-> NoReply]
    /\ second = [c \in Calls |-> NoReply]
    /\ left = [c \in Calls |-> 0]
    /\ ranAt = [c \in Calls |-> NoMesh]
    /\ runs = [c \in Calls |-> 0]
    /\ stats = [total |-> 0, ok |-> 0, error |-> 0]
    /\ byMesh = [m \in Meshes |-> 0]
    /\ served = [m \in Meshes |-> 0]
    /\ answers = [ok |-> 0, error |-> 0]

----------------------------------------------------------------------------
(* Answers.                                                                *)

\* The response is sent and the handler's locals are gone.
Leave(c) ==
    /\ pc' = [pc EXCEPT ![c] = "idle"]
    /\ roles' = [roles EXCEPT ![c] = {}]
    /\ first' = [first EXCEPT ![c] = NoReply]
    /\ second' = [second EXCEPT ![c] = NoReply]
    /\ left' = [left EXCEPT ![c] = 0]
    /\ ranAt' = [ranAt EXCEPT ![c] = NoMesh]
    /\ runs' = [runs EXCEPT ![c] = 0]

\* _stats_record with a mesh_id, or with NoMesh.
\* Mutated form: errors are counted in STATS_ERR only.
StatsRecordOk(ok, m) ==
    /\ stats' = [stats EXCEPT !.total = IF ok THEN @ + 1 ELSE @,
                              !.ok = IF ok THEN @ + 1 ELSE @,
                              !.error = IF ok THEN @ ELSE @ + 1]
    /\ byMesh' = [k \in Meshes |-> IF k = m THEN byMesh[k] + 1 ELSE byMesh[k]]
StatsRecord(ok, m) ==
    /\ stats' = [stats EXCEPT !.total = @ + 1,
                              !.ok = IF ok THEN @ + 1 ELSE @,
                              !.error = IF ok THEN @ ELSE @ + 1]
    /\ byMesh' = [k \in Meshes |-> IF k = m THEN byMesh[k] + 1 ELSE byMesh[k]]

AnswerOk(c, m) ==
    /\ Leave(c)
    /\ StatsRecord(TRUE, m)
    /\ served' = [served EXCEPT ![ranAt[c]] = @ + 1]
    /\ answers' = [answers EXCEPT !.ok = @ + 1]

AnswerError(c, m) ==
    /\ Leave(c)
    /\ StatsRecord(FALSE, m)
    /\ answers' = [answers EXCEPT !.error = @ + 1]
    /\ UNCHANGED served

\* The two returns of the second round that record nothing.
AnswerUnrecorded(c) ==
    /\ Leave(c)
    /\ answers' = [answers EXCEPT !.error = @ + 1]
    /\ UNCHANGED <<statsVars, served>>

----------------------------------------------------------------------------
(* The handler.                                                            *)

\* validate_acl; an empty list admits nobody.
Admits(acl, having) == \A allowed \in acl : allowed \cap having # {}

Begin(c, having) ==
    /\ pc[c] = "idle"
    /\ answers.ok + answers.error + Cardinality({d \in Calls : pc[d] # "idle"}) < MaxAnswers
    /\ pc' = [pc EXCEPT ![c] = "resolve"]
    /\ roles' = [roles EXCEPT ![c] = having]
    /\ UNCHANGED <<toolVars, first, second, left, ranAt, runs, countVars>>

\* From the resolved endpoint to the answer or to the execution.
Proceed(c, reply) ==
    \/ /\ ~Admits(reply.acl, roles[c]) \/ reply.transport = "stdio"
       /\ AnswerError(c, reply.mesh)
       /\ UNCHANGED toolVars
    \/ /\ Admits(reply.acl, roles[c])
       /\ reply.transport # "stdio"
       /\ Execute(c)
       /\ pc' = [pc EXCEPT ![c] = "exec"]
       /\ first' = [first EXCEPT ![c] = reply]
       /\ left' = [left EXCEPT ![c] = 0]
       /\ UNCHANGED <<roles, second, ranAt, runs, countVars>>

\* ok = FALSE, or RegistryClientError: both are recorded, without a mesh.
NotResolved(c) ==
    /\ pc[c] = "resolve"
    /\ AnswerError(c, NoMesh)
    /\ UNCHANGED toolVars

\* The router runs no stdio workers: it asks again.
Resolved(c, reply) ==
    /\ pc[c] = "resolve"
    /\ IF reply.transport = "stdio"
       THEN /\ pc' = [pc EXCEPT ![c] = "avoid"]
            /\ first' = [first EXCEPT ![c] = reply]
            /\ left' = [left EXCEPT ![c] = Avoid]
            /\ UNCHANGED <<toolVars, roles, second, ranAt, runs, countVars>>
       ELSE Proceed(c, reply)

Avoided(c, reply) ==
    /\ pc[c] = "avoid"
    /\ reply.transport # "stdio"
    /\ Proceed(c, reply)

LastAvoid(c) == left[c] = 1

\* ok = FALSE, or stdio once more.
NotAvoided(c) ==
    /\ pc[c] = "avoid"
    /\ \/ LastAvoid(c) /\ Proceed(c, first[c])
       \/ /\ ~LastAvoid(c)
          /\ left' = [left EXCEPT ![c] = @ - 1]
          /\ UNCHANGED <<toolVars, pc, roles, first, second, ranAt, runs, countVars>>

AvoidFails(c) ==
    /\ pc[c] = "avoid"
    /\ AnswerError(c, NoMesh)
    /\ UNCHANGED toolVars

----------------------------------------------------------------------------
(* The execution.                                                          *)

Target(c) == IF pc[c] = "exec" THEN first[c] ELSE second[c]

\* The mesh of the answer's meta and of its statistics.
\* Mutated form: the second round reports the mesh_id of the first.
MetaMeshFirst(c) == first[c].mesh
MetaMesh(c) == Target(c).mesh

ToolStarts(c) ==
    /\ Target(c).transport \in Supported
    /\ StartTool(c)
    /\ ranAt' = [ranAt EXCEPT ![c] = Target(c).mesh]
    /\ runs' = [runs EXCEPT ![c] = IF @ > 2 * Attempts THEN @ ELSE @ + 1]
    /\ UNCHANGED <<pc, roles, first, second, left, countVars>>

ToolReturns(c) ==
    /\ Return(c)
    /\ AnswerOk(c, MetaMesh(c))

\* Mutated form: a failure of the second round starts another round.
TriesAgainAlways(c) == first[c].transport \in Supported \cup {"stdio"}
TriesAgain(c) == pc[c] = "exec" /\ first[c].transport \in Supported \cup {"stdio"}

ToolFails(c) ==
    /\ Raise(c)
    /\ \/ /\ TriesAgain(c)
          /\ pc' = [pc EXCEPT ![c] = "again"]
          /\ UNCHANGED <<roles, first, second, left, ranAt, runs, countVars>>
       \/ /\ ~TriesAgain(c)
          /\ AnswerError(c, NoMesh)

----------------------------------------------------------------------------
(* The second round.                                                       *)

\* Mutated form: the roles were checked in the first round.
AdmitsAgainAlways(acl, having) == TRUE
AdmitsAgain(acl, having) == Admits(acl, having)

ResolvedAgain(c, reply) ==
    /\ pc[c] = "again"
    /\ \/ /\ ~AdmitsAgain(reply.acl, roles[c])
          /\ AnswerError(c, NoMesh)
          /\ UNCHANGED toolVars
       \/ /\ AdmitsAgain(reply.acl, roles[c])
          /\ reply.transport = "stdio"
          /\ AnswerUnrecorded(c)
          /\ UNCHANGED toolVars
       \/ /\ AdmitsAgain(reply.acl, roles[c])
          /\ reply.transport # "stdio"
          /\ Execute(c)
          /\ pc' = [pc EXCEPT ![c] = "exec_again"]
          /\ second' = [second EXCEPT ![c] = reply]
          /\ UNCHANGED <<roles, first, left, ranAt, runs, countVars>>

\* RegistryClientError is caught by the handler of the second round and
\* recorded; ok = FALSE is returned and not recorded.
NotResolvedAgain(c) ==
    /\ pc[c] = "again"
    /\ AnswerError(c, NoMesh) \/ AnswerUnrecorded(c)
    /\ UNCHANGED toolVars

----------------------------------------------------------------------------
RegistryReplies(c) ==
    \/ NotResolved(c) \/ NotAvoided(c) \/ AvoidFails(c) \/ NotResolvedAgain(c)
    \/ \E reply \in Replies : Resolved(c, reply) \/ Avoided(c, reply) \/ ResolvedAgain(c, reply)

Handle(c) == RegistryReplies(c) \/ ToolStarts(c) \/ ToolReturns(c) \/ ToolFails(c)

Next == \E c \in Calls : Handle(c) \/ \E having \in SUBSET Roles : Begin(c, having)

Spec == Init /\ [][Next]_vars

\* resolve_function ends, by its timeout if not before, and so does every
\* execution (ExecutionsEnd).  Nobody has to call.
FairSpec == Spec /\ \A c \in Calls : WF_vars(Handle(c))

----------------------------------------------------------------------------
\* Includes that a call is in execute_mcp_tool exactly where the handler
\* awaits it, so no path leaves an execution behind or starts two.
TypeOK ==
    /\ pc \in [Calls -> Places]
    /\ working = {c \in Calls : pc[c] \in {"exec", "exec_again"}}
    /\ starts \in [Calls -> 0..Attempts]
    /\ outcome \in [Calls -> {NoOutcome, "ok", "error"}]
    /\ roles \in [Calls -> SUBSET Roles]
    /\ first \in [Calls -> Replies \cup {NoReply}]
    /\ second \in [Calls -> Replies \cup {NoReply}]
    /\ left \in [Calls -> 0..Avoid]
    /\ \A c \in Calls : pc[c] = "avoid" <=> left[c] > 0
    /\ stats \in [total : Nat, ok : Nat, error : Nat]
    /\ byMesh \in [Meshes -> Nat]
    /\ ranAt \in [Calls -> Meshes \cup {NoMesh}]
    /\ runs \in [Calls -> Nat]
    /\ served \in [Meshes -> Nat]
    /\ answers \in [ok : Nat, error : Nat]

\* A tool is only ever called under an acl that admits the roles of the call,
\* the acl of the very reply that named the endpoint, in the second round too.
RolesChecked ==
    \A c \in working : \A allowed \in Target(c).acl : \E r \in roles[c] : r \in allowed

\* Every ok answer is counted once, no answer is counted twice.
OkIsCounted ==
    /\ stats.ok = answers.ok
    /\ stats.error <= answers.error
    /\ stats.total = stats.ok + stats.error

\* The mesh where the tool ran has its ok answers counted, whichever round
\* gave them and wherever the first round went.
MeshesAreCredited == \A m \in Meshes : served[m] <= byMesh[m]

\* What /stats promises: every ok answer is counted once and credited to the
\* mesh where the tool ran, and nothing is counted twice.
AnswersAreCounted == OkIsCounted /\ MeshesAreCredited

\* One request starts a tool at most twice Attempts times.
StartsAreBounded == \A c \in Calls : runs[c] <= 2 * Attempts

\* A handler never turns back: whatever the registry replies and the tools do,
\* each step it takes brings it nearer to its answer.
StepsInRound(c) == Attempts - starts[c] + 1
StepsLeft(c) ==
    CASE pc[c] = "resolve" -> 2 * Attempts + Avoid + 4
      [] pc[c] = "avoid" -> 2 * Attempts + left[c] + 3
      [] pc[c] = "exec" -> StepsInRound(c) + Attempts + 2
      [] pc[c] = "again" -> Attempts + 2
      [] pc[c] = "exec_again" -> StepsInRound(c)
      [] OTHER -> 0
CallsAdvance ==
    [][ \A c \in Calls :
            pc[c] # "idle" => StepsLeft(c)' < StepsLeft(c) \/ UNCHANGED <<pc[c], left[c], starts[c]>>
      ]_vars

\* Every call is answered.
EveryCallIsAnswered == \A c \in Calls : pc[c] # "idle" ~> pc[c] = "idle"
=============================================================================
