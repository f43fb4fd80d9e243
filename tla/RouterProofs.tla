---------------------------- MODULE RouterProofs ----------------------------
(***************************************************************************)
(* POST /call for any number of concurrent calls, any replies of the       *)
(* registry and any roles.  The invariant has a part about the handlers,   *)
(* and one about the counts, which only answers change.                    *)
(***************************************************************************)
EXTENDS Router, TLAPS

\* What a handler knows where it waits: the reply it works with, how often it
\* has started the tool, and, once it has, that the tool runs at the mesh of
\* that reply.
Placed(c) ==
    /\ pc[c] \in {"avoid", "exec"} => first[c] \in Replies
    /\ pc[c] = "exec_again" => second[c] \in Replies
    /\ pc[c] \in {"idle", "resolve", "avoid"} => runs[c] = 0
    /\ pc[c] = "exec" => runs[c] <= starts[c]
    /\ pc[c] = "again" => runs[c] <= Attempts
    /\ pc[c] = "exec_again" => runs[c] <= Attempts + starts[c]
    /\ c \in working /\ starts[c] > 0 => ranAt[c] = Target(c).mesh

PcTyped ==
    /\ pc \in [Calls -> Places]
    /\ working = {c \in Calls : pc[c] \in {"exec", "exec_again"}}

LocalsTyped ==
    /\ starts \in [Calls -> 0..Attempts]
    /\ outcome \in [Calls -> {NoOutcome, "ok", "error"}]
    /\ roles \in [Calls -> SUBSET Roles]
    /\ first \in [Calls -> Replies \cup {NoReply}]
    /\ second \in [Calls -> Replies \cup {NoReply}]
    /\ left \in [Calls -> 0..Avoid]
    /\ \A c \in Calls : pc[c] = "avoid" <=> left[c] > 0
    /\ ranAt \in [Calls -> Meshes \cup {NoMesh}]
    /\ runs \in [Calls -> Nat]

\* RolesChecked, of one call.
Checked(c) == \A allowed \in Target(c).acl : \E r \in roles[c] : r \in allowed

HandlerInv ==
    /\ PcTyped
    /\ LocalsTyped
    /\ \A c \in Calls : Placed(c)
    /\ \A c \in working : Checked(c)

CountTyped ==
    /\ stats \in [total : Nat, ok : Nat, error : Nat]
    /\ byMesh \in [Meshes -> Nat]
    /\ served \in [Meshes -> Nat]
    /\ answers \in [ok : Nat, error : Nat]

CountInv == CountTyped /\ OkIsCounted /\ MeshesAreCredited

----------------------------------------------------------------------------
(* The counts.                                                             *)

\* One more in a function of counters; m may be outside its domain.
LEMMA OneMore ==
    ASSUME NEW f \in [Meshes -> Nat], NEW m, NEW g,
           \/ g = [f EXCEPT ![m] = @ + 1]
           \/ g = [k \in Meshes |-> IF k = m THEN f[k] + 1 ELSE f[k]]
    PROVE  /\ g \in [Meshes -> Nat]
           /\ \A k \in Meshes : g[k] = IF k = m THEN f[k] + 1 ELSE f[k]
<1>1. g \in [Meshes -> Nat]
  OBVIOUS
<1>2. ASSUME NEW k \in Meshes PROVE g[k] = IF k = m THEN f[k] + 1 ELSE f[k]
  OBVIOUS
<1> QED
  BY <1>1, <1>2

\* What _stats_record adds.
LEMMA RecordAdds ==
    ASSUME CountTyped, NEW ok \in BOOLEAN, NEW m, StatsRecord(ok, m)
    PROVE  /\ stats' = [total |-> stats.total + 1,
                        ok |-> IF ok THEN stats.ok + 1 ELSE stats.ok,
                        error |-> IF ok THEN stats.error ELSE stats.error + 1]
           /\ byMesh' \in [Meshes -> Nat]
           /\ \A k \in Meshes : byMesh'[k] = IF k = m THEN byMesh[k] + 1 ELSE byMesh[k]
<1>1. stats \in [total : Nat, ok : Nat, error : Nat] /\ byMesh \in [Meshes -> Nat]
  BY DEF CountTyped
<1>2. stats' = [stats EXCEPT !.total = @ + 1,
                            !.ok = IF ok THEN @ + 1 ELSE @,
                            !.error = IF ok THEN @ ELSE @ + 1]
  BY DEF StatsRecord
<1>3. byMesh' = [k \in Meshes |-> IF k = m THEN byMesh[k] + 1 ELSE byMesh[k]]
  BY DEF StatsRecord
<1>4. stats' = [total |-> stats.total + 1,
                ok |-> IF ok THEN stats.ok + 1 ELSE stats.ok,
                error |-> IF ok THEN stats.error ELSE stats.error + 1]
  BY <1>1, <1>2
<1> QED
  BY <1>1, <1>3, <1>4, OneMore

\* An ok answer is credited to the mesh where its tool ran.
LEMMA OkKeepsCounts ==
    ASSUME CountInv, NEW c \in Calls, AnswerOk(c, ranAt[c])
    PROVE  CountInv'
<1>1. CountTyped /\ StatsRecord(TRUE, ranAt[c])
      /\ served' = [served EXCEPT ![ranAt[c]] = @ + 1]
      /\ answers' = [answers EXCEPT !.ok = @ + 1]
  BY DEF CountInv, AnswerOk
<1>2. /\ stats' = [total |-> stats.total + 1, ok |-> stats.ok + 1, error |-> stats.error]
      /\ byMesh' \in [Meshes -> Nat]
      /\ \A k \in Meshes : byMesh'[k] = IF k = ranAt[c] THEN byMesh[k] + 1 ELSE byMesh[k]
  BY <1>1, RecordAdds
<1>3. /\ served' \in [Meshes -> Nat]
      /\ \A k \in Meshes : served'[k] = IF k = ranAt[c] THEN served[k] + 1 ELSE served[k]
  BY <1>1, OneMore DEF CountTyped
<1>4. CountTyped'
  BY <1>1, <1>2, <1>3 DEF CountTyped
<1>5. OkIsCounted'
  BY <1>1, <1>2 DEF CountInv, CountTyped, OkIsCounted
<1>6. MeshesAreCredited'
  BY <1>2, <1>3 DEF CountInv, CountTyped, MeshesAreCredited
<1> QED
  BY <1>4, <1>5, <1>6 DEF CountInv

LEMMA ErrorKeepsCounts ==
    ASSUME CountInv, NEW c \in Calls, NEW m, AnswerError(c, m)
    PROVE  CountInv'
<1>1. CountTyped /\ StatsRecord(FALSE, m) /\ UNCHANGED served
      /\ answers' = [answers EXCEPT !.error = @ + 1]
  BY DEF CountInv, AnswerError
<1>2. /\ stats' = [total |-> stats.total + 1, ok |-> stats.ok, error |-> stats.error + 1]
      /\ byMesh' \in [Meshes -> Nat]
      /\ \A k \in Meshes : byMesh'[k] = IF k = m THEN byMesh[k] + 1 ELSE byMesh[k]
  BY <1>1, RecordAdds
<1>3. CountTyped'
  BY <1>1, <1>2 DEF CountTyped
<1>4. OkIsCounted'
  BY <1>1, <1>2 DEF CountInv, CountTyped, OkIsCounted
<1>5. MeshesAreCredited'
  BY <1>1, <1>2 DEF CountInv, CountTyped, MeshesAreCredited
<1> QED
  BY <1>3, <1>4, <1>5 DEF CountInv

LEMMA UnrecordedKeepsCounts ==
    ASSUME CountInv, NEW c \in Calls, AnswerUnrecorded(c)
    PROVE  CountInv'
  BY DEF CountInv, CountTyped, OkIsCounted, MeshesAreCredited, AnswerUnrecorded,
         statsVars

LEMMA SameCounts ==
    ASSUME CountInv, UNCHANGED countVars
    PROVE  CountInv'
  BY DEF CountInv, CountTyped, OkIsCounted, MeshesAreCredited, countVars, statsVars

----------------------------------------------------------------------------
(* The handlers.                                                           *)

\* A step of one handler leaves what is known of the others as it is.
Same(d) ==
    /\ pc'[d] = pc[d] /\ roles'[d] = roles[d]
    /\ first'[d] = first[d] /\ second'[d] = second[d]
    /\ ranAt'[d] = ranAt[d] /\ runs'[d] = runs[d] /\ starts'[d] = starts[d]
    /\ d \in working' <=> d \in working

LEMMA OneHandlerMoves ==
    ASSUME HandlerInv, NEW c \in Calls, \A d \in Calls \ {c} : Same(d),
           PcTyped', LocalsTyped', Placed(c)', c \in working' => Checked(c)'
    PROVE  HandlerInv'
<1>1. ASSUME NEW d \in Calls \ {c} PROVE Target(d)' = Target(d)
  BY DEF Same, Target
<1>2. ASSUME NEW d \in Calls \ {c} PROVE Placed(d)'
  BY <1>1 DEF HandlerInv, Same, Placed
<1>3. ASSUME NEW d \in Calls \ {c}, d \in working' PROVE Checked(d)'
  BY <1>1, <1>3 DEF HandlerInv, Same, Checked
<1>4. working' \subseteq Calls
  BY DEF PcTyped, LocalsTyped
<1> QED
  BY <1>2, <1>3, <1>4 DEF HandlerInv

\* A handler that answers leaves no execution behind.
LEMMA LeaveKeepsHandlers ==
    ASSUME HandlerInv, NEW c \in Calls, Leave(c),
           working' = working \ {c}, starts' = starts,
           outcome' \in [Calls -> {NoOutcome, "ok", "error"}]
    PROVE  HandlerInv'
<1> USE DEF HandlerInv, Leave
<1>1. PcTyped'
  BY DEF PcTyped, LocalsTyped, Places
<1>2. LocalsTyped'
  <2>1. (\A d \in Calls : pc[d] = "avoid" <=> left[d] > 0)'
    BY DEF PcTyped, LocalsTyped, Avoid
  <2>2. left' \in [Calls -> 0..Avoid] /\ runs' \in [Calls -> Nat]
    BY DEF LocalsTyped, Avoid
  <2>3. /\ first' \in [Calls -> Replies \cup {NoReply}]
        /\ second' \in [Calls -> Replies \cup {NoReply}]
        /\ ranAt' \in [Calls -> Meshes \cup {NoMesh}]
        /\ roles' \in [Calls -> SUBSET Roles]
    BY DEF LocalsTyped
  <2> QED
    BY <2>1, <2>2, <2>3 DEF LocalsTyped
<1>3. \A d \in Calls \ {c} : Same(d)
  BY DEF PcTyped, LocalsTyped, Same
<1>4. Placed(c)' /\ c \notin working'
  BY DEF PcTyped, LocalsTyped, Placed
<1> QED
  BY <1>1, <1>2, <1>3, <1>4, OneHandlerMoves

\* From an endpoint to an answer, or to an execution that the acl admits.
LEMMA ProceedKeeps ==
    ASSUME HandlerInv, CountInv, NEW c \in Calls, NEW reply \in Replies,
           pc[c] \in {"resolve", "avoid"}, Proceed(c, reply)
    PROVE  HandlerInv' /\ CountInv'
<1>1. CASE AnswerError(c, reply.mesh) /\ UNCHANGED toolVars
  <2>1. working = working \ {c}
    BY <1>1 DEF HandlerInv, PcTyped, LocalsTyped
  <2> QED
    BY <1>1, <2>1, ErrorKeepsCounts, LeaveKeepsHandlers
    DEF AnswerError, toolVars, HandlerInv, PcTyped, LocalsTyped
<1>2. CASE Admits(reply.acl, roles[c]) /\ Execute(c) /\ pc' = [pc EXCEPT ![c] = "exec"]
           /\ first' = [first EXCEPT ![c] = reply] /\ left' = [left EXCEPT ![c] = 0]
           /\ UNCHANGED <<roles, second, ranAt, runs, countVars>>
  <2>1. PcTyped'
    BY <1>2, AttemptsAssumption DEF HandlerInv, PcTyped, LocalsTyped, Execute, Places
  <2>2. LocalsTyped'
    BY <1>2, AttemptsAssumption DEF HandlerInv, PcTyped, LocalsTyped, Execute, Avoid
  <2>3. \A d \in Calls \ {c} : Same(d)
    BY <1>2, AttemptsAssumption DEF HandlerInv, PcTyped, LocalsTyped, Execute, Same
  <2>4. Placed(c)' /\ (c \in working' => Checked(c)')
    BY <1>2 DEF HandlerInv, PcTyped, LocalsTyped, Placed, Checked, Execute, Target, Admits
  <2> QED
    BY <1>2, <2>1, <2>2, <2>3, <2>4, OneHandlerMoves, SameCounts DEF HandlerInv
<1> QED
  BY <1>1, <1>2 DEF Proceed

\* A refused or failed request that is answered before any execution.
LEMMA EarlyErrorKeeps ==
    ASSUME HandlerInv, CountInv, NEW c \in Calls, NEW m, c \notin working,
           AnswerError(c, m) \/ AnswerUnrecorded(c), UNCHANGED toolVars
    PROVE  HandlerInv' /\ CountInv'
<1>1. working = working \ {c}
  OBVIOUS
<1> QED
  BY <1>1, ErrorKeepsCounts, UnrecordedKeepsCounts, LeaveKeepsHandlers
  DEF AnswerError, AnswerUnrecorded, toolVars, HandlerInv, PcTyped, LocalsTyped

\* The invariant holds before the first request.
LEMMA InitInv == Init => HandlerInv /\ CountInv
  BY AttemptsAssumption
  DEF Init, ToolInit, HandlerInv, PcTyped, LocalsTyped, Placed, CountInv,
      CountTyped, OkIsCounted, MeshesAreCredited, Places, Avoid, Target

\* Every step of every handler keeps the invariant.
LEMMA NextInv == HandlerInv /\ CountInv /\ [Next]_vars => HandlerInv' /\ CountInv'
<1> SUFFICES ASSUME HandlerInv, CountInv, [Next]_vars
             PROVE  HandlerInv' /\ CountInv'
  OBVIOUS
<1>1. ASSUME NEW c \in Calls, NEW having \in SUBSET Roles, Begin(c, having)
      PROVE  HandlerInv' /\ CountInv'
  <2>1. PcTyped'
    BY <1>1 DEF HandlerInv, PcTyped, LocalsTyped, Begin, toolVars, Places
  <2>2. LocalsTyped'
    BY <1>1 DEF HandlerInv, PcTyped, LocalsTyped, Begin, toolVars, Avoid
  <2>3. \A d \in Calls \ {c} : Same(d)
    BY <1>1 DEF HandlerInv, PcTyped, LocalsTyped, Begin, toolVars, Same
  <2>4. Placed(c)' /\ (c \in working' => Checked(c)')
    BY <1>1 DEF HandlerInv, PcTyped, LocalsTyped, Placed, Checked, Begin, toolVars, Target
  <2> QED
    BY <1>1, <2>1, <2>2, <2>3, <2>4, OneHandlerMoves, SameCounts DEF HandlerInv, Begin
<1>2. ASSUME NEW c \in Calls, NotResolved(c) \/ AvoidFails(c) \/ NotResolvedAgain(c)
      PROVE  HandlerInv' /\ CountInv'
  <2>1. c \notin working
    BY <1>2 DEF NotResolved, AvoidFails, NotResolvedAgain, HandlerInv, PcTyped, LocalsTyped
  <2> QED
    BY <1>2, <2>1, EarlyErrorKeeps DEF NotResolved, AvoidFails, NotResolvedAgain
<1>3. ASSUME NEW c \in Calls, NEW reply \in Replies, Resolved(c, reply)
      PROVE  HandlerInv' /\ CountInv'
  <2>1. CASE reply.transport # "stdio"
    BY <1>3, <2>1, ProceedKeeps DEF Resolved
  <2>2. CASE reply.transport = "stdio"
    <3> USE <1>3, <2>2 DEF Resolved, HandlerInv, PcTyped, LocalsTyped, toolVars
    <3>1. PcTyped'
      BY DEF Places
    <3>2. LocalsTyped'
      BY DEF Avoid
    <3>3. \A d \in Calls \ {c} : Same(d)
      BY DEF Same
    <3>4. Placed(c)' /\ (c \in working' => Checked(c)')
      BY DEF Placed, Checked, Target
    <3> QED
      BY <3>1, <3>2, <3>3, <3>4, OneHandlerMoves, SameCounts
  <2> QED
    BY <2>1, <2>2
<1>4. ASSUME NEW c \in Calls, NEW reply \in Replies, Avoided(c, reply)
      PROVE  HandlerInv' /\ CountInv'
  BY <1>4, ProceedKeeps DEF Avoided
<1>5. ASSUME NEW c \in Calls, NotAvoided(c)
      PROVE  HandlerInv' /\ CountInv'
  <2>1. CASE LastAvoid(c) /\ Proceed(c, first[c])
    <3>1. first[c] \in Replies
      BY <1>5 DEF NotAvoided, HandlerInv, Placed
    <3> QED
      BY <1>5, <2>1, <3>1, ProceedKeeps DEF NotAvoided
  <2>2. CASE ~LastAvoid(c) /\ left' = [left EXCEPT ![c] = @ - 1]
             /\ UNCHANGED <<toolVars, pc, roles, first, second, ranAt, runs, countVars>>
    <3> USE <1>5, <2>2 DEF NotAvoided, HandlerInv, PcTyped, LocalsTyped, toolVars
    <3>1. PcTyped'
      BY DEF LastAvoid, Places
    <3>2. LocalsTyped'
      BY DEF LastAvoid, Avoid
    <3>3. \A d \in Calls \ {c} : Same(d)
      BY DEF Same
    <3>4. Placed(c)' /\ (c \in working' => Checked(c)')
      BY DEF Placed, Checked, Target
    <3> QED
      BY <3>1, <3>2, <3>3, <3>4, OneHandlerMoves, SameCounts
  <2> QED
    BY <1>5, <2>1, <2>2 DEF NotAvoided
<1>6. ASSUME NEW c \in Calls, ToolStarts(c)
      PROVE  HandlerInv' /\ CountInv'
  <2> USE <1>6, AttemptsAssumption, RouterAssumption
      DEF ToolStarts, StartTool, HandlerInv, PcTyped, LocalsTyped
  <2>0. Target(c) \in Replies /\ Target(c).mesh \in Meshes
    BY DEF Placed, Target
  <2>1. PcTyped'
    BY <2>0 DEF Places
  <2>2. LocalsTyped'
    BY <2>0 DEF Avoid
  <2>3. \A d \in Calls \ {c} : Same(d)
    BY DEF Same
  <2>4. Placed(c)' /\ (c \in working' => Checked(c)')
    BY DEF Placed, Checked, Target
  <2> QED
    BY <2>1, <2>2, <2>3, <2>4, OneHandlerMoves, SameCounts
<1>7. ASSUME NEW c \in Calls, ToolReturns(c)
      PROVE  HandlerInv' /\ CountInv'
  <2>1. ranAt[c] = MetaMesh(c)
    BY <1>7 DEF ToolReturns, Return, HandlerInv, Placed, MetaMesh
  <2>2. CountInv'
    BY <1>7, <2>1, OkKeepsCounts DEF ToolReturns
  <2>3. HandlerInv'
    BY <1>7, LeaveKeepsHandlers
    DEF ToolReturns, Return, AnswerOk, HandlerInv, PcTyped, LocalsTyped
  <2> QED
    BY <2>2, <2>3
<1>8. ASSUME NEW c \in Calls, ToolFails(c)
      PROVE  HandlerInv' /\ CountInv'
  <2>1. CASE AnswerError(c, NoMesh)
    <3>1. HandlerInv'
      BY <1>8, <2>1, LeaveKeepsHandlers
      DEF ToolFails, Raise, AnswerError, HandlerInv, PcTyped, LocalsTyped
    <3> QED
      BY <2>1, <3>1, ErrorKeepsCounts
  <2>2. CASE TriesAgain(c) /\ pc' = [pc EXCEPT ![c] = "again"]
             /\ UNCHANGED <<roles, first, second, left, ranAt, runs, countVars>>
    <3> USE <1>8, <2>2, AttemptsAssumption
        DEF ToolFails, Raise, TriesAgain, HandlerInv, PcTyped, LocalsTyped
    <3>1. PcTyped'
      BY DEF Places
    <3>2. LocalsTyped'
      BY DEF Avoid
    <3>3. \A d \in Calls \ {c} : Same(d)
      BY DEF Same
    <3>4. Placed(c)' /\ (c \in working' => Checked(c)')
      BY DEF Placed, Checked, Target
    <3> QED
      BY <3>1, <3>2, <3>3, <3>4, OneHandlerMoves, SameCounts
  <2> QED
    BY <1>8, <2>1, <2>2 DEF ToolFails
<1>9. ASSUME NEW c \in Calls, NEW reply \in Replies, ResolvedAgain(c, reply)
      PROVE  HandlerInv' /\ CountInv'
  <2>1. CASE (AnswerError(c, NoMesh) \/ AnswerUnrecorded(c)) /\ UNCHANGED toolVars
    <3>1. c \notin working
      BY <1>9 DEF ResolvedAgain, HandlerInv, PcTyped, LocalsTyped
    <3> QED
      BY <2>1, <3>1, EarlyErrorKeeps
  <2>2. CASE AdmitsAgain(reply.acl, roles[c]) /\ Execute(c)
             /\ pc' = [pc EXCEPT ![c] = "exec_again"]
             /\ second' = [second EXCEPT ![c] = reply]
             /\ UNCHANGED <<roles, first, left, ranAt, runs, countVars>>
    <3> USE <1>9, <2>2, AttemptsAssumption
        DEF ResolvedAgain, Execute, HandlerInv, PcTyped, LocalsTyped
    <3>1. PcTyped'
      BY DEF Places
    <3>2. LocalsTyped'
      BY DEF Avoid
    <3>3. \A d \in Calls \ {c} : Same(d)
      BY DEF Same
    <3>4. Placed(c)' /\ (c \in working' => Checked(c)')
      BY DEF Placed, Checked, Target, AdmitsAgain, Admits
    <3> QED
      BY <3>1, <3>2, <3>3, <3>4, OneHandlerMoves, SameCounts
  <2> QED
    BY <1>9, <2>1, <2>2 DEF ResolvedAgain
<1>10. CASE UNCHANGED vars
  <2> USE <1>10 DEF vars, toolVars, handlerVars, HandlerInv
  <2>1. PcTyped'
    BY DEF PcTyped, LocalsTyped, Places
  <2>2. LocalsTyped'
    BY DEF PcTyped, LocalsTyped, Avoid
  <2>3. \A d \in Calls : Placed(d)'
    BY DEF Placed, Target
  <2>4. \A d \in working' : Checked(d)'
    BY DEF Checked, Target
  <2> QED
    BY <2>1, <2>2, <2>3, <2>4, SameCounts
<1> QED
  BY <1>1, <1>2, <1>3, <1>4, <1>5, <1>6, <1>7, <1>8, <1>9, <1>10
  DEF Next, Handle, RegistryReplies

----------------------------------------------------------------------------
\* The variables are well typed, and a call is in execute_mcp_tool exactly
\* where its handler waits for it.
THEOREM RouterTyped == Spec => []TypeOK
<1>1. HandlerInv /\ CountInv => TypeOK
  BY DEF HandlerInv, PcTyped, LocalsTyped, CountInv, CountTyped, TypeOK
<1> QED
  BY InitInv, NextInv, <1>1, PTL DEF Spec

\* No tool is called under an acl that does not admit the roles of the call,
\* in either round and whatever the registry replies in between.
THEOREM RouterChecksRoles == Spec => []RolesChecked
<1>1. HandlerInv => RolesChecked
  BY DEF HandlerInv, Checked, RolesChecked
<1> QED
  BY InitInv, NextInv, <1>1, PTL DEF Spec

\* Every ok answer is counted once, and credited to the mesh where the tool ran.
THEOREM RouterCounts == Spec => []AnswersAreCounted
<1>1. CountInv => AnswersAreCounted
  BY DEF CountInv, AnswersAreCounted
<1> QED
  BY InitInv, NextInv, <1>1, PTL DEF Spec

\* One request starts tools at most 2 * Attempts times.
THEOREM RouterBoundsStarts == Spec => []StartsAreBounded
<1>1. HandlerInv => StartsAreBounded
  <2> SUFFICES ASSUME HandlerInv, NEW c \in Calls PROVE runs[c] <= 2 * Attempts
    BY DEF StartsAreBounded
  <2>1. pc[c] \in Places
    BY DEF HandlerInv, PcTyped
  <2>2. starts[c] \in 0..Attempts /\ runs[c] \in Nat /\ Placed(c)
    BY DEF HandlerInv, LocalsTyped
  <2> QED
    BY <2>1, <2>2, AttemptsAssumption DEF Placed, Places
<1> QED
  BY InitInv, NextInv, <1>1, PTL DEF Spec
----------------------------------------------------------------------------
\* The rank of a handler, by the place where it waits.
LEMMA StepsByPlace ==
    ASSUME NEW c
    PROVE  /\ pc[c] = "resolve" => StepsLeft(c) = 2 * Attempts + Avoid + 4
           /\ pc[c] = "avoid" => StepsLeft(c) = 2 * Attempts + left[c] + 3
           /\ pc[c] = "exec" => StepsLeft(c) = StepsInRound(c) + Attempts + 2
           /\ pc[c] = "again" => StepsLeft(c) = Attempts + 2
           /\ pc[c] = "exec_again" => StepsLeft(c) = StepsInRound(c)
           /\ pc[c] = "idle" => StepsLeft(c) = 0
  BY Zenon DEF StepsLeft

\* The same after a step.
LEMMA StepsByPlaceNext ==
    ASSUME NEW c
    PROVE  /\ pc'[c] = "avoid" => StepsLeft(c)' = 2 * Attempts + left'[c] + 3
           /\ pc'[c] = "exec" => StepsLeft(c)' = StepsInRound(c)' + Attempts + 2
           /\ pc'[c] = "again" => StepsLeft(c)' = Attempts + 2
           /\ pc'[c] = "exec_again" => StepsLeft(c)' = StepsInRound(c)'
           /\ pc'[c] = "idle" => StepsLeft(c)' = 0
  BY Zenon DEF StepsLeft

\* A handler that waits has a step left: it is never at rank 0.
LEMMA StepsRemain ==
    ASSUME HandlerInv, NEW c \in Calls
    PROVE  /\ StepsLeft(c) \in Nat
           /\ pc[c] # "idle" => StepsLeft(c) > 0
           /\ starts[c] \in 0..Attempts /\ left[c] \in 0..Avoid /\ pc[c] \in Places
<1>1. starts[c] \in 0..Attempts /\ left[c] \in 0..Avoid /\ pc[c] \in Places
  BY DEF HandlerInv, PcTyped, LocalsTyped
<1> QED
  BY <1>1, StepsByPlace, AttemptsAssumption DEF StepsInRound, Avoid, Places

\* What a handler does to the place of another one: nothing.
LEMMA OthersWait ==
    ASSUME HandlerInv, NEW c \in Calls, NEW d \in Calls \ {c},
           Handle(d) \/ \E having \in SUBSET Roles : Begin(d, having)
    PROVE  UNCHANGED <<pc[c], left[c], starts[c]>>
<1> USE DEF HandlerInv, PcTyped, LocalsTyped, Leave, AnswerOk, AnswerError, AnswerUnrecorded,
            toolVars
<1>1. ASSUME NEW reply, Proceed(d, reply)
      PROVE  UNCHANGED <<pc[c], left[c], starts[c]>>
  BY <1>1 DEF Proceed, Execute
<1>2. CASE \E reply \in Replies : Resolved(d, reply) \/ Avoided(d, reply)
  BY <1>1, <1>2 DEF Resolved, Avoided
<1>3. CASE NotAvoided(d)
  BY <1>1, <1>3 DEF NotAvoided
<1>4. CASE NotResolved(d) \/ AvoidFails(d) \/ NotResolvedAgain(d)
  BY <1>4 DEF NotResolved, AvoidFails, NotResolvedAgain
<1>5. CASE \E reply \in Replies : ResolvedAgain(d, reply)
  BY <1>5 DEF ResolvedAgain, Execute
<1>6. CASE ToolStarts(d)
  BY <1>6 DEF ToolStarts, StartTool
<1>7. CASE ToolReturns(d)
  BY <1>7 DEF ToolReturns, Return
<1>8. CASE ToolFails(d)
  BY <1>8 DEF ToolFails, Raise
<1>9. CASE \E having \in SUBSET Roles : Begin(d, having)
  BY <1>9 DEF Begin
<1> QED
  BY <1>2, <1>3, <1>4, <1>5, <1>6, <1>7, <1>8, <1>9 DEF Handle, RegistryReplies

\* A step of its own takes a handler nearer to its answer.
LEMMA HandleAdvances ==
    ASSUME HandlerInv, NEW c \in Calls, Handle(c), pc[c] # "idle"
    PROVE  StepsLeft(c)' < StepsLeft(c)
<1> USE AttemptsAssumption DEF StepsInRound, Avoid
<1>0. /\ StepsLeft(c) > 0 /\ StepsLeft(c) \in Nat
      /\ starts[c] \in 0..Attempts /\ left[c] \in 0..Avoid /\ pc[c] \in Places
      /\ pc[c] = "avoid" => left[c] > 0
      /\ c \in working => pc[c] \in {"exec", "exec_again"}
      /\ c \in DOMAIN pc /\ c \in DOMAIN left /\ c \in DOMAIN starts
  BY StepsRemain DEF HandlerInv, PcTyped, LocalsTyped
<1>1. ASSUME Leave(c) PROVE StepsLeft(c)' < StepsLeft(c)
  <2>1. pc'[c] = "idle"
    BY <1>0, <1>1 DEF Leave
  <2> QED
    BY <1>0, <2>1, StepsByPlaceNext
<1>2. ASSUME NEW reply, Proceed(c, reply), pc[c] \in {"resolve", "avoid"}
      PROVE  StepsLeft(c)' < StepsLeft(c)
  <2>1. CASE Execute(c) /\ pc' = [pc EXCEPT ![c] = "exec"]
    <3>1. pc'[c] = "exec" /\ starts'[c] = 0
      BY <1>0, <2>1 DEF Execute
    <3> QED
      BY <1>0, <1>2, <3>1, StepsByPlace, StepsByPlaceNext
  <2> QED
    BY <1>1, <1>2, <2>1 DEF Proceed, AnswerError
<1>3. CASE \E reply \in Replies : Resolved(c, reply) \/ Avoided(c, reply)
  <2>1. CASE /\ pc[c] = "resolve" /\ pc' = [pc EXCEPT ![c] = "avoid"]
             /\ left' = [left EXCEPT ![c] = Avoid]
    <3>1. pc'[c] = "avoid" /\ left'[c] = 3
      BY <1>0, <2>1
    <3> QED
      BY <2>1, <3>1, StepsByPlace, StepsByPlaceNext
  <2> QED
    BY <1>2, <1>3, <2>1 DEF Resolved, Avoided
<1>4. CASE NotAvoided(c)
  <2>1. CASE UNCHANGED pc /\ left' = [left EXCEPT ![c] = @ - 1]
    <3>1. pc[c] = "avoid" /\ pc'[c] = "avoid" /\ left'[c] = left[c] - 1
      BY <1>0, <1>4, <2>1 DEF NotAvoided
    <3> QED
      BY <1>0, <3>1, StepsByPlace, StepsByPlaceNext
  <2> QED
    BY <1>2, <1>4, <2>1 DEF NotAvoided
<1>5. CASE NotResolved(c) \/ AvoidFails(c) \/ NotResolvedAgain(c)
  BY <1>1, <1>5 DEF NotResolved, AvoidFails, NotResolvedAgain, AnswerError, AnswerUnrecorded
<1>6. CASE \E reply \in Replies : ResolvedAgain(c, reply)
  <2>1. CASE Execute(c) /\ pc' = [pc EXCEPT ![c] = "exec_again"] /\ pc[c] = "again"
    <3>1. pc'[c] = "exec_again" /\ starts'[c] = 0
      BY <1>0, <2>1 DEF Execute
    <3> QED
      BY <1>0, <2>1, <3>1, StepsByPlace, StepsByPlaceNext
  <2> QED
    BY <1>1, <1>6, <2>1 DEF ResolvedAgain, AnswerError, AnswerUnrecorded
<1>7. CASE ToolStarts(c)
  <2>1. /\ pc[c] \in {"exec", "exec_again"} /\ pc'[c] = pc[c]
        /\ starts'[c] = starts[c] + 1 /\ starts[c] < Attempts
    BY <1>0, <1>7 DEF ToolStarts, StartTool
  <2> QED
    BY <1>0, <2>1, StepsByPlace, StepsByPlaceNext
<1>8. CASE ToolReturns(c)
  BY <1>1, <1>8 DEF ToolReturns, AnswerOk
<1>9. CASE ToolFails(c)
  <2>1. CASE TriesAgain(c) /\ pc' = [pc EXCEPT ![c] = "again"]
    <3>1. pc[c] = "exec" /\ pc'[c] = "again"
      BY <1>0, <2>1 DEF TriesAgain
    <3> QED
      BY <1>0, <3>1, StepsByPlace, StepsByPlaceNext
  <2> QED
    BY <1>1, <1>9, <2>1 DEF ToolFails, AnswerError
<1> QED
  BY <1>3, <1>4, <1>5, <1>6, <1>7, <1>8, <1>9 DEF Handle, RegistryReplies

\* No handler turns back, whatever the registry and the tools do: a call is
\* answered after at most 2 * Attempts + 7 steps of its handler.
THEOREM RouterAdvances == Spec => CallsAdvance
<1> DEFINE Advance ==
      \A c \in Calls :
          pc[c] # "idle" => StepsLeft(c)' < StepsLeft(c) \/ UNCHANGED <<pc[c], left[c], starts[c]>>
<1>1. ASSUME HandlerInv, Next PROVE Advance
  <2> SUFFICES ASSUME NEW c \in Calls, pc[c] # "idle"
               PROVE  StepsLeft(c)' < StepsLeft(c) \/ UNCHANGED <<pc[c], left[c], starts[c]>>
    OBVIOUS
  <2>1. PICK d \in Calls : Handle(d) \/ \E having \in SUBSET Roles : Begin(d, having)
    BY <1>1 DEF Next
  <2>2. CASE d # c
    BY <1>1, <2>1, <2>2, OthersWait
  <2>3. CASE d = c
    <3>1. Handle(c)
      BY <2>1, <2>3 DEF Begin
    <3> QED
      BY <1>1, <3>1, HandleAdvances
  <2> QED
    BY <2>2, <2>3
<1>2. HandlerInv /\ [Next]_vars => [Advance]_vars
  BY <1>1
<1> QED
  BY InitInv, NextInv, <1>2, PTL DEF Spec, CallsAdvance
=============================================================================
