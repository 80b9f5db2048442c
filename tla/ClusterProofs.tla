--------------------------- MODULE ClusterProofs ----------------------------
(***************************************************************************)
(* Proofs about what a server knows of its cluster, for every set of nodes *)
(* and of handlers and for every value of the bounds.                      *)
(***************************************************************************)
EXTENDS Cluster, TLAPS

-----------------------------------------------------------------------------
(* The inductive invariant *)

\* A handler past its first step, and a health check past its list, work on a
\* node.
WorkInv ==
    /\ \A h \in Handlers : req[h].pc # "idle" => req[h].node \in Nodes
    /\ check.pc \in {"healthy", "unhealthy", "update"} => check.node \in Nodes
    /\ check.pc \in {"idle", "next", "stopped"} => check.node = NoNode

\* Without an overlap the handlers of n all join it or all leave it, and a join
\* adds the member before it adds the node to the ring.  While a join or a
\* leave is carried through, Raft has already made it.
NodeInv(n) ==
    /\ n \notin overlapped =>
         /\ ~(Handled(n, JoinPC) /\ Handled(n, LeavePC))
         /\ n \in ring => members[n] # "none" \/ Handled(n, {"leaveRing"})
         /\ Handled(n, {"joinRing"}) => members[n] # "none"
    /\ ~forgot /\ n \notin overlapped \cup unseen =>
         /\ Handled(n, JoinPC) => n \in voters
         /\ Handled(n, LeavePC) => n \notin voters
         /\ ~Handled(n, JoinPC \cup LeavePC) => (n \in ring <=> n \in voters)

RingInv == \A n \in Nodes : NodeInv(n)

\* A suspect failed its last check, but for a check that succeeded and is yet
\* to say so.  A check that failed has counted it, and finds a suspect only the
\* second time.
DeadInv ==
    /\ DeadFailedTwice
    /\ \A n \in Nodes : members[n] = "suspect" =>
         fails[n] \in {1, 2} \/ (check.pc = "healthy" /\ check.node = n)
    /\ check.pc \in {"unhealthy", "update"} =>
         /\ fails[check.node] \in {1, 2}
         /\ members[check.node] \in {"suspect", "dead"} => fails[check.node] = 2
    /\ check.pc = "update" =>
         check.seen = "alive" \/ (check.seen \in {"suspect", "dead"} /\ fails[check.node] = 2)

\* What is still to be checked is a member, or was removed during the check.
PanicInv ==
    /\ PanicNeedsLeave
    /\ check.pc \in {"healthy", "update"} =>
         \A n \in check.todo : members[n] = "none" => n \in removed

CheckInv == DeadInv /\ PanicInv

-----------------------------------------------------------------------------
(* Handlers *)

\* A handler that goes on works on n.
LEMMA GotoEffect ==
  ASSUME req \in [Handlers -> Handler], NEW h \in Handlers, NEW n \in Nodes,
         NEW pc \in HandlerPC, Goto(h, pc, n)
  PROVE  /\ req' \in [Handlers -> Handler]
         /\ req'[h].pc = pc /\ req'[h].node = n
         /\ \A g \in Handlers : g # h => req'[g] = req[g]
<1>1. [pc |-> pc, node |-> n] \in Handler
  BY Zenon DEF Handler
<1> QED BY <1>1, Zenon DEF Goto

\* A handler that returns is idle.
LEMMA ReturnEffect ==
  ASSUME req \in [Handlers -> Handler], NEW h \in Handlers, Return(h)
  PROVE  /\ req' \in [Handlers -> Handler]
         /\ req'[h].pc = "idle" /\ req'[h].node = NoNode
         /\ \A g \in Handlers : g # h => req'[g] = req[g]
<1>1. Idle \in Handler /\ Idle.pc = "idle" /\ Idle.node = NoNode
  BY Zenon DEF Handler, Idle, HandlerPC
<1> QED BY <1>1, Zenon DEF Return

\* The handlers of a node after a step of one of them.
LEMMA HandledStep ==
  ASSUME NEW h \in Handlers, \A g \in Handlers : g # h => req'[g] = req[g],
         NEW n, NEW pcs
  PROVE  /\ Handled(n, pcs)' => Handled(n, pcs) \/ (req'[h].node = n /\ req'[h].pc \in pcs)
         /\ Handled(n, pcs) => Handled(n, pcs)' \/ (req[h].node = n /\ req[h].pc \in pcs)
         /\ req'[h].node = n /\ req'[h].pc \in pcs => Handled(n, pcs)'
         /\ req[h].node = n /\ req[h].pc \in pcs => Handled(n, pcs)
BY Zenon DEF Handled

\* Handlers of fewer kinds.
LEMMA HandledKinds ==
  ASSUME NEW n
  PROVE  /\ Handled(n, {"joinRing"}) => Handled(n, JoinPC)
         /\ Handled(n, {"leaveRing"}) => Handled(n, LeavePC)
         /\ Handled(n, JoinPC \cup LeavePC) <=> Handled(n, JoinPC) \/ Handled(n, LeavePC)
BY Zenon DEF Handled, JoinPC, LeavePC

-----------------------------------------------------------------------------
(* Type correctness *)

\* The requests, up to the end of their call to Raft.
LEMMA RequestType ==
  ASSUME TypeOK, WorkInv, NEW h \in Handlers, NEW n \in Nodes,
         \/ JoinRaft(h, n) \/ JoinRaftFails(h, n)
         \/ LeaveRaft(h, n) \/ LeaveRaftFails(h, n)
         \/ Announce(h, n)
  PROVE  TypeOK' /\ WorkInv'
<1>0. Request(h)
  BY Zenon DEF JoinRaft, JoinRaftFails, LeaveRaft, LeaveRaftFails, Announce
<1>1. requests' \in 0 .. MaxRequests
  <2>1. /\ requests \in 0 .. MaxRequests /\ requests < MaxRequests
        /\ requests' = requests + 1
    BY <1>0, Zenon DEF TypeOK, Request
  <2> QED BY <2>1, ClusterAssumption
<1>2. UNCHANGED <<mode, up, ring, check, fails, forgot, crashes, flips, removed>>
  BY <1>0, Zenon DEF Request, JoinRaft, JoinRaftFails, LeaveRaft, LeaveRaftFails, Announce
<1>3. members' = members \/ AddMember(n)
  BY Zenon DEF JoinRaft, JoinRaftFails, LeaveRaft, LeaveRaftFails, Announce
<1>4. members' \in [Nodes -> Status]
  BY <1>3, Zenon DEF AddMember, TypeOK, Status
<1>5. req' = req \/ \E pc \in HandlerPC : Goto(h, pc, n)
  BY Zenon DEF JoinRaft, JoinRaftFails, LeaveRaft, LeaveRaftFails, Announce, HandlerPC,
         JoinPC, LeavePC
<1>6. req \in [Handlers -> Handler]
  BY Zenon DEF TypeOK
<1>7. /\ req' \in [Handlers -> Handler]
      /\ \A g \in Handlers : req'[g] = req[g] \/ req'[g].node = n
  BY <1>5, <1>6, GotoEffect, Zenon
<1>8. /\ leader' \in BOOLEAN /\ voters' \subseteq voters \cup {n}
      /\ overlapped' \subseteq overlapped \cup {n} /\ unseen' \subseteq unseen \cup {n}
  BY Zenon DEF JoinRaft, JoinRaftFails, LeaveRaft, LeaveRaftFails, Announce, raft, TypeOK
<1>9. TypeOK'
  BY <1>1, <1>2, <1>4, <1>7, <1>8, Zenon DEF TypeOK
<1>10. WorkInv'
  BY <1>2, <1>7, Zenon DEF WorkInv
<1> QED BY <1>9, <1>10, Zenon

\* The further steps of the handlers.
LEMMA HandlerType ==
  ASSUME TypeOK, WorkInv, NEW h \in Handlers, HandlerStep(h)
  PROVE  TypeOK' /\ WorkInv'
<1>0. PICK pc \in {"joinMember", "joinRing", "leaveMember", "leaveRing", "announce"} :
        Handles(h, pc)
  BY Zenon DEF HandlerStep, JoinMember, JoinRing, LeaveMember, LeaveRing, AnnounceUpdate
<1>1. /\ req[h].pc = pc
      /\ UNCHANGED <<mode, leader, voters, up, check, fails, overlapped, unseen, forgot,
                     requests, crashes, flips>>
  BY <1>0, Zenon DEF Handles, raft, counters
<1>2. PICK n \in Nodes : n = req[h].node
  BY <1>1, Zenon DEF WorkInv
<1>3. /\ ring' \subseteq ring \cup {n} /\ removed' \subseteq removed \cup {n}
      /\ members' = members \/ AddMember(n) \/ members' = [members EXCEPT ![n] = "none"]
         \/ UpdateMemberStatus(n, "alive")
  BY <1>2, Zenon DEF HandlerStep, JoinMember, JoinRing, LeaveMember, LeaveRing,
              AnnounceUpdate, RemoveMember
<1>4. members' \in [Nodes -> Status]
  BY <1>3, Zenon DEF AddMember, UpdateMemberStatus, TypeOK, Status
<1>5. Return(h) \/ Goto(h, "joinRing", n) \/ Goto(h, "leaveRing", n)
  BY <1>2, Zenon DEF HandlerStep, JoinMember, JoinRing, LeaveMember, LeaveRing, AnnounceUpdate
<1>6. req \in [Handlers -> Handler] /\ {"joinRing", "leaveRing"} \subseteq HandlerPC
  BY Zenon DEF TypeOK, HandlerPC, JoinPC, LeavePC
<1>7. /\ req' \in [Handlers -> Handler]
      /\ \A g \in Handlers : \/ req'[g] = req[g] \/ req'[g].node = n \/ req'[g].pc = "idle"
  <2>1. CASE Return(h)
    BY <1>6, <2>1, ReturnEffect, Zenon
  <2>2. CASE Goto(h, "joinRing", n) \/ Goto(h, "leaveRing", n)
    BY <1>6, <2>2, GotoEffect, Zenon
  <2> QED BY <1>5, <2>1, <2>2, Zenon
<1>8. TypeOK'
  BY <1>1, <1>3, <1>4, <1>7, Zenon DEF TypeOK
<1>9. WorkInv'
  BY <1>1, <1>7 DEF WorkInv
<1> QED BY <1>8, <1>9, Zenon

\* The loop of the health check goes on to the next member.
LEMMA NextEffect ==
  ASSUME TypeOK, CheckNext
  PROVE  /\ check' \in Check /\ check'.pc \in {"idle", "next"} /\ check'.node = NoNode
         /\ check'.todo = check.todo /\ check'.seen = "none"
         /\ check'.pc = "idle" <=> check.todo = {}
         /\ removed' = IF check.todo = {} THEN {} ELSE removed
<1>1. check \in Check
  BY Zenon DEF TypeOK
<1> QED BY <1>1, Zenon DEF CheckNext, Check, CheckPC, Status

\* The steps of the health check.
LEMMA CheckTypes ==
  ASSUME TypeOK, WorkInv,
         \/ CheckList \/ CheckHealthy \/ CheckRead \/ CheckUpdate \/ Stop
         \/ \E n \in Nodes : CheckProbe(n)
  PROVE  TypeOK' /\ WorkInv'
<1>0. PICK pc \in CheckPC : Checks(pc)
  BY Zenon DEF CheckList, CheckHealthy, CheckRead, CheckUpdate, Stop, CheckProbe, CheckPC
<1>1. /\ mode = "up" /\ check.pc = pc
      /\ UNCHANGED <<leader, voters, up, ring, overlapped, unseen, requests, crashes, flips>>
  BY <1>0, Zenon DEF Checks, raft
<1>2. UNCHANGED <<mode, req, forgot>>
  BY Zenon DEF CheckList, CheckHealthy, CheckRead, CheckUpdate, Stop, CheckProbe
<1>3. check \in Check /\ members \in [Nodes -> Status] /\ fails \in [Nodes -> 0 .. 2]
      /\ removed \subseteq Nodes
  BY Zenon DEF TypeOK
<1>4. ASSUME members' \in [Nodes -> Status], fails' \in [Nodes -> 0 .. 2],
             removed' \subseteq Nodes, check' \in Check,
             check'.pc \in {"healthy", "unhealthy", "update"} => check'.node \in Nodes,
             check'.pc \in {"idle", "next", "stopped"} => check'.node = NoNode
      PROVE  TypeOK' /\ WorkInv'
  <2>1. TypeOK'
    BY <1>1, <1>2, <1>4, Zenon DEF TypeOK
  <2>2. WorkInv'
    BY <1>2, <1>4, Zenon DEF WorkInv
  <2> QED BY <2>1, <2>2, Zenon
<1>5. CASE CheckList
  <2>1. /\ check.pc = "idle" /\ check' = [check EXCEPT !.pc = "next", !.todo = Listed]
        /\ UNCHANGED <<members, fails, removed>>
    BY <1>5, Zenon DEF CheckList, Checks
  <2>2. Listed \subseteq Nodes \ {Local}
    BY Zenon DEF Listed
  <2>3. check' \in Check /\ check'.pc = "next" /\ check'.node = check.node
    BY <1>3, <2>1, <2>2, Zenon DEF Check, CheckPC
  <2>4. check.node = NoNode
    BY <2>1, Zenon DEF WorkInv
  <2> QED BY <1>3, <1>4, <2>1, <2>3, <2>4, Zenon
<1>6. CASE Stop
  <2>1. /\ check.pc = "idle" /\ check' = [check EXCEPT !.pc = "stopped"]
        /\ UNCHANGED <<members, fails, removed>>
    BY <1>6, Zenon DEF Stop, Checks
  <2>2. check' \in Check /\ check'.pc = "stopped" /\ check'.node = check.node
    BY <1>3, <2>1, Zenon DEF Check, CheckPC
  <2>3. check.node = NoNode
    BY <2>1, Zenon DEF WorkInv
  <2> QED BY <1>3, <1>4, <2>1, <2>2, <2>3, Zenon
<1>7. CASE CheckRead
  <2>1. /\ check.pc = "unhealthy"
        /\ check' = [check EXCEPT !.pc = "update", !.seen = members[check.node]]
        /\ UNCHANGED <<members, fails, removed>>
    BY <1>7, Zenon DEF CheckRead, Checks
  <2>2. check.node \in Nodes /\ members[check.node] \in Status
    BY <1>3, <2>1, Zenon DEF WorkInv
  <2>3. check' \in Check /\ check'.pc = "update" /\ check'.node = check.node
    BY <1>3, <2>1, <2>2, Zenon DEF Check, CheckPC
  <2> QED BY <1>3, <1>4, <2>1, <2>2, <2>3, Zenon
<1>8. ASSUME NEW n \in Nodes, CheckProbe(n) PROVE TypeOK' /\ WorkInv'
  <2>1. /\ check' = [check EXCEPT !.pc = IF n \in up THEN "healthy" ELSE "unhealthy",
                                  !.node = n, !.todo = @ \ {n}]
        /\ fails' = [fails EXCEPT ![n] = IF n \in up THEN 0 ELSE IF @ = 2 THEN 2 ELSE @ + 1]
        /\ UNCHANGED <<members, removed>>
    BY <1>8, Zenon DEF CheckProbe
  <2>2. fails[n] \in 0 .. 2
    BY <1>3, Zenon
  <2>3. (IF n \in up THEN 0 ELSE IF fails[n] = 2 THEN 2 ELSE fails[n] + 1) \in 0 .. 2
    BY <2>2
  <2>4. fails' \in [Nodes -> 0 .. 2]
    BY <1>3, <2>1, <2>3, Zenon
  <2>5. check' \in Check /\ check'.pc \in {"healthy", "unhealthy"} /\ check'.node = n
    BY <1>3, <2>1, Zenon DEF Check, CheckPC
  <2> QED BY <1>3, <1>4, <2>1, <2>4, <2>5, Zenon
<1>9. CASE CheckHealthy \/ CheckUpdate
  <2>1. CheckNext /\ fails' = fails
    BY <1>9, Zenon DEF CheckHealthy, CheckUpdate
  <2>2. PICK n \in Nodes : n = check.node
    BY <1>9, Zenon DEF CheckHealthy, CheckUpdate, Checks, WorkInv
  <2>3. members' \in [Nodes -> Status]
    <3>1. members' = members \/ \E st \in Status : UpdateMemberStatus(n, st)
      BY <1>9, <2>2, Zenon DEF CheckHealthy, CheckUpdate, Worse, Status
    <3> QED BY <1>3, <3>1, Zenon DEF UpdateMemberStatus
  <2>4. /\ check' \in Check /\ check'.pc \in {"idle", "next"} /\ check'.node = NoNode
        /\ removed' \subseteq removed
    BY <2>1, NextEffect, Zenon
  <2> QED BY <1>3, <1>4, <2>1, <2>3, <2>4, Zenon
<1> QED BY <1>5, <1>6, <1>7, <1>8, <1>9, Zenon

\* The end of a process: nothing of what the server knew is left.
LEMMA DiesInv ==
  ASSUME TypeOK, Dies, crashes' \in 0 .. MaxCrashes
  PROVE  TypeOK' /\ WorkInv' /\ RingInv' /\ CheckInv'
<1>1. /\ req' = [h \in Handlers |-> Idle] /\ Idle \in Handler
      /\ Idle.pc = "idle" /\ Idle.node = NoNode
  BY Zenon DEF Dies, Idle, Handler, HandlerPC
<1>2. /\ check' \in Check /\ check'.pc = "idle" /\ check'.node = NoNode
  BY Zenon DEF Dies, NoCheck, Check, CheckPC, Status
<1>3. /\ members' \in [Nodes -> Status] /\ members'[Local] = "alive" /\ Local \in Nodes
      /\ \A n \in Nodes : members'[n] \in {"none", "alive"}
      /\ ring' = {Local}
  BY ClusterAssumption, Zenon DEF Dies, StartMembers, StartRing, Status
<1>4. fails' \in [Nodes -> 0 .. 2]
  <2>1. 0 \in 0 .. 2
    OBVIOUS
  <2> QED BY <2>1, Zenon DEF Dies
<1>5. TypeOK'
  BY <1>1, <1>2, <1>3, <1>4, Zenon DEF Dies, TypeOK
<1>6. WorkInv'
  BY <1>1, <1>2, Zenon DEF WorkInv
<1>7. RingInv'
  <2>1. \A n, pcs : "idle" \notin pcs => ~Handled(n, pcs)'
    BY <1>1, Zenon DEF Handled
  <2>2. "idle" \notin JoinPC /\ "idle" \notin LeavePC
    BY Zenon DEF JoinPC, LeavePC
  <2>3. forgot'
    BY Zenon DEF Dies
  <2>4. \A n \in Nodes : NodeInv(n)'
    BY <1>3, <2>1, <2>2, <2>3, Zenon DEF NodeInv
  <2> QED BY <2>4, Zenon DEF RingInv
<1>8. DeadInv'
  BY <1>2, <1>3, Zenon DEF DeadInv, DeadFailedTwice
<1>9. PanicInv'
  BY <1>2, Zenon DEF PanicInv, PanicNeedsLeave
<1> QED BY <1>5, <1>6, <1>7, <1>8, <1>9, Zenon DEF CheckInv

\* What the other nodes, Raft and the scheduler do.
LEMMA OtherType ==
  ASSUME TypeOK, WorkInv,
         \/ \E n \in Nodes : Discover(n) \/ Flip(n)
         \/ Restart \/ LeaderChange
  PROVE  TypeOK' /\ WorkInv'
<1>1. UNCHANGED <<voters, ring, req, check, fails, removed, overlapped, unseen, forgot,
                  requests, crashes>>
  BY Zenon DEF Discover, Flip, Restart, LeaderChange, raft, tables, history, counters
<1>2. mode' \in {"up", "down"} /\ leader' \in BOOLEAN
  BY Zenon DEF Discover, Flip, Restart, LeaderChange, raft, TypeOK
<1>3. members' \in [Nodes -> Status]
  BY Zenon DEF Discover, Flip, Restart, LeaderChange, tables, AddMember, TypeOK, Status
<1>4. up' \subseteq Nodes
  BY Zenon DEF Discover, Flip, Restart, LeaderChange, TypeOK
<1>5. flips' \in 0 .. MaxFlips
  <2>1. /\ flips \in 0 .. MaxFlips
        /\ flips' = flips \/ (flips < MaxFlips /\ flips' = flips + 1)
    BY Zenon DEF Discover, Flip, Restart, LeaderChange, counters, TypeOK
  <2> QED BY <2>1, ClusterAssumption
<1>6. TypeOK'
  BY <1>1, <1>2, <1>3, <1>4, <1>5, Zenon DEF TypeOK
<1>7. WorkInv'
  BY <1>1, Zenon DEF WorkInv
<1> QED BY <1>6, <1>7, Zenon

LEMMA ConfigurationType ==
  ASSUME TypeOK, WorkInv, NEW n \in Nodes, ConfigurationChange(n)
  PROVE  TypeOK' /\ WorkInv'
<1>1. /\ UNCHANGED <<mode, leader, up, members, ring, req, check, fails, removed, overlapped, forgot,
                     requests, crashes, flips>>
      /\ voters' \subseteq Nodes /\ unseen' \subseteq Nodes
  BY Zenon DEF ConfigurationChange, tables, counters, TypeOK
<1>2. TypeOK'
  BY <1>1, Zenon DEF TypeOK
<1>3. WorkInv'
  BY <1>1, Zenon DEF WorkInv
<1> QED BY <1>2, <1>3, Zenon

\* The process ends by itself or by the panic of the health check.
LEMMA CrashInv ==
  ASSUME TypeOK, Crash \/ Panic
  PROVE  TypeOK' /\ WorkInv' /\ RingInv' /\ CheckInv'
<1>1. /\ crashes \in 0 .. MaxCrashes
      /\ crashes' = crashes \/ (crashes < MaxCrashes /\ crashes' = crashes + 1)
  BY Zenon DEF TypeOK, Crash, Panic
<1>2. crashes' \in 0 .. MaxCrashes
  BY <1>1, ClusterAssumption
<1>3. Dies
  BY Zenon DEF Crash, Panic
<1> QED BY <1>2, <1>3, DiesInv, Zenon

\* The steps by who makes them.
LEMMA NextCases ==
  ASSUME [Next]_vars
  PROVE  \/ UNCHANGED vars
         \/ \E h \in Handlers, n \in Nodes :
              \/ JoinRaft(h, n) \/ JoinRaftFails(h, n)
              \/ LeaveRaft(h, n) \/ LeaveRaftFails(h, n)
              \/ Announce(h, n)
         \/ \E h \in Handlers : HandlerStep(h)
         \/ CheckList \/ CheckHealthy \/ CheckRead \/ CheckUpdate \/ Stop
         \/ \E n \in Nodes : CheckProbe(n)
         \/ \E n \in Nodes : Discover(n) \/ Flip(n)
         \/ \E n \in Nodes : ConfigurationChange(n)
         \/ Restart \/ LeaderChange
         \/ Crash \/ Panic
BY Zenon DEF Next, CheckStep

\* Every step keeps the types.
LEMMA TypeStep == TypeOK /\ WorkInv /\ [Next]_vars => TypeOK' /\ WorkInv'
<1> SUFFICES ASSUME TypeOK, WorkInv, [Next]_vars PROVE TypeOK' /\ WorkInv'
  BY Zenon
<1>1. CASE UNCHANGED vars
  BY <1>1, Zenon DEF vars, raft, tables, history, counters, TypeOK, WorkInv
<1> QED BY <1>1, NextCases, RequestType, HandlerType, CheckTypes, OtherType,
         ConfigurationType, CrashInv, Zenon

\* The server starts as the leader of a cluster that some nodes have joined.
LEMMA InitInv == Init => TypeOK /\ WorkInv /\ RingInv /\ CheckInv
<1> SUFFICES ASSUME Init PROVE TypeOK /\ WorkInv /\ RingInv /\ CheckInv
  BY Zenon
<1>1. /\ req = [h \in Handlers |-> Idle] /\ Idle \in Handler
      /\ Idle.pc = "idle" /\ Idle.node = NoNode
  BY Zenon DEF Init, Idle, Handler, HandlerPC
<1>2. /\ check \in Check /\ check.pc = "idle" /\ check.node = NoNode
  BY Zenon DEF Init, NoCheck, Check, CheckPC, Status
<1>3. /\ members \in [Nodes -> Status]
      /\ \A n \in Nodes : members[n] = IF n \in voters THEN "alive" ELSE "none"
      /\ ring = voters
  BY Zenon DEF Init, Status
<1>4. fails \in [Nodes -> 0 .. 2] /\ requests \in 0 .. MaxRequests
      /\ crashes \in 0 .. MaxCrashes /\ flips \in 0 .. MaxFlips
  <2>1. 0 \in 0 .. 2 /\ 0 \in 0 .. MaxRequests /\ 0 \in 0 .. MaxCrashes /\ 0 \in 0 .. MaxFlips
    BY ClusterAssumption
  <2> QED BY <2>1, Zenon DEF Init
<1>5. TypeOK
  BY <1>1, <1>2, <1>3, <1>4, Zenon DEF Init, TypeOK
<1>6. WorkInv
  BY <1>1, <1>2, Zenon DEF WorkInv
<1>7. RingInv
  <2>1. \A n, pcs : "idle" \notin pcs => ~Handled(n, pcs)
    BY <1>1, Zenon DEF Handled
  <2>2. "idle" \notin JoinPC /\ "idle" \notin LeavePC
    BY Zenon DEF JoinPC, LeavePC
  <2>3. \A n \in Nodes : NodeInv(n)
    BY <1>3, <2>1, <2>2, Zenon DEF NodeInv
  <2> QED BY <2>3, Zenon DEF RingInv
<1>8. DeadInv
  BY <1>2, <1>3, Zenon DEF DeadInv, DeadFailedTwice
<1>9. PanicInv
  BY <1>2, Zenon DEF PanicInv, PanicNeedsLeave
<1> QED BY <1>5, <1>6, <1>7, <1>8, <1>9, Zenon DEF CheckInv

-----------------------------------------------------------------------------
(* The members, the ring and the Raft configuration *)

\* The step leaves the joins and the leaves of n as they are.
SameHandled(n) ==
    \A pcs \in {JoinPC, LeavePC, {"joinRing"}, {"leaveRing"}, JoinPC \cup LeavePC} :
        Handled(n, pcs)' <=> Handled(n, pcs)

\* A step that works on node m alone has to be checked for m.
LEMMA OneNode ==
  ASSUME RingInv, NEW m \in Nodes, forgot' = forgot,
         \A n \in Nodes : n # m =>
           /\ SameHandled(n)
           /\ members'[n] = members[n]
           /\ n \in ring' <=> n \in ring
           /\ n \in voters' <=> n \in voters
           /\ n \in overlapped' <=> n \in overlapped
           /\ n \in unseen' <=> n \in unseen,
         NodeInv(m)'
  PROVE  RingInv'
<1> SUFFICES ASSUME NEW n \in Nodes, n # m PROVE NodeInv(n)'
  BY Zenon DEF RingInv
<1>1. NodeInv(n)
  BY Zenon DEF RingInv
<1> QED BY <1>1, Zenon DEF NodeInv, SameHandled

\* A step that makes no member vanish and leaves the joins and the leaves alone.
LEMMA RingFrame ==
  ASSUME RingInv, UNCHANGED <<ring, overlapped, forgot>>,
         \A n \in Nodes :
           /\ SameHandled(n)
           /\ members'[n] = "none" => members[n] = "none"
           /\ n \notin unseen' => n \notin unseen /\ (n \in voters' <=> n \in voters)
  PROVE  RingInv'
<1> SUFFICES ASSUME NEW n \in Nodes PROVE NodeInv(n)'
  BY Zenon DEF RingInv
<1>1. NodeInv(n)
  BY Zenon DEF RingInv
<1> QED BY <1>1, Zenon DEF NodeInv, SameHandled

\* A step of a handler that neither joins nor leaves n, before and after it.
LEMMA OtherNode ==
  ASSUME NEW h \in Handlers, NEW n \in Nodes,
         \A g \in Handlers : g # h => req'[g] = req[g],
         req[h].pc \in {"idle", "announce"} \/ req[h].node # n,
         req'[h].pc \in {"idle", "announce"} \/ req'[h].node # n
  PROVE  SameHandled(n)
<1>1. ASSUME NEW pcs, "idle" \notin pcs, "announce" \notin pcs
      PROVE  Handled(n, pcs)' <=> Handled(n, pcs)
  BY <1>1, HandledStep
<1>2. "idle" \notin JoinPC \cup LeavePC /\ "announce" \notin JoinPC \cup LeavePC
  BY Zenon DEF JoinPC, LeavePC
<1>3. ASSUME NEW pcs \in {JoinPC, LeavePC, {"joinRing"}, {"leaveRing"}, JoinPC \cup LeavePC}
      PROVE  Handled(n, pcs)' <=> Handled(n, pcs)
  BY <1>1, <1>2, Zenon
<1> QED BY <1>3, Zenon DEF SameHandled

\* A step that no handler makes.
LEMMA NoHandler ==
  ASSUME req' = req, NEW n PROVE SameHandled(n)
BY Zenon DEF SameHandled, Handled

\* The steps of joinNode carry a join through.
LEMMA JoinRingInv ==
  ASSUME TypeOK, WorkInv, RingInv, NEW h \in Handlers,
         JoinMember(h) \/ JoinRing(h) \/ \E n \in Nodes : JoinRaft(h, n)
  PROVE  RingInv'
<1>0. req \in [Handlers -> Handler] /\ members \in [Nodes -> Status]
      /\ {"joinMember", "joinRing"} \subseteq HandlerPC
  BY Zenon DEF TypeOK, HandlerPC, JoinPC
<1>1. ASSUME NEW n \in Nodes, JoinRaft(h, n) PROVE RingInv'
  <2>1. /\ req[h].pc = "idle" /\ Goto(h, "joinMember", n)
        /\ voters' = voters \cup {n} /\ unseen' = unseen \ {n}
        /\ overlapped' = overlapped \cup {m \in {n} : Handled(m, LeavePC)}
        /\ UNCHANGED <<members, ring, forgot>>
    BY <1>1, Zenon DEF JoinRaft, Request
  <2>2. /\ req'[h].pc = "joinMember" /\ req'[h].node = n
        /\ \A g \in Handlers : g # h => req'[g] = req[g]
    BY <1>0, <2>1, GotoEffect, Zenon
  <2>3. \A m \in Nodes : m # n => SameHandled(m)
    BY <2>1, <2>2, OtherNode, Zenon
  <2>4. /\ Handled(n, JoinPC)' /\ Handled(n, JoinPC \cup LeavePC)'
        /\ Handled(n, LeavePC)' => Handled(n, LeavePC)
        /\ Handled(n, {"leaveRing"}) => Handled(n, {"leaveRing"})'
        /\ Handled(n, {"joinRing"})' => Handled(n, {"joinRing"})
    BY <2>1, <2>2, HandledStep DEF JoinPC, LeavePC
  <2>5. NodeInv(n)'
    BY <2>1, <2>4, Zenon DEF RingInv, NodeInv
  <2> QED BY <2>1, <2>3, <2>5, OneNode, Zenon
<1>2. CASE JoinMember(h)
  <2>1. PICK n \in Nodes : n = req[h].node
    BY <1>2, Zenon DEF JoinMember, Handles, WorkInv
  <2>2. /\ req[h].pc = "joinMember" /\ Goto(h, "joinRing", n) /\ AddMember(n)
        /\ UNCHANGED <<voters, ring, overlapped, unseen, forgot>>
    BY <1>2, <2>1, Zenon DEF JoinMember, Handles, raft
  <2>3. /\ req'[h].pc = "joinRing" /\ req'[h].node = n
        /\ \A g \in Handlers : g # h => req'[g] = req[g]
    BY <1>0, <2>2, GotoEffect, Zenon
  <2>4. \A m \in Nodes : m # n => SameHandled(m)
    BY <2>1, <2>3, OtherNode, Zenon
  <2>5. /\ members'[n] # "none" /\ \A m \in Nodes : m # n => members'[m] = members[m]
    BY <1>0, <2>2, Zenon DEF AddMember
  <2>6. /\ Handled(n, JoinPC) /\ Handled(n, JoinPC)' /\ Handled(n, JoinPC \cup LeavePC)'
        /\ Handled(n, LeavePC)' => Handled(n, LeavePC)
    BY <2>1, <2>2, <2>3, HandledStep DEF JoinPC, LeavePC
  <2>7. NodeInv(n)'
    BY <2>2, <2>5, <2>6, Zenon DEF RingInv, NodeInv
  <2> QED BY <2>2, <2>4, <2>5, <2>7, OneNode, Zenon
<1>3. CASE JoinRing(h)
  <2>1. PICK n \in Nodes : n = req[h].node
    BY <1>3, Zenon DEF JoinRing, Handles, WorkInv
  <2>2. /\ req[h].pc = "joinRing" /\ Return(h) /\ ring' = ring \cup {n}
        /\ UNCHANGED <<voters, members, overlapped, unseen, forgot>>
    BY <1>3, <2>1, Zenon DEF JoinRing, Handles, raft
  <2>3. /\ req'[h].pc = "idle"
        /\ \A g \in Handlers : g # h => req'[g] = req[g]
    BY <1>0, <2>2, ReturnEffect, Zenon
  <2>4. \A m \in Nodes : m # n => SameHandled(m)
    BY <2>1, <2>3, OtherNode, Zenon
  <2>5. /\ Handled(n, JoinPC) /\ Handled(n, {"joinRing"})
        /\ Handled(n, LeavePC)' => Handled(n, LeavePC)
        /\ Handled(n, JoinPC)' => Handled(n, JoinPC)
        /\ Handled(n, {"joinRing"})' => Handled(n, {"joinRing"})
    BY <2>1, <2>2, <2>3, HandledStep, Zenon DEF JoinPC, LeavePC
  <2>6. NodeInv(n)'
    BY <2>2, <2>5, Zenon DEF RingInv, NodeInv
  <2> QED BY <2>2, <2>4, <2>6, OneNode, Zenon
<1> QED BY <1>1, <1>2, <1>3, Zenon

\* The steps of leaveNode carry a leave through.
LEMMA LeaveRingInv ==
  ASSUME TypeOK, WorkInv, RingInv, NEW h \in Handlers,
         LeaveMember(h) \/ LeaveRing(h) \/ \E n \in Nodes : LeaveRaft(h, n)
  PROVE  RingInv'
<1>0. req \in [Handlers -> Handler] /\ members \in [Nodes -> Status]
      /\ {"leaveMember", "leaveRing"} \subseteq HandlerPC
  BY Zenon DEF TypeOK, HandlerPC, LeavePC
<1>1. ASSUME NEW n \in Nodes, LeaveRaft(h, n) PROVE RingInv'
  <2>1. /\ req[h].pc = "idle" /\ Goto(h, "leaveMember", n)
        /\ voters' = voters \ {n} /\ unseen' = unseen \ {n}
        /\ overlapped' = overlapped \cup {m \in {n} : Handled(m, JoinPC)}
        /\ UNCHANGED <<members, ring, forgot>>
    BY <1>1, Zenon DEF LeaveRaft, Request
  <2>2. /\ req'[h].pc = "leaveMember" /\ req'[h].node = n
        /\ \A g \in Handlers : g # h => req'[g] = req[g]
    BY <1>0, <2>1, GotoEffect, Zenon
  <2>3. \A m \in Nodes : m # n => SameHandled(m)
    BY <2>1, <2>2, OtherNode, Zenon
  <2>4. /\ Handled(n, LeavePC)' /\ Handled(n, JoinPC \cup LeavePC)'
        /\ Handled(n, JoinPC)' => Handled(n, JoinPC)
        /\ Handled(n, {"leaveRing"}) => Handled(n, {"leaveRing"})'
        /\ Handled(n, {"joinRing"})' => Handled(n, {"joinRing"})
    BY <2>1, <2>2, HandledStep DEF JoinPC, LeavePC
  <2>5. NodeInv(n)'
    BY <2>1, <2>4, Zenon DEF RingInv, NodeInv
  <2> QED BY <2>1, <2>3, <2>5, OneNode, Zenon
<1>2. CASE LeaveMember(h)
  <2>1. PICK n \in Nodes : n = req[h].node
    BY <1>2, Zenon DEF LeaveMember, Handles, WorkInv
  <2>2. /\ req[h].pc = "leaveMember" /\ Goto(h, "leaveRing", n)
        /\ members' = [members EXCEPT ![n] = "none"]
        /\ UNCHANGED <<voters, ring, overlapped, unseen, forgot>>
    BY <1>2, <2>1, Zenon DEF LeaveMember, RemoveMember, Handles, raft
  <2>3. /\ req'[h].pc = "leaveRing" /\ req'[h].node = n
        /\ \A g \in Handlers : g # h => req'[g] = req[g]
    BY <1>0, <2>2, GotoEffect, Zenon
  <2>4. \A m \in Nodes : m # n => SameHandled(m)
    BY <2>1, <2>3, OtherNode, Zenon
  <2>5. \A m \in Nodes : m # n => members'[m] = members[m]
    BY <1>0, <2>2, Zenon
  <2>6. /\ Handled(n, LeavePC) /\ Handled(n, {"leaveRing"})' /\ Handled(n, JoinPC \cup LeavePC)'
        /\ Handled(n, JoinPC)' => Handled(n, JoinPC)
        /\ Handled(n, {"joinRing"})' => Handled(n, JoinPC)
    BY <2>1, <2>2, <2>3, HandledStep, HandledKinds DEF JoinPC, LeavePC
  <2>7. NodeInv(n)'
    BY <2>2, <2>6, Zenon DEF RingInv, NodeInv
  <2> QED BY <2>2, <2>4, <2>5, <2>7, OneNode, Zenon
<1>3. CASE LeaveRing(h)
  <2>1. PICK n \in Nodes : n = req[h].node
    BY <1>3, Zenon DEF LeaveRing, Handles, WorkInv
  <2>2. /\ req[h].pc = "leaveRing" /\ Return(h) /\ ring' = ring \ {n}
        /\ UNCHANGED <<voters, members, overlapped, unseen, forgot>>
    BY <1>3, <2>1, Zenon DEF LeaveRing, Handles, raft
  <2>3. /\ req'[h].pc = "idle"
        /\ \A g \in Handlers : g # h => req'[g] = req[g]
    BY <1>0, <2>2, ReturnEffect, Zenon
  <2>4. \A m \in Nodes : m # n => SameHandled(m)
    BY <2>1, <2>3, OtherNode, Zenon
  <2>5. /\ Handled(n, LeavePC)
        /\ Handled(n, LeavePC)' => Handled(n, LeavePC)
        /\ Handled(n, JoinPC)' => Handled(n, JoinPC)
        /\ Handled(n, {"joinRing"})' => Handled(n, {"joinRing"})
    BY <2>1, <2>2, <2>3, HandledStep, Zenon DEF JoinPC, LeavePC
  <2>6. NodeInv(n)'
    BY <2>2, <2>5, Zenon DEF RingInv, NodeInv
  <2> QED BY <2>2, <2>4, <2>6, OneNode, Zenon
<1> QED BY <1>1, <1>2, <1>3, Zenon

\* A request that Raft refuses, and an announcement, change no join or leave.
LEMMA AnnounceRingInv ==
  ASSUME TypeOK, RingInv, NEW h \in Handlers,
         \/ AnnounceUpdate(h)
         \/ \E n \in Nodes : JoinRaftFails(h, n) \/ LeaveRaftFails(h, n) \/ Announce(h, n)
  PROVE  RingInv'
<1>0. req \in [Handlers -> Handler] /\ members \in [Nodes -> Status] /\ "announce" \in HandlerPC
  BY Zenon DEF TypeOK, HandlerPC
<1>1. UNCHANGED <<ring, overlapped, forgot>>
  BY Zenon DEF AnnounceUpdate, Handles, JoinRaftFails, LeaveRaftFails, Announce, Request
<1>2. \A n \in Nodes : SameHandled(n)
  <2>1. CASE req' = req
    BY <2>1, NoHandler, Zenon
  <2>2. ASSUME NEW n \in Nodes, Announce(h, n), req' # req PROVE \A m \in Nodes : SameHandled(m)
    <3>1. req[h].pc = "idle" /\ Goto(h, "announce", n)
      BY <2>2, Zenon DEF Announce, Request
    <3>2. /\ req'[h].pc = "announce" /\ \A g \in Handlers : g # h => req'[g] = req[g]
      BY <1>0, <3>1, GotoEffect, Zenon
    <3> QED BY <3>1, <3>2, OtherNode, Zenon
  <2>3. CASE AnnounceUpdate(h)
    <3>1. req[h].pc = "announce" /\ Return(h)
      BY <2>3, Zenon DEF AnnounceUpdate, Handles
    <3>2. /\ req'[h].pc = "idle" /\ \A g \in Handlers : g # h => req'[g] = req[g]
      BY <1>0, <3>1, ReturnEffect, Zenon
    <3> QED BY <3>1, <3>2, OtherNode, Zenon
  <2>4. ASSUME NEW n \in Nodes, JoinRaftFails(h, n) \/ LeaveRaftFails(h, n) PROVE req' = req
    BY <2>4, Zenon DEF JoinRaftFails, LeaveRaftFails
  <2> QED BY <2>1, <2>2, <2>3, <2>4, Zenon
<1>3. \A n \in Nodes : members'[n] = "none" => members[n] = "none"
  BY <1>0, Zenon DEF AnnounceUpdate, JoinRaftFails, LeaveRaftFails, Announce, AddMember,
              UpdateMemberStatus
<1>4. \A n \in Nodes :
        n \notin unseen' => n \notin unseen /\ (n \in voters' <=> n \in voters)
  BY Zenon DEF AnnounceUpdate, Handles, raft, JoinRaftFails, LeaveRaftFails, Announce
<1> QED BY <1>1, <1>2, <1>3, <1>4, RingFrame, Zenon

\* A change that another leader makes is on record.
LEMMA ConfigurationRingInv ==
  ASSUME RingInv, NEW n \in Nodes, ConfigurationChange(n)
  PROVE  RingInv'
<1>1. UNCHANGED <<ring, overlapped, forgot, members, req>>
  BY Zenon DEF ConfigurationChange, tables
<1>2. \A m \in Nodes :
        m \notin unseen' => m \notin unseen /\ (m \in voters' <=> m \in voters)
  BY Zenon DEF ConfigurationChange
<1> QED BY <1>1, <1>2, RingFrame, NoHandler, Zenon

\* Nor do the health check, discovery, Raft and the other nodes.
LEMMA QuietRingInv ==
  ASSUME TypeOK, RingInv,
         \/ CheckList \/ CheckHealthy \/ CheckRead \/ CheckUpdate \/ Stop
         \/ \E n \in Nodes : CheckProbe(n)
         \/ \E n \in Nodes : Discover(n) \/ Flip(n)
         \/ Restart \/ LeaderChange
         \/ UNCHANGED vars
  PROVE  RingInv'
<1>1. UNCHANGED <<req, ring, overlapped, forgot, voters, unseen>>
  BY Zenon DEF CheckList, CheckHealthy, CheckRead, CheckUpdate, Stop, CheckProbe, Checks, Discover,
         Flip, Restart, LeaderChange, vars, raft, tables, history
<1>2. \/ members' = members
      \/ \E n, st : st # "none" /\ UpdateMemberStatus(n, st)
      \/ \E n : AddMember(n)
  BY Zenon DEF CheckList, CheckHealthy, CheckRead, CheckUpdate, Stop, CheckProbe, Discover,
         Flip, Restart, LeaderChange, vars, tables, Worse
<1>3. members \in [Nodes -> Status]
  BY Zenon DEF TypeOK
<1>4. \A n \in Nodes : members'[n] = "none" => members[n] = "none"
  BY <1>2, <1>3, Zenon DEF AddMember, UpdateMemberStatus
<1> QED BY <1>1, <1>4, RingFrame, NoHandler, Zenon

\* Every step keeps RingInv.
LEMMA RingStep == TypeOK /\ WorkInv /\ RingInv /\ [Next]_vars => RingInv'
<1> SUFFICES ASSUME TypeOK, WorkInv, RingInv, [Next]_vars PROVE RingInv'
  BY Zenon
<1>1. ASSUME NEW h \in Handlers, HandlerStep(h) PROVE RingInv'
  BY <1>1, JoinRingInv, LeaveRingInv, AnnounceRingInv, Zenon DEF HandlerStep
<1> QED BY <1>1, NextCases, JoinRingInv, LeaveRingInv, AnnounceRingInv, QuietRingInv,
         ConfigurationRingInv, CrashInv, Zenon

-----------------------------------------------------------------------------
(* The health check *)

\* What others do to the members while a check is under way: a member comes
\* alive, or is removed on record.
LEMMA CheckFrame ==
  ASSUME TypeOK, WorkInv, CheckInv, UNCHANGED <<check, fails>>, removed \subseteq removed',
         \A n \in Nodes : \/ members'[n] = members[n]
                          \/ members'[n] = "alive"
                          \/ /\ members'[n] = "none"
                             /\ check.pc \in {"idle", "stopped"} \/ n \in removed'
  PROVE  CheckInv'
<1>0. /\ check.todo \subseteq Nodes
      /\ check.pc \in {"healthy", "unhealthy", "update"} => check.node \in Nodes
      /\ check.pc = "next" => check.node = NoNode
  BY Zenon DEF TypeOK, Check, WorkInv
<1>1. DeadInv'
  BY <1>0, Zenon DEF CheckInv, DeadInv, DeadFailedTwice
<1>2. PanicInv'
  BY <1>0, Zenon DEF CheckInv, PanicInv, PanicNeedsLeave
<1> QED BY <1>1, <1>2, Zenon DEF CheckInv

\* The requests, the handlers, discovery, Raft and the other nodes.
LEMMA OthersCheckInv ==
  ASSUME TypeOK, WorkInv, CheckInv,
         \/ \E h \in Handlers, n \in Nodes :
              \/ JoinRaft(h, n) \/ JoinRaftFails(h, n)
              \/ LeaveRaft(h, n) \/ LeaveRaftFails(h, n)
              \/ Announce(h, n)
         \/ \E h \in Handlers : HandlerStep(h)
         \/ \E n \in Nodes : Discover(n) \/ Flip(n)
         \/ \E n \in Nodes : ConfigurationChange(n)
         \/ Restart \/ LeaderChange
         \/ UNCHANGED vars
  PROVE  CheckInv'
<1>0. members \in [Nodes -> Status]
  BY Zenon DEF TypeOK
<1>1. UNCHANGED <<check, fails>>
  BY Zenon DEF JoinRaft, JoinRaftFails, LeaveRaft, LeaveRaftFails, Announce, Request, HandlerStep,
         JoinMember, JoinRing, LeaveMember, LeaveRing, AnnounceUpdate, Handles, Discover, Flip,
         ConfigurationChange, Restart, LeaderChange, vars, history
<1>2. CASE \E n : RemoveMember(n)
  <2>1. PICK n : RemoveMember(n)
    BY <1>2, Zenon
  <2>2. /\ removed \subseteq removed'
        /\ \A m \in Nodes : \/ members'[m] = members[m]
                            \/ /\ members'[m] = "none"
                               /\ check.pc \in {"idle", "stopped"} \/ m \in removed'
    BY <1>0, <2>1, Zenon DEF RemoveMember
  <2> QED BY <1>1, <2>2, CheckFrame, Zenon
<1>3. ASSUME removed' = removed,
             members' = members \/ \E n : AddMember(n) \/ UpdateMemberStatus(n, "alive")
      PROVE  CheckInv'
  <2>1. \A m \in Nodes : members'[m] = members[m] \/ members'[m] = "alive"
    BY <1>0, <1>3, Zenon DEF AddMember, UpdateMemberStatus
  <2> QED BY <1>1, <1>3, <2>1, CheckFrame, Zenon
<1>4. \/ \E n : RemoveMember(n)
      \/ /\ removed' = removed
         /\ members' = members \/ \E n : AddMember(n) \/ UpdateMemberStatus(n, "alive")
  BY Zenon DEF JoinRaft, JoinRaftFails, LeaveRaft, LeaveRaftFails, Announce, HandlerStep,
         JoinMember, JoinRing, LeaveMember, LeaveRing, AnnounceUpdate, Discover, Flip,
         ConfigurationChange, Restart, LeaderChange, vars, tables, history
<1> QED BY <1>2, <1>3, <1>4, Zenon

\* The loop goes on after it has written the status of the member it checked.
LEMMA NextCheckInv ==
  ASSUME TypeOK, WorkInv, CheckInv, check.pc \in {"healthy", "update"}, CheckNext,
         fails' = fails,
         \A n \in Nodes : n # check.node => members'[n] = members[n],
         members'[check.node] = "none" => members[check.node] = "none",
         members'[check.node] = "suspect" => fails[check.node] \in {1, 2},
         members'[check.node] = "dead" => fails[check.node] = 2
  PROVE  CheckInv'
<1>0. check.todo \subseteq Nodes /\ check.node \in Nodes
  BY Zenon DEF TypeOK, Check, WorkInv
<1>1. /\ check'.pc \in {"idle", "next"} /\ check'.node = NoNode /\ check'.todo = check.todo
      /\ check'.pc = "idle" <=> check.todo = {}
      /\ removed' = IF check.todo = {} THEN {} ELSE removed
  BY NextEffect, Zenon
<1>2. /\ \A n \in Nodes : n # check.node /\ members[n] = "dead" => fails[n] = 2
      /\ \A n \in Nodes : n # check.node /\ members[n] = "suspect" => fails[n] \in {1, 2}
  BY Zenon DEF CheckInv, DeadInv, DeadFailedTwice
<1>3. DeadInv'
  BY <1>0, <1>1, <1>2, Zenon DEF DeadInv, DeadFailedTwice
<1>4. \A n \in check.todo : members[n] = "none" => n \in removed
  BY Zenon DEF CheckInv, PanicInv
<1>5. PanicInv'
  BY <1>0, <1>1, <1>4, Zenon DEF PanicInv, PanicNeedsLeave
<1> QED BY <1>3, <1>5, Zenon DEF CheckInv

\* The steps of the health check.
LEMMA ChecksInv ==
  ASSUME TypeOK, WorkInv, CheckInv,
         \/ CheckList \/ CheckHealthy \/ CheckRead \/ CheckUpdate \/ Stop
         \/ \E n \in Nodes : CheckProbe(n)
  PROVE  CheckInv'
<1>0. /\ check \in Check /\ members \in [Nodes -> Status] /\ fails \in [Nodes -> 0 .. 2]
      /\ check.todo \subseteq Nodes /\ NoNode \notin Nodes
  BY ClusterAssumption, Zenon DEF TypeOK, Check
<1>1. CASE CheckList
  <2>1. /\ check.pc = "idle" /\ check' = [check EXCEPT !.pc = "next", !.todo = Listed]
        /\ UNCHANGED <<members, fails, removed>>
    BY <1>1, Zenon DEF CheckList, Checks
  <2>2. check'.pc = "next" /\ check'.node = NoNode /\ check'.todo = Listed
    BY <1>0, <2>1, Zenon DEF Check, WorkInv
  <2>3. \A n \in Listed : members[n] # "none"
    BY Zenon DEF Listed
  <2>4. DeadInv'
    BY <2>1, <2>2, Zenon DEF CheckInv, DeadInv, DeadFailedTwice
  <2>5. PanicInv'
    BY <2>1, <2>2, <2>3, Zenon DEF PanicInv, PanicNeedsLeave
  <2> QED BY <2>4, <2>5, Zenon DEF CheckInv
<1>2. CASE Stop
  <2>1. /\ check.pc = "idle" /\ check' = [check EXCEPT !.pc = "stopped"]
        /\ UNCHANGED <<members, fails, removed>>
    BY <1>2, Zenon DEF Stop, Checks
  <2>2. check'.pc = "stopped"
    BY <1>0, <2>1, Zenon DEF Check
  <2>3. DeadInv'
    BY <2>1, <2>2, Zenon DEF CheckInv, DeadInv, DeadFailedTwice
  <2>4. PanicInv'
    BY <2>2, Zenon DEF PanicInv, PanicNeedsLeave
  <2> QED BY <2>3, <2>4, Zenon DEF CheckInv
<1>3. ASSUME NEW n \in Nodes, CheckProbe(n) PROVE CheckInv'
  <2>1. /\ check.pc = "next" /\ n \in check.todo
        /\ check' = [check EXCEPT !.pc = IF n \in up THEN "healthy" ELSE "unhealthy",
                                  !.node = n, !.todo = @ \ {n}]
        /\ fails' = [fails EXCEPT ![n] = IF n \in up THEN 0 ELSE IF @ = 2 THEN 2 ELSE @ + 1]
        /\ UNCHANGED <<members, removed>>
    BY <1>3, Zenon DEF CheckProbe, Checks
  <2>2. /\ check'.pc = IF n \in up THEN "healthy" ELSE "unhealthy"
        /\ check'.node = n /\ check'.todo = check.todo \ {n}
    BY <1>0, <2>1, Zenon DEF Check
  <2>3. \A m \in Nodes : m # n => fails'[m] = fails[m]
    BY <1>0, <2>1, Zenon
  <2>4. n \notin up => fails'[n] \in {1, 2} /\ (fails[n] \in {1, 2} => fails'[n] = 2)
    <3>1. fails[n] \in 0 .. 2 /\ fails'[n] = IF n \in up THEN 0
                                             ELSE IF fails[n] = 2 THEN 2 ELSE fails[n] + 1
      BY <1>0, <2>1, Zenon
    <3> QED BY <3>1
  <2>5. /\ \A m \in Nodes : members[m] = "dead" => fails[m] = 2
        /\ \A m \in Nodes : members[m] = "suspect" => fails[m] \in {1, 2}
    BY <2>1, Zenon DEF CheckInv, DeadInv, DeadFailedTwice
  <2>6. DeadInv'
    <3>1. n \notin up /\ members[n] \in {"suspect", "dead"} => fails'[n] = 2
      BY <2>4, <2>5, Zenon
    <3>2. \A m \in Nodes :
            /\ members[m] = "dead" => fails'[m] = 2 \/ (check'.pc = "healthy" /\ check'.node = m)
            /\ members[m] = "suspect" =>
                 fails'[m] \in {1, 2} \/ (check'.pc = "healthy" /\ check'.node = m)
      BY <2>2, <2>3, <2>4, <2>5, Zenon
    <3> QED BY <2>1, <2>2, <2>4, <3>1, <3>2 DEF DeadInv, DeadFailedTwice
  <2>7. \A m \in check.todo : members[m] = "none" => m \in removed
    BY <2>1, Zenon DEF CheckInv, PanicInv, PanicNeedsLeave
  <2>8. PanicInv'
    BY <2>1, <2>2, <2>7, Zenon DEF PanicInv, PanicNeedsLeave
  <2> QED BY <2>6, <2>8, Zenon DEF CheckInv
<1>4. CASE CheckRead
  <2>1. /\ check.pc = "unhealthy" /\ members[check.node] # "none"
        /\ check' = [check EXCEPT !.pc = "update", !.seen = members[check.node]]
        /\ UNCHANGED <<members, fails, removed>>
    BY <1>4, Zenon DEF CheckRead, Checks
  <2>2. /\ check'.pc = "update" /\ check'.node = check.node /\ check'.todo = check.todo
        /\ check'.seen = members[check.node]
    BY <1>0, <2>1, Zenon DEF Check
  <2>3. check.node \in Nodes /\ members[check.node] \in {"alive", "suspect", "dead"}
    BY <1>0, <2>1, Zenon DEF WorkInv, Status
  <2>4. DeadInv'
    BY <2>1, <2>2, <2>3, Zenon DEF CheckInv, DeadInv, DeadFailedTwice
  <2>5. PanicInv'
    BY <2>1, <2>2, Zenon DEF CheckInv, PanicInv, PanicNeedsLeave
  <2> QED BY <2>4, <2>5, Zenon DEF CheckInv
<1>5. CASE CheckHealthy
  <2>1. /\ check.pc = "healthy" /\ CheckNext /\ UpdateMemberStatus(check.node, "alive")
        /\ fails' = fails
    BY <1>5, Zenon DEF CheckHealthy, Checks
  <2>2. check.node \in Nodes
    BY <2>1, Zenon DEF WorkInv
  <2>3. /\ \A n \in Nodes : n # check.node => members'[n] = members[n]
        /\ members'[check.node] = IF members[check.node] = "none" THEN "none" ELSE "alive"
    BY <1>0, <2>1, <2>2, Zenon DEF UpdateMemberStatus
  <2> QED BY <2>1, <2>3, NextCheckInv, Zenon
<1>6. CASE CheckUpdate
  <2>1. /\ check.pc = "update" /\ CheckNext /\ fails' = fails
        /\ IF check.seen = "dead" THEN UNCHANGED members
                                  ELSE UpdateMemberStatus(check.node, Worse(check.seen))
    BY <1>6, Zenon DEF CheckUpdate, Checks
  <2>2. check.node \in Nodes
    BY <2>1, Zenon DEF WorkInv
  <2>3. /\ fails[check.node] \in {1, 2}
        /\ members[check.node] \in {"suspect", "dead"} => fails[check.node] = 2
        /\ check.seen = "alive" \/ (check.seen \in {"suspect", "dead"} /\ fails[check.node] = 2)
    BY <2>1, Zenon DEF CheckInv, DeadInv
  <2>4. /\ \A n \in Nodes : n # check.node => members'[n] = members[n]
        /\ \/ members'[check.node] = members[check.node]
           \/ /\ members[check.node] # "none" /\ members'[check.node] = Worse(check.seen)
              /\ check.seen # "dead"
    BY <1>0, <2>1, <2>2, Zenon DEF UpdateMemberStatus
  <2>5. Worse(check.seen) = IF check.seen = "alive" THEN "suspect" ELSE "dead"
    BY Zenon DEF Worse
  <2>6. /\ members'[check.node] = "none" => members[check.node] = "none"
        /\ members'[check.node] = "suspect" => fails[check.node] \in {1, 2}
        /\ members'[check.node] = "dead" => fails[check.node] = 2
    BY <2>3, <2>4, <2>5, Zenon
  <2> QED BY <2>1, <2>4, <2>6, NextCheckInv, Zenon
<1> QED BY <1>1, <1>2, <1>3, <1>4, <1>5, <1>6, Zenon

\* Every step keeps CheckInv.
LEMMA CheckInvStep == TypeOK /\ WorkInv /\ CheckInv /\ [Next]_vars => CheckInv'
<1> SUFFICES ASSUME TypeOK, WorkInv, CheckInv, [Next]_vars PROVE CheckInv'
  BY Zenon
<1> QED BY NextCases, OthersCheckInv, ChecksInv, CrashInv, Zenon

-----------------------------------------------------------------------------
(* The theorems *)

\* The tables, the handlers and the health check stay well formed.
THEOREM TypeCorrect == Spec => []TypeOK
<1> QED BY InitInv, TypeStep, PTL DEF Spec

\* A request for a node of the ring finds its address, whatever joins, leaves,
\* announcements, health checks and restarts come between.
THEOREM RingKnownHolds == Spec => []RingKnown
<1>1. TypeOK /\ RingInv => RingKnown
  BY Zenon DEF TypeOK, RingInv, NodeInv, RingKnown
<1> QED BY <1>1, InitInv, TypeStep, RingStep, PTL DEF Spec

\* A join or a leave that the server made as the leader is carried through to
\* its ring, and stays there until the server restarts, another leader changes
\* the node, or a join and a leave of the node overlap.
THEOREM RingIsConfigurationHolds == Spec => []RingIsConfiguration
<1>1. RingInv => RingIsConfiguration
  BY Zenon DEF RingInv, NodeInv, RingIsConfiguration
<1> QED BY <1>1, InitInv, TypeStep, RingStep, PTL DEF Spec

\* A member is dead only when its last two health checks failed.
THEOREM DeadFailedTwiceHolds == Spec => []DeadFailedTwice
<1>1. CheckInv => DeadFailedTwice
  BY Zenon DEF CheckInv, DeadInv
<1> QED BY <1>1, InitInv, TypeStep, CheckInvStep, PTL DEF Spec

\* The health check ends the process only over a member that was removed after
\* it made its list.
THEOREM PanicNeedsLeaveHolds == Spec => []PanicNeedsLeave
<1>1. CheckInv => PanicNeedsLeave
  BY Zenon DEF CheckInv, PanicInv
<1> QED BY <1>1, InitInv, TypeStep, CheckInvStep, PTL DEF Spec
=============================================================================
