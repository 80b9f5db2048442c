------------------------------ MODULE Cluster ------------------------------
(***************************************************************************)
(* What one server knows of its cluster, from internal/cluster and          *)
(* internal/rest/cluster.go: the members with their status, the nodes of    *)
(* the hash ring, the requests that change both, the health check, and      *)
(* where it forwards requests.  Raft and the other nodes are external.      *)
(*                                                                          *)
(* A step of a handler is what it does under one lock, or one call to       *)
(* another node.  Members and ring are in memory only.                      *)
(***************************************************************************)
EXTENDS Naturals, FiniteSets

CONSTANTS
    Nodes, Local,              \* Local is the server
    NoNode,
    Preference,                \* the queue's order of the nodes on the ring
    Handlers,
    MaxRequests, MaxCrashes, MaxFlips   \* bounds

ASSUME ClusterAssumption ==
    /\ Local \in Nodes /\ NoNode \notin Nodes
    /\ Preference \in [Nodes -> Nat]
    /\ \A n, m \in Nodes : Preference[n] = Preference[m] => n = m
    /\ {MaxRequests, MaxCrashes, MaxFlips} \subseteq Nat

VARIABLES
    mode,          \* "up" or "down"
    leader,        \* Raft: the server leads
    voters,        \* Raft: the configuration
    up,            \* the nodes that answer
    members,       \* node -> status, "none" if it is not in the map
    ring,          \* the nodes of the hash ring
    req,           \* the join, leave and announce handlers
    check,         \* the goroutine of healthCheckLoop
    fails,         \* history: failed health checks of a node in a row, up to 2
    removed,       \* history: nodes RemoveMember took out during a health check
    overlapped,    \* history: nodes of which a join and a leave overlapped since the start
    unseen,        \* history: nodes whose last change in Raft another leader made, or
                   \* was reported as an error
    forgot,        \* history: the server restarted
    requests, crashes, flips   \* counted

raft == <<leader, voters>>
tables == <<members, ring>>
history == <<fails, removed, overlapped, unseen, forgot>>
counters == <<requests, crashes, flips>>
vars == <<mode, raft, up, tables, req, check, history, counters>>

Status == {"none", "alive", "suspect", "dead"}

-----------------------------------------------------------------------------
(* Membership *)

\* An error, and no change, for a member that is there.
AddMember(n) ==
    members' = [members EXCEPT ![n] = IF @ = "none" THEN "alive" ELSE @]

RemoveMember(n) ==
    /\ members' = [members EXCEPT ![n] = "none"]
    /\ removed' = IF check.pc \in {"idle", "stopped"} THEN removed ELSE removed \cup {n}

UpdateMemberStatus(n, status) ==
    members' = [members EXCEPT ![n] = IF @ = "none" THEN @ ELSE status]

-----------------------------------------------------------------------------
(* joinNode, leaveNode and announceNode *)

Idle == [pc |-> "idle", node |-> NoNode]

Goto(h, pc, n) == req' = [req EXCEPT ![h] = [pc |-> pc, node |-> n]]
Return(h) == req' = [req EXCEPT ![h] = Idle]

JoinPC == {"joinMember", "joinRing"}
LeavePC == {"leaveMember", "leaveRing"}

\* A handler of this kind works on n.
Handled(n, pcs) == \E h \in Handlers : req[h].node = n /\ req[h].pc \in pcs

Request(h) ==
    /\ mode = "up" /\ req[h].pc = "idle"
    /\ requests < MaxRequests
    /\ requests' = requests + 1
    /\ UNCHANGED <<mode, up, ring, check, fails, forgot, crashes, flips>>

\* Mutant of JoinRaft: the member is not added.
JoinRaftSkipsMember(h, n) ==
    /\ Request(h)
    /\ leader
    /\ voters' = voters \cup {n}
    /\ Goto(h, "joinRing", n)
    /\ overlapped' = overlapped \cup {m \in {n} : Handled(m, LeavePC)}
    /\ unseen' = unseen \ {n}
    /\ UNCHANGED <<leader, members, removed>>

\* joinNode up to the end of node.Join.
JoinRaft(h, n) ==
    /\ Request(h)
    /\ leader
    /\ voters' = voters \cup {n}
    /\ Goto(h, "joinMember", n)
    /\ overlapped' = overlapped \cup {m \in {n} : Handled(m, LeavePC)}
    /\ unseen' = unseen \ {n}
    /\ UNCHANGED <<leader, members, removed>>

\* AddVoter reports an error, and the change may still be committed.
JoinRaftFails(h, n) ==
    /\ Request(h)
    /\ leader
    /\ voters' \in {voters, voters \cup {n}}
    /\ unseen' = unseen \cup {n}
    /\ UNCHANGED <<leader, members, req, removed, overlapped>>

Handles(h, pc) ==
    /\ mode = "up" /\ req[h].pc = pc
    /\ UNCHANGED <<mode, raft, up, check, fails, overlapped, unseen, forgot, counters>>

\* Mutant of JoinMember: return after the error of AddMember.
JoinMemberReturns(h) ==
    LET n == req[h].node
    IN  /\ Handles(h, "joinMember")
        /\ AddMember(n)
        /\ IF members[n] = "none" THEN Goto(h, "joinRing", n) ELSE Return(h)
        /\ UNCHANGED <<ring, removed>>

JoinMember(h) ==
    LET n == req[h].node
    IN  /\ Handles(h, "joinMember")
        /\ AddMember(n)
        /\ Goto(h, "joinRing", n)
        /\ UNCHANGED <<ring, removed>>

JoinRing(h) ==
    /\ Handles(h, "joinRing")
    /\ ring' = ring \cup {req[h].node}
    /\ Return(h)
    /\ UNCHANGED <<members, removed>>

\* leaveNode up to the end of node.Remove; Raft keeps one voter.  A leader
\* that removes itself steps down.
LeaveRaft(h, n) ==
    /\ Request(h)
    /\ leader /\ voters # {n}
    /\ voters' = voters \ {n}
    /\ leader' = (n # Local)
    /\ Goto(h, "leaveMember", n)
    /\ overlapped' = overlapped \cup {m \in {n} : Handled(m, JoinPC)}
    /\ unseen' = unseen \ {n}
    /\ UNCHANGED <<members, removed>>

LeaveRaftFails(h, n) ==
    /\ Request(h)
    /\ leader
    /\ voters' \in {voters, voters \ {n}} \ {{}}
    /\ unseen' = unseen \cup {n}
    /\ UNCHANGED <<leader, members, req, removed, overlapped>>

LeaveMember(h) ==
    LET n == req[h].node
    IN  /\ Handles(h, "leaveMember")
        /\ RemoveMember(n)
        /\ Goto(h, "leaveRing", n)
        /\ UNCHANGED ring

LeaveRing(h) ==
    /\ Handles(h, "leaveRing")
    /\ ring' = ring \ {req[h].node}
    /\ Return(h)
    /\ UNCHANGED <<members, removed>>

\* announceNode adds a member, or goes on to update it.
Announce(h, n) ==
    /\ Request(h)
    /\ AddMember(n)
    /\ IF members[n] = "none" THEN UNCHANGED req ELSE Goto(h, "announce", n)
    /\ UNCHANGED <<raft, removed, overlapped, unseen>>

AnnounceUpdate(h) ==
    /\ Handles(h, "announce")
    /\ UpdateMemberStatus(req[h].node, "alive")
    /\ Return(h)
    /\ UNCHANGED <<ring, removed>>

\* discoverNodes, for one member in the list of a seed.
Discover(n) ==
    /\ mode = "up"
    /\ n # Local /\ members[n] = "none"
    /\ AddMember(n)
    /\ UNCHANGED <<mode, raft, up, ring, req, check, history, counters>>
-----------------------------------------------------------------------------
(* checkMemberHealth.  pc is "next" between two members of the list. *)

NoCheck == [pc |-> "idle", todo |-> {}, node |-> NoNode, seen |-> "none"]

Checks(pc) ==
    /\ mode = "up" /\ check.pc = pc
    /\ UNCHANGED <<raft, up, ring, overlapped, unseen, requests, crashes, flips>>

\* The loop goes on with the next member, or waits for the ticker.
CheckNext ==
    /\ check' = [check EXCEPT !.pc = IF check.todo = {} THEN "idle" ELSE "next",
                              !.node = NoNode, !.seen = "none"]
    /\ removed' = IF check.todo = {} THEN {} ELSE removed

\* Mutant of Listed: the server checks itself.
ListedSelf == {n \in Nodes : members[n] # "none"}

Listed == {n \in Nodes \ {Local} : members[n] # "none"}

\* Mutant of CheckList: the nodes Raft knows.
CheckListVoters ==
    /\ Checks("idle")
    /\ voters \ {Local} # {}
    /\ check' = [check EXCEPT !.pc = "next", !.todo = voters \ {Local}]
    /\ UNCHANGED <<mode, members, req, fails, removed, forgot>>

CheckList ==
    /\ Checks("idle")
    /\ Listed # {}
    /\ check' = [check EXCEPT !.pc = "next", !.todo = Listed]
    /\ UNCHANGED <<mode, members, req, fails, removed, forgot>>

\* isHealthy; an answer that comes too late is that of a node which is down.
CheckProbe(n) ==
    /\ Checks("next")
    /\ n \in check.todo
    /\ check' = [check EXCEPT !.pc = IF n \in up THEN "healthy" ELSE "unhealthy",
                              !.node = n, !.todo = @ \ {n}]
    /\ fails' = [fails EXCEPT ![n] = IF n \in up THEN 0 ELSE IF @ = 2 THEN 2 ELSE @ + 1]
    /\ UNCHANGED <<mode, members, req, removed, forgot>>

\* Mutant of CheckHealthy: only a suspect is cleared.
CheckHealthySuspect ==
    /\ Checks("healthy")
    /\ IF members[check.node] = "suspect" THEN UpdateMemberStatus(check.node, "alive")
                                          ELSE UNCHANGED members
    /\ CheckNext
    /\ UNCHANGED <<mode, req, fails, forgot>>

CheckHealthy ==
    /\ Checks("healthy")
    /\ UpdateMemberStatus(check.node, "alive")
    /\ CheckNext
    /\ UNCHANGED <<mode, req, fails, forgot>>

\* The status is read under the read lock.
CheckRead ==
    /\ Checks("unhealthy")
    /\ members[check.node] # "none"
    /\ check' = [check EXCEPT !.pc = "update", !.seen = members[check.node]]
    /\ UNCHANGED <<mode, members, req, fails, removed, forgot>>

\* Mutants of Worse: no suspicion; no death.
WorseAtOnce(status) == "dead"
WorseStays(status) == "suspect"

Worse(status) ==
    CASE status = "alive" -> "suspect" [] OTHER -> "dead"

\* And written under the lock, unless it was dead.
CheckUpdate ==
    /\ Checks("update")
    /\ IF check.seen = "dead" THEN UNCHANGED members
                              ELSE UpdateMemberStatus(check.node, Worse(check.seen))
    /\ CheckNext
    /\ UNCHANGED <<mode, req, fails, forgot>>

\* Membership.Stop ends the loop between two checks.
Stop ==
    /\ Checks("idle")
    /\ check' = [check EXCEPT !.pc = "stopped"]
    /\ UNCHANGED <<mode, members, req, fails, removed, forgot>>

-----------------------------------------------------------------------------
(* The proxy *)

\* GetQueueNode, by what ConsistentHash shows of GetNode.
Owner == CHOOSE n \in ring : \A m \in ring : Preference[n] <= Preference[m]

\* Where ForwardRequest sends a request for the queue; NoNode is an error.
ForwardRequest ==
    IF ring # {} /\ members[Owner] = "alive" THEN Owner ELSE NoNode

-----------------------------------------------------------------------------
(* The process, Raft and the other nodes *)

\* What main puts in the tables before it serves requests (external).
StartMembers == [n \in Nodes |-> IF n = Local THEN "alive" ELSE "none"]
StartRing == {Local}

Dies ==
    /\ mode' = "down"
    /\ leader' = FALSE
    /\ members' = StartMembers
    /\ ring' = StartRing
    /\ req' = [h \in Handlers |-> Idle]
    /\ check' = NoCheck
    /\ fails' = [n \in Nodes |-> 0]
    /\ removed' = {} /\ overlapped' = {} /\ unseen' = {}
    /\ forgot' = TRUE
    /\ UNCHANGED <<voters, up, requests, flips>>

\* checkMemberHealth reads the status of a member that is no longer there.
Panic ==
    /\ mode = "up" /\ check.pc = "unhealthy"
    /\ members[check.node] = "none"
    /\ Dies
    /\ UNCHANGED crashes

Crash ==
    /\ mode = "up"
    /\ crashes < MaxCrashes
    /\ crashes' = crashes + 1
    /\ Dies

Restart ==
    /\ mode = "down"
    /\ mode' = "up"
    /\ UNCHANGED <<raft, up, tables, req, check, history, counters>>

\* An election is won, with the server in the configuration, or lost.
LeaderChange ==
    /\ mode = "up"
    /\ leader' = ~leader
    /\ leader' => Local \in voters
    /\ UNCHANGED <<mode, voters, up, tables, req, check, history, counters>>

\* Another leader, also while the server is down, adds n to the configuration
\* or removes it.  Raft tells the server, which does nothing with it.
ConfigurationChange(n) ==
    /\ ~leader /\ voters \ {Local} # {}
    /\ voters' = IF n \in voters THEN voters \ {n} ELSE voters \cup {n}
    /\ voters' # {}
    /\ unseen' = unseen \cup {n}
    /\ UNCHANGED <<mode, leader, up, tables, req, check, fails, removed, overlapped, forgot,
                   counters>>

\* Another node stops or starts answering.
Flip(n) ==
    /\ n # Local
    /\ flips < MaxFlips
    /\ flips' = flips + 1
    /\ up' = IF n \in up THEN up \ {n} ELSE up \cup {n}
    /\ UNCHANGED <<mode, raft, tables, req, check, history, requests, crashes>>

-----------------------------------------------------------------------------
\* The server leads a cluster that some nodes have joined.
Init ==
    /\ mode = "up"
    /\ leader = TRUE
    /\ voters \in {V \in SUBSET Nodes : Local \in V}
    /\ up \in {U \in SUBSET Nodes : Local \in U}
    /\ members = [n \in Nodes |-> IF n \in voters THEN "alive" ELSE "none"]
    /\ ring = voters
    /\ req = [h \in Handlers |-> Idle]
    /\ check = NoCheck
    /\ fails = [n \in Nodes |-> 0]
    /\ removed = {} /\ overlapped = {} /\ unseen = {}
    /\ forgot = FALSE
    /\ requests = 0 /\ crashes = 0 /\ flips = 0

HandlerStep(h) ==
    JoinMember(h) \/ JoinRing(h) \/ LeaveMember(h) \/ LeaveRing(h) \/ AnnounceUpdate(h)

CheckStep ==
    \/ CheckList \/ CheckHealthy \/ CheckRead \/ CheckUpdate \/ Panic
    \/ \E n \in Nodes : CheckProbe(n)

Next ==
    \/ \E h \in Handlers, n \in Nodes :
          \/ JoinRaft(h, n) \/ JoinRaftFails(h, n)
          \/ LeaveRaft(h, n) \/ LeaveRaftFails(h, n)
          \/ Announce(h, n)
    \/ \E h \in Handlers : HandlerStep(h)
    \/ CheckStep \/ Stop
    \/ \E n \in Nodes : Discover(n) \/ Flip(n) \/ ConfigurationChange(n)
    \/ Crash \/ Restart \/ LeaderChange

Spec == Init /\ [][Next]_vars

\* The goroutine of the health check and the handlers are scheduled; what the
\* users, the network, Raft and the other nodes do is not forced.
FairSpec == Spec /\ WF_vars(CheckStep) /\ \A h \in Handlers : WF_vars(HandlerStep(h))

-----------------------------------------------------------------------------
(* Properties *)

HandlerPC == {"idle", "announce"} \cup JoinPC \cup LeavePC
Handler == [pc : HandlerPC, node : Nodes \cup {NoNode}]

CheckPC == {"idle", "next", "healthy", "unhealthy", "update", "stopped"}
Check == [pc : CheckPC, todo : SUBSET (Nodes \ {Local}), node : Nodes \cup {NoNode},
          seen : Status]

TypeOK ==
    /\ mode \in {"up", "down"} /\ leader \in BOOLEAN /\ forgot \in BOOLEAN
    /\ voters \subseteq Nodes /\ up \subseteq Nodes /\ ring \subseteq Nodes
    /\ members \in [Nodes -> Status]
    /\ req \in [Handlers -> Handler] /\ check \in Check
    /\ fails \in [Nodes -> 0 .. 2]
    /\ removed \subseteq Nodes /\ overlapped \subseteq Nodes /\ unseen \subseteq Nodes
    /\ requests \in 0 .. MaxRequests /\ crashes \in 0 .. MaxCrashes
    /\ flips \in 0 .. MaxFlips

\* A node of the ring is a member, so ForwardRequest finds its address, but
\* for the last step of leaveNode and for a node of which a join and a leave
\* overlapped.
RingKnown ==
    \A n \in ring \ overlapped :
        members[n] # "none" \/ Handled(n, {"leaveRing"})

\* The ring follows the changes of the Raft configuration that the server made
\* as the leader: when no handler works on a node whose last change was one of
\* them, the node is on the ring if it is a voter, whatever discovery, the
\* announcements, the health check, lost elections and the other requests did
\* meanwhile.  Left out are the nodes that another leader added or removed last,
\* those of a Raft change that reported an error, those of which a join and a
\* leave overlapped, and a server that restarted.
RingIsConfiguration ==
    ~forgot => \A n \in Nodes \ (overlapped \cup unseen) :
        ~Handled(n, JoinPC \cup LeavePC) => (n \in ring <=> n \in voters)

\* A member is dead only when its last two health checks failed, whatever
\* announcements, leaves and joins came between a check's read of the status
\* and its write.  A check that succeeded is yet to say so.
DeadFailedTwice ==
    \A n \in Nodes :
        members[n] = "dead" => fails[n] = 2 \/ (check.pc = "healthy" /\ check.node = n)

\* The health check reads the status of a member that is not there, and so
\* ends the process, only if the member was removed after the check made its
\* list.
PanicNeedsLeave ==
    check.pc \in {"next", "unhealthy"} =>
        \A n \in check.todo \cup ({check.node} \ {NoNode}) :
            members[n] = "none" => n \in removed

\* A member that stays down is marked dead or removed, for good, while the
\* health check runs.
DownNoticed ==
    \A n \in Nodes :
        <>[](n \notin up) =>
            <>[](members[n] \in {"dead", "none"}) \/ <>[](check.pc = "stopped")

\* Requests for the queue are forwarded again, for good, once the nodes of the
\* ring stay up: members marked dead come back, and a node that left does not
\* stay the owner.
ForwardsAgain ==
    <>[](ring # {} /\ ring \subseteq up /\ overlapped = {}) =>
        <>[](ForwardRequest # NoNode) \/ <>[](check.pc = "stopped")

-----------------------------------------------------------------------------
(* What the repository says of the cluster and the code does not do.       *)

\* When a follower fails, its queues "rebalance to remaining nodes": requests
\* for the queue are in the end forwarded, whichever nodes but this one stay
\* down.  A dead member stays on the ring and ForwardRequest refuses it.
QueuesRebalance ==
    \A n \in Nodes \ {Local} :
        <>[](n \notin up /\ Local \in ring /\ overlapped = {}) =>
            <>[](ForwardRequest # NoNode) \/ <>[](check.pc = "stopped")

\* "Adding nodes: Queues rebalance automatically": a node that stays in the
\* configuration gets on the ring of a server that stays up.  Only the server
\* that handles the join adds it to its ring.
AddedNodesOwn ==
    \A n \in Nodes :
        <>[](n \in voters /\ ~forgot /\ n \notin overlapped) => <>[](n \in ring)
=============================================================================
