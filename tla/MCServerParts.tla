----------------------------- MODULE MCServerParts -----------------------------
(***************************************************************************)
(* Instances for TLC of two parts of the API that share nothing: the       *)
(* endpoints of one assignment group, and the GNS3 sessions.  In each      *)
(* behaviour only one of them moves.                                       *)
(***************************************************************************)
EXTENDS MCGroupApi, Gns3Sessions

CONSTANTS ann, c1

VARIABLE part

\* GNS3: handlers of two users meet, and nothing fails; requests for one user
\* come one at a time, and something fails; or a session is extended or runs out.
Gns3Parts == {"meeting", "failing", "expiring"}

PartsInit ==
  /\ GroupInit /\ Gns3Init
  /\ part \in {"group"} \cup Gns3Parts

GroupMoves == part = "group" /\ UNCHANGED << part, gns3Vars >>

Gns3Moves == part \in Gns3Parts /\ UNCHANGED << part, groupVars >>

Failing == part = "failing" /\ Gns3Moves

Asks(c, u) == Gns3Moves /\ (part = "meeting" \/ c = c1) /\ (part = "failing" => u = ann)

\* The actions of GroupNext for jobs, and those of Gns3Next, each on its own.
PartsNext ==
  \/ \E j \in Jobs, w \in Windows, s \in Rosters : GroupMoves /\ CreateGroup(j, w, s)
  \/ \E j \in Jobs, start \in Time, deadline \in Time : GroupMoves /\ UnarchiveGroup(j, start, deadline)
  \/ \E j \in Jobs, start \in Time, deadline \in Time, sent \in BOOLEAN, s \in Rosters :
        GroupMoves /\ EditGroup(j, start, deadline, sent, s)
  \/ \E j \in Jobs, archived \in BOOLEAN : GroupMoves /\ ListGroups(j, archived)
  \/ \E j \in Jobs : GroupMoves /\ DeleteGroup(j)
  \/ \E j \in Jobs : GroupMoves /\ ArchiveGroup(j)
  \/ \E j \in Jobs : GroupMoves /\ GetDetails(j)
  \/ \E j \in Jobs : GroupMoves /\ JobProceed(j)
  \/ \E j \in Jobs : GroupMoves /\ JobFail(j)
  \/ GroupMoves /\ Next /\ UNCHANGED << owner, jobs >>
  \/ \E c \in Callers, u \in Hosted : Asks(c, u) /\ StartSession(c, u)
  \/ \E c \in Callers, u \in Hosted : Asks(c, u) /\ part # "expiring" /\ StopSession(c, u)
  \/ \E c \in Callers, u \in Hosted : Asks(c, u) /\ part = "expiring" /\ ExtendSession(c, u)
  \/ \E c \in Callers : Asks(c, ann) /\ part # "expiring" /\ ForceStopAll(c)
  \/ Gns3Moves /\ part # "meeting" /\ Cleanup
  \/ \E c \in Workers : Gns3Moves /\ ExtendSave(c)
  \/ \E c \in Workers : Gns3Moves /\ SendCommand(c)
  \/ \E c \in Workers : Gns3Moves /\ ReadAnswer(c)
  \/ \E c \in Workers : Gns3Moves /\ Save(c)
  \/ \E c \in Workers : Failing /\ LauncherUnreachable(c)
  \/ \E c \in Workers : Failing /\ AnswerLost(c)
  \/ \E c \in Workers : Failing /\ ConnectionBroken(c)
  \/ \E c \in Workers : Failing /\ Aborted(c)
  \/ \E k \in conns : Gns3Moves /\ StartTest(k)
  \/ \E k \in conns : Gns3Moves /\ Allocate(k)
  \/ \E k \in conns : Gns3Moves /\ Launch(k)
  \/ \E k \in conns : Gns3Moves /\ StopUnit(k)
  \/ \E k \in conns : Failing /\ CommandFails(k)
  \/ \E k \in conns : Gns3Moves /\ Unheard(k)
  \/ \E u \in Hosted : Gns3Moves /\ Bind(u)
  \/ \E u \in Hosted : Gns3Moves /\ Respawn(u)
  \/ \E u \in Hosted : Failing /\ Crash(u)
  \/ Failing /\ ApiRestarts
  \/ Failing /\ HostRestarts
  \/ Gns3Moves /\ part # "meeting" /\ ClockTicks

\* Gns3Fairness, within its part.
PartsFairness ==
  /\ WF_gns3Vars(part \in Gns3Parts /\ Cleanup)
  /\ WF_gns3Vars(part \in Gns3Parts /\ SendCommand(Cleaner))
  /\ WF_gns3Vars(part \in Gns3Parts /\ ReadAnswer(Cleaner))
  /\ WF_gns3Vars(part \in Gns3Parts /\ Save(Cleaner))
  /\ WF_gns3Vars(part \in Gns3Parts /\ \E k \in ConnOf(Cleaner) : StopUnit(k))

PartsSpec == PartsInit /\ [][PartsNext]_<< part, groupVars, gns3Vars >> /\ PartsFairness

=============================================================================
