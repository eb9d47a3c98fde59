--------------------------- MODULE GroupApi_proofs ---------------------------
(***************************************************************************)
(* Proofs about the endpoints of an assignment group that run beside those *)
(* of its attempts, for any students, rosters, jobs and requests.          *)
(***************************************************************************)
EXTENDS GroupApi, AttemptApi_proofs

JobStep(j) == JobArrive(j) \/ JobProceed(j) \/ JobFail(j)

\* Assignments that were handed out at some time, be they deleted or not.
Known(ids) == \A a \in ids : ~ Fresh(a)

AllSubmitted(ids) == \A a \in ids : HasSubmit(a)

----------------------------------------------------------------------------
(***************************************************************************)
(* Jobs.                                                                   *)
(***************************************************************************)
Creates == {"create:group", "create:assignments"}

\* The window that the job has assigned: the one it loaded, or one in order.
WindowKept(q) ==
  \/ q.assigned.start = q.loaded.start /\ q.assigned.deadline = q.loaded.deadline
  \/ q.assigned.start <= q.assigned.deadline

(***************************************************************************)
(* What a job holds.  Only the save of a listing or of the details ends    *)
(* the group.                                                              *)
(***************************************************************************)
JobShape(q) ==
  /\ q \in Job
  /\ q.pc \in Creates => q.ids = {}
  /\ q.pc = "create:group" => ~ q.assigned.completed
  /\ q.pc \notin Creates => WindowKept(q)
  /\ q.pc \notin Creates \cup {"save"} /\ q.assigned.completed => q.loaded.completed

GroupTypeInv ==
  /\ TypeInv
  /\ owner \in [AssignmentIds -> Students \cup {NoStudent}]
  /\ jobs \in [Jobs -> Job]
  /\ \A j \in Jobs : JobShape(jobs[j])

\* What a step of a job may make of it.
EndsRightly(q) ==
  q.pc = "save" /\ q.assigned.completed /\ ~ q.loaded.completed => AllSubmitted(q.ids)

CreatesAlone(q) ==
  q.pc = "create:group" => ~ group.exists /\ \A i \in Jobs : jobs[i].pc = "idle"

MovesAsCoded(old, new) ==
  /\ JobShape(new)
  /\ new.ids \subseteq old.ids \cup assignments
  /\ EndsRightly(new)
  /\ CreatesAlone(new)

JobMoves(j) ==
  \E q : jobs' = [jobs EXCEPT ![j] = q] /\ MovesAsCoded(jobs[j], q)

LEMMA RowsOfGroup ==
  /\ NoGroup \in GroupRow
  /\ GroupTypeInv => group \in GroupRow
  /\ \A w \in Time \X Time :
       [NoGroup EXCEPT !.exists = TRUE, !.start = w[1], !.deadline = w[2]] \in GroupRow
<1>1. NoGroup \in GroupRow
  BY TablesAssumption DEF NoGroup, GroupRow, Time
<1>2. \A w \in Time \X Time :
       [NoGroup EXCEPT !.exists = TRUE, !.start = w[1], !.deadline = w[2]] \in GroupRow
  BY <1>1 DEF GroupRow
<1> QED
  BY <1>1, <1>2 DEF GroupTypeInv, TypeInv, TablesTypeOK

LEMMA IdleJobMoves ==
  IdleJob \in Job /\ IdleJob.pc = "idle" /\ IdleJob.ids = {} /\ JobShape(IdleJob)
<1>1. IdleJob \in Job
  BY RowsOfGroup DEF IdleJob, Job, JobPcs
<1> QED
  BY <1>1 DEF IdleJob, JobShape, Creates, WindowKept, NoGroup

LEMMA ReturnJobMoves ==
  ASSUME NEW j \in Jobs, JobReturns(j)
  PROVE  JobMoves(j)
<1>1. MovesAsCoded(jobs[j], IdleJob)
  BY IdleJobMoves DEF MovesAsCoded, EndsRightly, CreatesAlone
<1> QED
  BY <1>1 DEF JobReturns, JobMoves

\* The handler that has loaded the group row.
LEMMA LoadsJobMoves ==
  ASSUME GroupTypeInv, NEW j \in Jobs,
         NEW pc \in JobPcs \ Creates, NEW row \in GroupRow, NEW desired \in SUBSET Students,
         JobLoads(j, pc, row, desired),
         \/ row.start = group.start /\ row.deadline = group.deadline
         \/ row.start <= row.deadline,
         row.completed => group.completed
  PROVE  JobMoves(j)
<1> DEFINE q == [IdleJob EXCEPT !.pc = pc, !.loaded = group, !.assigned = row,
                                !.desired = desired]
<1>1. /\ q.pc = pc /\ q.loaded = group /\ q.assigned = row /\ q.ids = {}
      /\ q.desired = desired /\ q.listed = FALSE
  BY DEF IdleJob
<1>2. q \in Job
  BY IdleJobMoves, RowsOfGroup DEF Job
<1>3. jobs' = [jobs EXCEPT ![j] = q]
  BY DEF JobLoads
<1> HIDE DEF q
<1>4. JobShape(q)
  BY <1>1, <1>2 DEF JobShape, WindowKept, Creates
<1>5. pc # "create:group"
  BY DEF Creates
<1>6. MovesAsCoded(jobs[j], q)
  BY <1>1, <1>4, <1>5 DEF MovesAsCoded, EndsRightly, CreatesAlone
<1> QED
  BY <1>3, <1>6 DEF JobMoves

LEMMA ArriveJobMoves ==
  ASSUME GroupTypeInv, NEW j \in Jobs, JobArrive(j)
  PROVE  JobMoves(j)
<1>0. group \in GroupRow
  BY RowsOfGroup
<1>1. ASSUME NEW w \in Windows, NEW s \in Rosters, CreateGroup(j, w, s)
      PROVE  JobMoves(j)
  <2> DEFINE row == [NoGroup EXCEPT !.exists = TRUE, !.start = w[1], !.deadline = w[2]]
             desired == IF s = {} THEN Students ELSE s
             q == [IdleJob EXCEPT !.pc = "create:group", !.desired = desired, !.assigned = row]
  <2>1. row \in GroupRow
    BY GroupAssumption, RowsOfGroup
  <2>2. ~ row.completed
    BY DEF NoGroup
  <2>3. desired \in SUBSET Students
    BY GroupAssumption
  <2>4. jobs' = [jobs EXCEPT ![j] = q]
    BY <1>1 DEF CreateGroup
  <2> HIDE DEF row, desired
  <2>5. q.pc = "create:group" /\ q.assigned = row /\ q.ids = {}
    BY DEF IdleJob
  <2>6. q \in Job
    BY <2>1, <2>3, IdleJobMoves DEF Job, JobPcs
  <2> HIDE DEF q
  <2>7. JobShape(q)
    BY <2>2, <2>5, <2>6 DEF JobShape, Creates
  <2>8. CreatesAlone(q)
    BY <1>1 DEF CreatesAlone, CreateGroup, JobAt
  <2>9. MovesAsCoded(jobs[j], q)
    BY <2>5, <2>7, <2>8 DEF MovesAsCoded, EndsRightly
  <2> QED
    BY <2>4, <2>9 DEF JobMoves
<1>2. ASSUME NEW start \in Time, NEW deadline \in Time, UnarchiveGroup(j, start, deadline)
      PROVE  JobMoves(j)
  <2> DEFINE row == [group EXCEPT !.archived = FALSE, !.completed = FALSE,
                                  !.start = start, !.deadline = deadline]
  <2>1. row \in GroupRow /\ row.start = start /\ row.deadline = deadline /\ ~ row.completed
    BY <1>0 DEF GroupRow
  <2>2. JobLoads(j, "save", row, {}) /\ start <= deadline
    BY <1>2 DEF UnarchiveGroup
  <2> HIDE DEF row
  <2>3. "save" \in JobPcs \ Creates
    BY DEF JobPcs, Creates
  <2> QED
    BY <2>1, <2>2, <2>3, LoadsJobMoves
<1>3. ASSUME NEW start \in Time, NEW deadline \in Time, NEW sent \in BOOLEAN,
             NEW s \in Rosters, EditGroup(j, start, deadline, sent, s)
      PROVE  JobMoves(j)
  <2> DEFINE row == [group EXCEPT !.start = start, !.deadline = deadline]
             pc == IF sent THEN "edit:roster" ELSE "edit:save"
             desired == IF sent THEN s ELSE {}
  <2>1. /\ row \in GroupRow /\ row.start = start /\ row.deadline = deadline
        /\ row.completed = group.completed
    BY <1>0 DEF GroupRow
  <2>2. JobLoads(j, pc, row, desired) /\ start <= deadline
    BY <1>3 DEF EditGroup
  <2>3. pc \in JobPcs \ Creates /\ desired \in SUBSET Students
    BY GroupAssumption DEF JobPcs, Creates
  <2> HIDE DEF row, pc, desired
  <2> QED
    BY <2>1, <2>2, <2>3, LoadsJobMoves
<1>4. ASSUME NEW archived \in BOOLEAN, ListGroups(j, archived)
      PROVE  JobMoves(j)
  <2> DEFINE row == [group EXCEPT !.archived = TRUE]
             q1 == [IdleJob EXCEPT !.pc = "list:archive", !.listed = archived,
                                   !.loaded = group, !.assigned = row]
             q2 == [IdleJob EXCEPT !.pc = "list:load", !.listed = archived]
  <2>1. /\ row \in GroupRow /\ row.completed = group.completed
        /\ row.start = group.start /\ row.deadline = group.deadline
    BY <1>0 DEF GroupRow
  <2>2. \/ jobs' = [jobs EXCEPT ![j] = q1]
        \/ jobs' = [jobs EXCEPT ![j] = q2]
    BY <1>4 DEF ListGroups
  <2> HIDE DEF row
  <2>3. /\ q1.pc = "list:archive" /\ q1.ids = {} /\ q1.loaded = group /\ q1.assigned = row
        /\ q2.pc = "list:load" /\ q2.ids = {} /\ q2.loaded = NoGroup /\ q2.assigned = NoGroup
    BY DEF IdleJob
  <2>4. q1 \in Job
    BY <1>0, <2>1, IdleJobMoves DEF Job, JobPcs
  <2>5. q2 \in Job
    BY IdleJobMoves DEF Job, JobPcs
  <2> HIDE DEF q1, q2
  <2>6. JobShape(q1) /\ JobShape(q2)
    BY <2>1, <2>3, <2>4, <2>5 DEF JobShape, Creates, WindowKept
  <2>7. MovesAsCoded(jobs[j], q1) /\ MovesAsCoded(jobs[j], q2)
    BY <2>3, <2>6 DEF MovesAsCoded, EndsRightly, CreatesAlone
  <2> QED
    BY <2>2, <2>7 DEF JobMoves
<1>5. CASE DeleteGroup(j) \/ GetDetails(j)
  <2>1. "delete:save" \in JobPcs \ Creates /\ "read:assignments" \in JobPcs \ Creates
    BY DEF JobPcs, Creates
  <2> QED
    BY <1>0, <1>5, <2>1, LoadsJobMoves DEF DeleteGroup, GetDetails
<1>6. CASE ArchiveGroup(j)
  <2> DEFINE row == [group EXCEPT !.archived = TRUE]
  <2>1. /\ row \in GroupRow /\ row.completed = group.completed
        /\ row.start = group.start /\ row.deadline = group.deadline
    BY <1>0 DEF GroupRow
  <2>2. JobLoads(j, "save", row, {})
    BY <1>6 DEF ArchiveGroup
  <2> HIDE DEF row
  <2>3. "save" \in JobPcs \ Creates
    BY DEF JobPcs, Creates
  <2> QED
    BY <2>1, <2>2, <2>3, LoadsJobMoves
<1> QED
  BY <1>1, <1>2, <1>3, <1>4, <1>5, <1>6 DEF JobArrive

LEMMA OwnersAreFinite ==
  ASSUME GroupTypeInv, NEW ids \in SUBSET AssignmentIds
  PROVE  /\ IsFiniteSet(ids) /\ Cardinality(ids) \in Nat
         /\ IsFiniteSet(OwnersOf(ids)) /\ Cardinality(OwnersOf(ids)) <= Cardinality(ids)
         /\ Cardinality(OwnersOf(ids)) \in Nat
<1>1. IsFiniteSet(ids) /\ Cardinality(ids) \in Nat
  BY TablesAssumption, FS_Subset, FS_CardinalityType
<1>2. IsFiniteSet(OwnersOf(ids)) /\ Cardinality(OwnersOf(ids)) <= Cardinality(ids)
  <2> DEFINE f == [a \in ids |-> owner[a]]
  <2>1. OwnersOf(ids) = {f[a] : a \in ids}
    BY DEF OwnersOf
  <2>2. f \in Surjection(ids, OwnersOf(ids))
    BY DEF Surjection, OwnersOf
  <2> HIDE DEF f
  <2> QED
    BY <1>1, <2>2, FS_Surjection
<1> QED
  BY <1>1, <1>2, FS_CardinalityType

(***************************************************************************)
(* A listing counts students: as many as there are assignments means that  *)
(* each of them has a submit row, however many it has.                     *)
(***************************************************************************)
LEMMA AllStudentsCounted ==
  ASSUME GroupTypeInv, NEW ids \in SUBSET AssignmentIds, AllStudentsSubmitted(ids)
  PROVE  AllSubmitted(ids)
<1> DEFINE had == {s.asg : s \in submits} \cap ids
<1>1. Cardinality(OwnersOf(had)) = Cardinality(ids)
  BY DEF AllStudentsSubmitted
<1>2. had \in SUBSET AssignmentIds /\ had \subseteq ids
  OBVIOUS
<1>3. \A a \in had : HasSubmit(a)
  BY DEF HasSubmit, SubmitsOf
<1> HIDE DEF had
<1>4. Cardinality(had) >= Cardinality(ids)
  BY <1>1, <1>2, OwnersAreFinite
<1>5. had = ids
  <2>1. /\ IsFiniteSet(ids) /\ Cardinality(ids) \in Nat /\ Cardinality(had) \in Nat
    BY <1>2, OwnersAreFinite
  <2> QED
    BY <1>2, <1>4, <2>1, FS_Subset
<1> QED
  BY <1>3, <1>5 DEF AllSubmitted

LEMMA ProceedJobMoves ==
  ASSUME GroupTypeInv, NEW j \in Jobs, JobProceed(j)
  PROVE  JobMoves(j)
<1> DEFINE old == jobs[j]
<1>0. old \in Job /\ JobShape(old)
  BY DEF GroupTypeInv
<1>1. ASSUME JobReturns(j) PROVE JobMoves(j)
  BY <1>1, ReturnJobMoves
<1>2. CASE CreateGroupSave(j)
  <2> DEFINE q == [old EXCEPT !.pc = "create:assignments"]
  <2>1. q \in Job /\ q.pc = "create:assignments" /\ q.ids = old.ids
    BY <1>0 DEF Job, JobPcs
  <2>2. jobs' = [jobs EXCEPT ![j] = q] /\ old.pc = "create:group"
    BY <1>2 DEF CreateGroupSave, JobAt
  <2> HIDE DEF q
  <2>3. JobShape(q)
    BY <1>0, <2>1, <2>2 DEF JobShape, Creates
  <2> QED
    BY <2>1, <2>2, <2>3 DEF JobMoves, MovesAsCoded, EndsRightly, CreatesAlone
<1>3. CASE EditReadRoster(j)
  <2> DEFINE q == [old EXCEPT !.pc = "edit:save", !.ids = assignments]
  <2>1. /\ q \in Job /\ q.pc = "edit:save" /\ q.ids = assignments
        /\ q.loaded = old.loaded /\ q.assigned = old.assigned
    BY <1>0 DEF Job, JobPcs, GroupTypeInv, TypeInv, TablesTypeOK
  <2>2. JobReturns(j) \/ jobs' = [jobs EXCEPT ![j] = q]
    BY <1>3 DEF EditReadRoster
  <2>3. old.pc = "edit:roster"
    BY <1>3 DEF EditReadRoster, JobAt
  <2> HIDE DEF q
  <2>4. JobShape(q)
    BY <1>0, <2>1, <2>3 DEF JobShape, Creates, WindowKept
  <2>5. MovesAsCoded(old, q)
    BY <2>1, <2>4 DEF MovesAsCoded, EndsRightly, CreatesAlone
  <2> QED
    BY <1>1, <2>2, <2>5 DEF JobMoves
<1>4. CASE ListArchiveSave(j)
  <2> DEFINE q == [old EXCEPT !.pc = "list:load", !.loaded = old.assigned]
  <2>1. /\ q \in Job /\ q.pc = "list:load" /\ q.ids = old.ids
        /\ q.loaded = old.assigned /\ q.assigned = old.assigned
    BY <1>0 DEF Job, JobPcs
  <2>2. JobReturns(j) \/ jobs' = [jobs EXCEPT ![j] = q]
    BY <1>4 DEF ListArchiveSave
  <2> HIDE DEF q
  <2>4. JobShape(q)
    BY <1>0, <2>1 DEF JobShape, Creates, WindowKept
  <2>5. MovesAsCoded(old, q)
    BY <2>1, <2>4 DEF MovesAsCoded, EndsRightly, CreatesAlone
  <2> QED
    BY <1>1, <2>2, <2>5 DEF JobMoves
<1>5. CASE ListLoad(j)
  <2> DEFINE row == IF old.loaded.exists THEN old.loaded ELSE group
             q == [old EXCEPT !.pc = "read:assignments", !.loaded = row, !.assigned = row]
  <2>0. row \in GroupRow
    BY <1>0, RowsOfGroup DEF Job
  <2>1. JobReturns(j) \/ jobs' = [jobs EXCEPT ![j] = q]
    BY <1>5 DEF ListLoad
  <2> HIDE DEF row
  <2>2. /\ q \in Job /\ q.pc = "read:assignments" /\ q.ids = old.ids
        /\ q.loaded = row /\ q.assigned = row
    BY <1>0, <2>0 DEF Job, JobPcs
  <2> HIDE DEF q
  <2>4. JobShape(q)
    BY <2>2 DEF JobShape, Creates, WindowKept
  <2>5. MovesAsCoded(old, q)
    BY <2>2, <2>4 DEF MovesAsCoded, EndsRightly, CreatesAlone
  <2> QED
    BY <1>1, <2>1, <2>5 DEF JobMoves
<1>6. CASE ReadAssignments(j)
  <2> DEFINE q == [old EXCEPT !.pc = "read:submits", !.ids = assignments]
  <2>1. /\ q \in Job /\ q.pc = "read:submits" /\ q.ids = assignments
        /\ q.loaded = old.loaded /\ q.assigned = old.assigned
    BY <1>0 DEF Job, JobPcs, GroupTypeInv, TypeInv, TablesTypeOK
  <2>2. jobs' = [jobs EXCEPT ![j] = q]
    BY <1>6 DEF ReadAssignments
  <2>3. old.pc = "read:assignments"
    BY <1>6 DEF ReadAssignments, JobAt
  <2> HIDE DEF q
  <2>4. JobShape(q)
    BY <1>0, <2>1, <2>3 DEF JobShape, Creates, WindowKept
  <2>5. MovesAsCoded(old, q)
    BY <2>1, <2>4 DEF MovesAsCoded, EndsRightly, CreatesAlone
  <2> QED
    BY <2>2, <2>5 DEF JobMoves
<1>7. CASE ReadSubmits(j)
  <2> DEFINE row == [old.assigned EXCEPT !.completed = TRUE]
             q == [old EXCEPT !.pc = "save", !.assigned = row]
  <2>1. old.assigned \in GroupRow /\ old.ids \in SUBSET AssignmentIds
    BY <1>0 DEF Job
  <2>2. /\ row \in GroupRow
        /\ row.start = old.assigned.start /\ row.deadline = old.assigned.deadline
    BY <2>1 DEF GroupRow
  <2>3. JobReturns(j) \/ (jobs' = [jobs EXCEPT ![j] = q] /\ AllStudentsSubmitted(old.ids))
    <3> DEFINE next == [jobs EXCEPT ![j].pc = "save", ![j].assigned.completed = TRUE]
    <3>1. \/ JobReturns(j)
          \/ jobs' = next /\ AllStudentsSubmitted(old.ids)
      BY <1>7 DEF ReadSubmits
    <3>2. next = [jobs EXCEPT ![j] = q]
      BY <1>0 DEF GroupTypeInv, Job
    <3> QED
      BY <3>1, <3>2
  <2>4. old.pc = "read:submits"
    BY <1>7 DEF ReadSubmits, JobAt
  <2> HIDE DEF row
  <2>5. q \in Job /\ q.pc = "save" /\ q.ids = old.ids /\ q.loaded = old.loaded /\ q.assigned = row
    BY <1>0, <2>2 DEF Job, JobPcs
  <2> HIDE DEF q
  <2>6. JobShape(q)
    BY <1>0, <2>2, <2>4, <2>5 DEF JobShape, Creates, WindowKept
  <2>7. AllStudentsSubmitted(old.ids) => MovesAsCoded(old, q)
    BY <2>1, <2>5, <2>6, AllStudentsCounted DEF MovesAsCoded, EndsRightly, CreatesAlone
  <2> QED
    BY <1>1, <2>3, <2>7 DEF JobMoves
<1> QED
  BY <1>1, <1>2, <1>3, <1>4, <1>5, <1>6, <1>7
     DEF JobProceed, CreateAssignmentsSave, EditSave, DeleteSave, SaveGroup

LEMMA StepJobMoves ==
  ASSUME GroupTypeInv, NEW j \in Jobs, JobStep(j)
  PROVE  JobMoves(j)
BY ArriveJobMoves, ProceedJobMoves, ReturnJobMoves DEF JobStep, JobFail

----------------------------------------------------------------------------
(***************************************************************************)
(* Tables.                                                                 *)
(***************************************************************************)
LEMMA SavedGroupIsRow ==
  ASSUME GroupTypeInv, NEW j \in Jobs
  PROVE  /\ SavedGroup(j) \in GroupRow
         /\ SavedGroup(j).exists = group.exists
         /\ SavedGroup(j).completed =>
              group.completed \/ (jobs[j].assigned.completed /\ ~ jobs[j].loaded.completed)
         /\ jobs[j].loaded = group /\ group.exists =>
              /\ SavedGroup(j).start = jobs[j].assigned.start
              /\ SavedGroup(j).deadline = jobs[j].assigned.deadline
<1>1. group \in GroupRow /\ jobs[j].loaded \in GroupRow /\ jobs[j].assigned \in GroupRow
  BY RowsOfGroup DEF GroupTypeInv, Job
<1> DEFINE loaded == jobs[j].loaded
           assigned == jobs[j].assigned
<1>2. CASE ~ group.exists
  <2>1. SavedGroup(j) = group
    BY <1>2 DEF SavedGroup
  <2> QED
    BY <1>1, <1>2, <2>1
<1>3. CASE group.exists
  <2> DEFINE start     == Write(group.start, loaded.start, assigned.start)
             deadline  == Write(group.deadline, loaded.deadline, assigned.deadline)
             completed == Write(group.completed, loaded.completed, assigned.completed)
             archived  == Write(group.archived, loaded.archived, assigned.archived)
  <2>1. SavedGroup(j) = [exists |-> TRUE, start |-> start, deadline |-> deadline,
                         completed |-> completed, archived |-> archived]
    BY <1>3 DEF SavedGroup
  <2>2. start \in Time /\ deadline \in Time /\ completed \in BOOLEAN /\ archived \in BOOLEAN
    BY <1>1 DEF Write, GroupRow
  <2>3. completed => group.completed \/ (assigned.completed /\ ~ loaded.completed)
    <3>1. assigned.completed \in BOOLEAN /\ loaded.completed \in BOOLEAN
      BY <1>1 DEF GroupRow
    <3>2. CASE assigned.completed = loaded.completed
      <4>1. completed = group.completed
        BY <3>2 DEF Write
      <4> QED
        BY <4>1
    <3>3. CASE assigned.completed # loaded.completed
      <4>1. completed = assigned.completed
        BY <3>3 DEF Write
      <4>2. assigned.completed => ~ loaded.completed
        BY <3>1, <3>3
      <4> QED
        BY <4>1, <4>2
    <3> QED
      BY <3>2, <3>3
  <2>4. loaded = group => start = assigned.start /\ deadline = assigned.deadline
    BY DEF Write
  <2> HIDE DEF start, deadline, completed, archived
  <2>5. SavedGroup(j) \in GroupRow
    BY <2>1, <2>2 DEF GroupRow
  <2>6. SavedGroup(j).exists = group.exists
    <3>1. group.exists = TRUE
      BY <1>1, <1>3 DEF GroupRow
    <3>2. SavedGroup(j).exists = TRUE
      BY <2>1
    <3> QED
      BY <3>1, <3>2
  <2>7. /\ SavedGroup(j).start = start /\ SavedGroup(j).deadline = deadline
        /\ SavedGroup(j).completed = completed
    BY <2>1
  <2> QED
    BY <2>3, <2>4, <2>5, <2>6, <2>7
<1> QED
  BY <1>2, <1>3

(***************************************************************************)
(* What a job may make of the tables: it leaves attempts and requests      *)
(* alone; the assignments it adds were never handed out; the submit rows   *)
(* of what it removes go, and no others.                                   *)
(***************************************************************************)
RosterMoves ==
  /\ JobFrame
  /\ assignments' \subseteq AssignmentIds
  /\ owner' \in [AssignmentIds -> Students \cup {NoStudent}]
  /\ \A a \in AssignmentIds : ~ Fresh(a) => owner'[a] = owner[a]
  /\ \A a \in assignments' : a \in assignments \/ Fresh(a)
  /\ \A a \in assignments' : owner'[a] # NoStudent
  /\ submits' = {s \in submits : s.asg \in assignments'}

LEMMA RosterStays ==
  ASSUME GroupTypeInv, Known(assignments), \A s \in submits : s.asg \in assignments,
         JobFrame, UNCHANGED << assignments, submits, owner >>
  PROVE  RosterMoves
BY DEF RosterMoves, GroupTypeInv, TypeInv, TablesTypeOK, Known, Fresh

\* The new assignments: one for every student that is added.
LEMMA NewAssignments ==
  ASSUME GroupTypeInv, NEW j \in Jobs, NEW gone, SaveRoster(j, gone)
  PROVE  \E new \in [Added(j) -> {a \in AssignmentIds : Fresh(a)}] :
            /\ assignments' = (assignments \ gone) \cup {new[s] : s \in Added(j)}
            /\ \A s \in Added(j) : owner'[new[s]] = s
            /\ \A a \in AssignmentIds : (\A s \in Added(j) : new[s] # a) => owner'[a] = owner[a]
<1>1. PICK new \in [Added(j) -> {a \in AssignmentIds : Fresh(a)}] :
         /\ \A s, t \in Added(j) : new[s] = new[t] => s = t
         /\ assignments' = (assignments \ gone) \cup {new[s] : s \in Added(j)}
         /\ owner' = [a \in AssignmentIds |->
                        IF \E s \in Added(j) : new[s] = a
                          THEN CHOOSE s \in Added(j) : new[s] = a
                          ELSE owner[a]]
  BY DEF SaveRoster
<1>2. ASSUME NEW s \in Added(j) PROVE owner'[new[s]] = s
  <2>1. new[s] \in AssignmentIds
    OBVIOUS
  <2>2. owner'[new[s]] = CHOOSE t \in Added(j) : new[t] = new[s]
    BY <1>1, <2>1
  <2>3. \A t \in Added(j) : new[t] = new[s] => t = s
    BY <1>1
  <2> QED
    BY <2>2, <2>3
<1>3. \A a \in AssignmentIds : (\A s \in Added(j) : new[s] # a) => owner'[a] = owner[a]
  BY <1>1
<1> QED
  BY <1>1, <1>2, <1>3

LEMMA SaveRosterMoves ==
  ASSUME GroupTypeInv, Known(assignments), \A s \in submits : s.asg \in assignments,
         NEW j \in Jobs, NEW gone, Known(gone), SaveRoster(j, gone), JobFrame
  PROVE  RosterMoves
<1>1. PICK new \in [Added(j) -> {a \in AssignmentIds : Fresh(a)}] :
            /\ assignments' = (assignments \ gone) \cup {new[s] : s \in Added(j)}
            /\ \A s \in Added(j) : owner'[new[s]] = s
            /\ \A a \in AssignmentIds : (\A s \in Added(j) : new[s] # a) => owner'[a] = owner[a]
  BY NewAssignments
<1>2. assignments \subseteq AssignmentIds /\ owner \in [AssignmentIds -> Students \cup {NoStudent}]
  BY DEF GroupTypeInv, TypeInv, TablesTypeOK
<1>3. Added(j) \subseteq Students /\ NoStudent \notin Added(j)
  BY GroupAssumption DEF Added, GroupTypeInv, Job
<1>4. \A s \in Added(j) : new[s] \in AssignmentIds /\ Fresh(new[s])
  OBVIOUS
<1>5. assignments' \subseteq AssignmentIds
  BY <1>1, <1>2, <1>4
<1>6. owner' \in [AssignmentIds -> Students \cup {NoStudent}]
  <2>1. DOMAIN owner' = AssignmentIds /\ owner' = [a \in AssignmentIds |-> owner'[a]]
    BY DEF SaveRoster
  <2>2. \A a \in AssignmentIds : owner'[a] \in Students \cup {NoStudent}
    <3> SUFFICES ASSUME NEW a \in AssignmentIds PROVE owner'[a] \in Students \cup {NoStudent}
      OBVIOUS
    <3>1. CASE \E s \in Added(j) : new[s] = a
      BY <1>1, <1>3, <3>1
    <3>2. CASE \A s \in Added(j) : new[s] # a
      BY <1>1, <1>2, <3>2
    <3> QED
      BY <3>1, <3>2
  <2> QED
    BY <2>1, <2>2
<1>7. \A a \in AssignmentIds : ~ Fresh(a) => owner'[a] = owner[a]
  BY <1>1, <1>4
<1>8. \A a \in assignments' : a \in assignments \/ Fresh(a)
  BY <1>1, <1>4
<1>9. \A a \in assignments' : owner'[a] # NoStudent
  <2>1. \A a \in assignments : owner'[a] # NoStudent
    BY <1>2, <1>7 DEF Known, Fresh
  <2>2. \A s \in Added(j) : owner'[new[s]] # NoStudent
    BY <1>1, <1>3
  <2> QED
    BY <1>1, <2>1, <2>2
<1>10. submits' = {s \in submits : s.asg \in assignments'}
  <2>1. submits' = {s \in submits : s.asg \notin gone}
    BY DEF SaveRoster
  <2>2. \A s \in submits : s.asg \notin gone <=> s.asg \in assignments'
    BY <1>1, <1>4 DEF Known
  <2> QED
    BY <2>1, <2>2
<1> QED
  BY <1>5, <1>6, <1>7, <1>8, <1>9, <1>10 DEF RosterMoves

LEMMA StepRosterMoves ==
  ASSUME GroupTypeInv, Known(assignments), \A s \in submits : s.asg \in assignments,
         NEW j \in Jobs, Known(jobs[j].ids), JobStep(j)
  PROVE  RosterMoves
<1>1. CASE CreateAssignmentsSave(j)
  <2>1. Known({})
    BY DEF Known
  <2> QED
    BY <1>1, <2>1, RosterStays, SaveRosterMoves DEF CreateAssignmentsSave
<1>2. CASE EditSave(j)
  <2>1. Known(Removed(j))
    BY DEF Known, Removed
  <2> QED
    BY <1>2, <2>1, RosterStays, SaveRosterMoves DEF EditSave
<1>3. CASE DeleteSave(j)
  BY <1>3 DEF DeleteSave, RosterMoves, GroupTypeInv
<1>4. CASE JobArrive(j) \/ JobFail(j)
  BY <1>4, RosterStays
     DEF JobArrive, JobFail, CreateGroup, UnarchiveGroup, EditGroup, ListGroups, DeleteGroup,
         ArchiveGroup, GetDetails, Unsaved
<1>5. CASE \/ CreateGroupSave(j) \/ EditReadRoster(j) \/ SaveGroup(j) \/ ListArchiveSave(j)
           \/ ListLoad(j) \/ ReadAssignments(j) \/ ReadSubmits(j)
  BY <1>5, RosterStays
     DEF CreateGroupSave, EditReadRoster, SaveGroup, ListArchiveSave, ListLoad,
         ReadAssignments, ReadSubmits, Unsaved
<1> QED
  BY <1>1, <1>2, <1>3, <1>4, <1>5 DEF JobStep, JobProceed

----------------------------------------------------------------------------
(***************************************************************************)
(* The invariant.                                                          *)
(***************************************************************************)

(***************************************************************************)
(* Whatever the tables and the handlers refer to was handed out once, so   *)
(* that a new assignment starts with nothing; and a submit row belongs to  *)
(* the assignment of its attempt.                                          *)
(***************************************************************************)
RowsInv ==
  /\ IsFiniteSet(submits)
  /\ Known(assignments)
  /\ \A k \in AttemptIds : ~ Fresh(attempts[k].asg)
  /\ \A s \in submits :
        /\ s.asg \in assignments
        /\ s.att # 0 => s.att \in AttemptIds /\ attempts[s.att].asg = s.asg
  /\ SubmitsMatchAttempts

\* A count of submit rows stays reached as long as its assignments are there.
RequestRight(q) ==
  /\ q.asg # 0 => ~ Fresh(q.asg)
  /\ q.pc \in MaySubmit /\ q.att # 0 => attempts[q.att].asg = q.asg
  /\ q.pc \in {"submit:count", "submit:complete"} => Known(q.ids)
  /\ q.pc = "submit:complete" /\ q.ids \subseteq assignments => EveryoneSubmitted(q.ids)

RequestsInv == \A r \in Requests : RequestRight(reqs[r])

JobRight(j) ==
  /\ Known(jobs[j].ids)
  /\ jobs[j].ids \subseteq assignments => EndsRightly(jobs[j])
  /\ jobs[j].pc = "create:group" =>
        ~ group.exists /\ \A i \in Jobs \ {j} : jobs[i].pc # "create:group"

JobsInv == \A j \in Jobs : JobRight(j)

GroupInv == GroupTypeInv /\ RowsInv /\ RequestsInv /\ JobsInv

LEMMA InitGroupInv == GroupInit => GroupInv
<1> SUFFICES ASSUME GroupInit PROVE GroupInv
  OBVIOUS
<1>1. TypeInv
  <2>1. /\ assignments = {} /\ attempts = << >> /\ submits = {} /\ group = NoGroup /\ now = 0
        /\ reqs = [r \in Requests |-> Idle]
    BY DEF GroupInit
  <2>2. Len(attempts) = 0 /\ attempts \in Seq(AttemptRow)
    BY <2>1
  <2>3. TablesTypeOK
    <3>1. group \in GroupRow
      BY <2>1, RowsOfGroup
    <3>2. now \in Time
      BY <2>1, TablesAssumption DEF Time
    <3> QED
      BY <2>1, <2>2, <3>1, <3>2 DEF TablesTypeOK
  <2>4. HandlerOK(Idle, 0) /\ Idle \in Request
    BY IdleOK DEF HandlerOK
  <2> QED
    BY <2>1, <2>2, <2>3, <2>4 DEF TypeInv, HandlersOK
<1>2. GroupTypeInv
  BY <1>1, IdleJobMoves DEF GroupInit, GroupTypeInv
<1>3. RowsInv
  BY FS_EmptySet DEF GroupInit, RowsInv, Known, AttemptIds, SubmitsMatchAttempts
<1>4. RequestsInv
  BY DEF GroupInit, RequestsInv, RequestRight, Idle, MaySubmit
<1>5. JobsInv
  BY IdleJobMoves DEF GroupInit, JobsInv, JobRight, Known, EndsRightly
<1> QED
  BY <1>2, <1>3, <1>4, <1>5 DEF GroupInv

----------------------------------------------------------------------------
(***************************************************************************)
(* The steps of jobs.                                                      *)
(***************************************************************************)

\* What was handed out stays so, and an assignment that is gone stays gone.
LEMMA KnownStays ==
  ASSUME RosterMoves, NEW ids \in SUBSET AssignmentIds, Known(ids)
  PROVE  /\ Known(ids)'
         /\ ids \subseteq assignments' =>
              /\ ids \subseteq assignments
              /\ {s \in submits' : s.asg \in ids} = {s \in submits : s.asg \in ids}
              /\ AllSubmitted(ids) => AllSubmitted(ids)'
              /\ EveryoneSubmitted(ids) => EveryoneSubmitted(ids)'
<1>1. Known(ids)'
  BY DEF RosterMoves, Known, Fresh
<1> SUFFICES ASSUME ids \subseteq assignments'
             PROVE  /\ ids \subseteq assignments
                    /\ {s \in submits' : s.asg \in ids} = {s \in submits : s.asg \in ids}
                    /\ AllSubmitted(ids) => AllSubmitted(ids)'
                    /\ EveryoneSubmitted(ids) => EveryoneSubmitted(ids)'
  BY <1>1
<1>2. ids \subseteq assignments
  BY DEF RosterMoves, Known
<1>3. {s \in submits' : s.asg \in ids} = {s \in submits : s.asg \in ids}
  BY DEF RosterMoves
<1>4. AllSubmitted(ids) => AllSubmitted(ids)'
  BY <1>3 DEF AllSubmitted, HasSubmit, SubmitsOf
<1>5. EveryoneSubmitted(ids) => EveryoneSubmitted(ids)'
  BY <1>3 DEF EveryoneSubmitted, CountSubmits
<1> QED
  BY <1>2, <1>3, <1>4, <1>5

LEMMA StepRows ==
  ASSUME GroupInv, RosterMoves
  PROVE  RowsInv'
<1>0. attempts' = attempts /\ AttemptIds' = AttemptIds
  BY DEF RosterMoves, JobFrame, AttemptIds
<1>1. submits' \subseteq submits /\ IsFiniteSet(submits')
  BY FS_Subset DEF RosterMoves, GroupInv, RowsInv
<1>2. Known(assignments)'
  BY DEF RosterMoves, Known, Fresh
<1>3. \A k \in AttemptIds : attempts[k].asg \in AssignmentIds /\ ~ Fresh(attempts[k].asg)
  BY AttemptsAreRows DEF GroupInv, GroupTypeInv, TypeInv, RowsInv
<1>4. \A k \in AttemptIds : ~ Fresh(attempts[k].asg)'
  BY <1>0, <1>3 DEF RosterMoves, Fresh
<1>5. \A s \in submits' :
        /\ s.asg \in assignments'
        /\ s.att # 0 => s.att \in AttemptIds /\ attempts[s.att].asg = s.asg
  BY <1>1 DEF RosterMoves, GroupInv, RowsInv
<1>6. SubmitsMatchAttempts'
  <2>1. ASSUME NEW k \in AttemptIds, attempts[k].asg \in assignments'
        PROVE  (\E s \in submits' : s.att = k) <=> (\E s \in submits : s.att = k)
    <3>1. k # 0
      BY AttemptsAreRows DEF GroupInv, GroupTypeInv, TypeInv
    <3>2. \A s \in submits : s.att = k => s.asg \in assignments'
      BY <2>1, <3>1 DEF GroupInv, RowsInv
    <3> QED
      BY <1>1, <3>2 DEF RosterMoves
  <2>2. \A k \in AttemptIds : attempts[k].asg \in assignments' => attempts[k].asg \in assignments
    BY <1>3 DEF RosterMoves
  <2>3. \A k \in AttemptIds : attempts[k].asg \in assignments =>
           (attempts[k].submitted <=> \E s \in submits : s.att = k)
    BY DEF GroupInv, RowsInv, SubmitsMatchAttempts
  <2>4. \A k \in AttemptIds : attempts[k].asg \in assignments' =>
           (attempts[k].submitted <=> \E s \in submits' : s.att = k)
    BY <2>1, <2>2, <2>3
  <2> QED
    BY <1>0, <1>5, <2>4 DEF SubmitsMatchAttempts
<1> QED
  BY <1>0, <1>1, <1>2, <1>4, <1>5, <1>6 DEF RowsInv

LEMMA StepRequests ==
  ASSUME GroupInv, RosterMoves
  PROVE  RequestsInv'
<1>0. attempts' = attempts /\ reqs' = reqs
  BY DEF RosterMoves, JobFrame
<1> SUFFICES ASSUME NEW r \in Requests PROVE RequestRight(reqs[r])'
  BY DEF RequestsInv
<1>1. reqs[r] \in Request /\ RequestRight(reqs[r])
  BY DEF GroupInv, GroupTypeInv, TypeInv, HandlersOK, RequestsInv
<1>2. reqs[r].asg \in AssignmentIds \cup {0} /\ reqs[r].ids \in SUBSET AssignmentIds
  BY <1>1 DEF Request
<1>3. reqs[r].asg # 0 => ~ Fresh(reqs[r].asg)'
  BY <1>0, <1>1, <1>2 DEF RosterMoves, Fresh, RequestRight
<1>4. \A ids \in SUBSET AssignmentIds : Known(ids) =>
         /\ Known(ids)'
         /\ ids \subseteq assignments' =>
              ids \subseteq assignments /\ (EveryoneSubmitted(ids) => EveryoneSubmitted(ids)')
  BY KnownStays
<1>5. \A ids \in SUBSET AssignmentIds :
         ids = reqs[r].ids /\ Known(ids) =>
           /\ Known(reqs[r].ids)'
           /\ EveryoneSubmitted(ids)' => EveryoneSubmitted(reqs[r].ids)'
  BY <1>0, <1>4 DEF Known, EveryoneSubmitted, CountSubmits, Fresh
<1> QED
  BY <1>0, <1>1, <1>2, <1>3, <1>4, <1>5 DEF RequestRight

\* The saves of jobs keep the type of the group row; only a creation makes one.
LEMMA StepGroup ==
  ASSUME GroupTypeInv, NEW j \in Jobs, JobStep(j)
  PROVE  /\ group' \in GroupRow
         /\ group'.exists => group.exists \/ JobAt(j, "create:group")
<1>1. group \in GroupRow /\ jobs[j].assigned \in GroupRow
  BY RowsOfGroup DEF GroupTypeInv, Job
<1>2. /\ SavedGroup(j) \in GroupRow /\ SavedGroup(j).exists = group.exists
  BY SavedGroupIsRow
<1>3. CASE CreateGroupSave(j)
  BY <1>1, <1>3 DEF CreateGroupSave
<1>4. CASE EditSave(j) \/ SaveGroup(j) \/ ListArchiveSave(j)
  <2>1. group' = group \/ group' = SavedGroup(j)
    BY <1>4 DEF EditSave, SaveGroup, ListArchiveSave
  <2> QED
    BY <1>1, <1>2, <2>1
<1>5. CASE DeleteSave(j)
  BY <1>5, RowsOfGroup DEF DeleteSave, NoGroup
<1>6. CASE JobArrive(j) \/ JobFail(j)
  <2>1. group' = group
    BY <1>6 DEF JobArrive, JobFail, CreateGroup, UnarchiveGroup, EditGroup, ListGroups,
                DeleteGroup, ArchiveGroup, GetDetails, Unsaved
  <2> QED
    BY <1>1, <2>1
<1>7. CASE \/ CreateAssignmentsSave(j) \/ EditReadRoster(j) \/ ListLoad(j)
           \/ ReadAssignments(j) \/ ReadSubmits(j)
  <2>1. group' = group
    BY <1>7 DEF CreateAssignmentsSave, EditReadRoster, ListLoad, ReadAssignments,
                ReadSubmits, Unsaved
  <2> QED
    BY <1>1, <2>1
<1> QED
  BY <1>3, <1>4, <1>5, <1>6, <1>7 DEF JobStep, JobProceed

LEMMA StepTypes ==
  ASSUME GroupInv, NEW j \in Jobs, JobStep(j)
  PROVE  GroupTypeInv' /\ RosterMoves
<1>1. RosterMoves
  BY StepRosterMoves DEF GroupInv, RowsInv, JobsInv, JobRight
<1>2. TypeInv'
  <2>1. TablesTypeOK'
    BY <1>1, StepGroup DEF RosterMoves, JobFrame, GroupInv, GroupTypeInv, TypeInv, TablesTypeOK
  <2> QED
    BY <1>1, <2>1 DEF RosterMoves, JobFrame, GroupInv, GroupTypeInv, TypeInv
<1>3. PICK q : jobs' = [jobs EXCEPT ![j] = q] /\ JobShape(q)
  BY StepJobMoves DEF GroupInv, JobMoves, MovesAsCoded
<1>4. q \in Job
  BY <1>3 DEF JobShape
<1>5. jobs' \in [Jobs -> Job] /\ \A i \in Jobs : JobShape(jobs'[i])
  BY <1>3, <1>4 DEF GroupInv, GroupTypeInv
<1>6. owner' \in [AssignmentIds -> Students \cup {NoStudent}]
  BY <1>1 DEF RosterMoves
<1> QED
  BY <1>1, <1>2, <1>5, <1>6 DEF GroupTypeInv

LEMMA StepJobs ==
  ASSUME GroupInv, NEW j \in Jobs, JobStep(j)
  PROVE  JobsInv'
<1>1. RosterMoves /\ GroupTypeInv'
  BY StepTypes
<1>2. PICK q : jobs' = [jobs EXCEPT ![j] = q] /\ MovesAsCoded(jobs[j], q)
  BY StepJobMoves DEF GroupInv, JobMoves
<1>3. jobs'[j] = q /\ \A i \in Jobs : i # j => jobs'[i] = jobs[i]
  BY <1>2 DEF GroupInv, GroupTypeInv
<1>4. q \in Job /\ q.ids \in SUBSET AssignmentIds /\ jobs[j].ids \in SUBSET AssignmentIds
  BY <1>2 DEF MovesAsCoded, JobShape, Job, GroupInv, GroupTypeInv
<1>5. Known(q.ids)
  BY <1>2 DEF MovesAsCoded, GroupInv, RowsInv, JobsInv, JobRight, Known
<1>6. \A ids \in SUBSET AssignmentIds : Known(ids) =>
         /\ \A a \in ids : owner'[a] # NoStudent
         /\ ids \subseteq assignments' =>
              ids \subseteq assignments /\ (AllSubmitted(ids) => AllSubmitted(ids)')
  BY <1>1, KnownStays DEF Known, Fresh
<1>7. ASSUME NEW i \in Jobs, i # j PROVE JobRight(i)'
  <2>1. jobs[i].ids \in SUBSET AssignmentIds /\ JobRight(i) /\ jobs'[i] = jobs[i]
    BY <1>3, <1>7 DEF GroupInv, GroupTypeInv, Job, JobsInv
  <2>2. Known(jobs[i].ids)'
    BY <1>6, <2>1 DEF JobRight, Known, Fresh
  <2>3. jobs[i].ids \subseteq assignments' => EndsRightly(jobs[i])'
    <3>1. ASSUME jobs[i].ids \subseteq assignments', EndsRightly(jobs[i])
          PROVE  EndsRightly(jobs[i])'
      <4>1. AllSubmitted(jobs[i].ids) => \A a \in jobs[i].ids : HasSubmit(a)'
        BY <1>6, <2>1, <3>1 DEF JobRight, AllSubmitted
      <4> QED
        BY <2>1, <3>1, <4>1 DEF EndsRightly, AllSubmitted
    <3>2. jobs[i].ids \subseteq assignments' => EndsRightly(jobs[i])
      BY <1>6, <2>1 DEF JobRight
    <3> QED
      BY <3>1, <3>2
  <2>4. jobs[i].pc = "create:group" =>
          ~ group'.exists /\ \A k \in Jobs \ {i} : jobs'[k].pc # "create:group"
    <3> SUFFICES ASSUME jobs[i].pc = "create:group"
                 PROVE  ~ group'.exists /\ \A k \in Jobs \ {i} : jobs'[k].pc # "create:group"
      OBVIOUS
    <3>1. ~ group.exists /\ \A k \in Jobs \ {i} : jobs[k].pc # "create:group"
      BY <2>1 DEF JobRight
    <3>2. ~ group'.exists
      BY <1>7, <3>1, StepGroup DEF JobAt, GroupInv
    <3>3. q.pc # "create:group"
      BY <1>2 DEF MovesAsCoded, CreatesAlone
    <3> QED
      BY <1>3, <3>1, <3>2, <3>3
  <2> QED
    BY <2>1, <2>2, <2>3, <2>4 DEF JobRight
<1>8. JobRight(j)'
  <2>1. Known(q.ids)'
    BY <1>4, <1>5, <1>6 DEF Known, Fresh
  <2>2. q.ids \subseteq assignments' => EndsRightly(q)'
    <3>1. q.ids \subseteq assignments' /\ AllSubmitted(q.ids) => \A a \in q.ids : HasSubmit(a)'
      BY <1>4, <1>5, <1>6 DEF AllSubmitted
    <3> QED
      BY <1>2, <3>1 DEF MovesAsCoded, EndsRightly, AllSubmitted
  <2>3. q.pc = "create:group" =>
          ~ group'.exists /\ \A k \in Jobs \ {j} : jobs'[k].pc # "create:group"
    <3>1. ASSUME q.pc = "create:group"
          PROVE  ~ group.exists /\ \A i \in Jobs : jobs[i].pc = "idle"
      BY <1>2, <3>1 DEF MovesAsCoded, CreatesAlone
    <3>2. q.pc = "create:group" => ~ group'.exists
      BY <3>1, StepGroup DEF JobAt, GroupInv
    <3> QED
      BY <1>3, <3>1, <3>2
  <2> QED
    BY <1>3, <2>1, <2>2, <2>3 DEF JobRight
<1> QED
  BY <1>7, <1>8 DEF JobsInv

LEMMA StepGroupInv ==
  ASSUME GroupInv, NEW j \in Jobs, JobStep(j)
  PROVE  GroupInv'
BY StepTypes, StepRows, StepRequests, StepJobs DEF GroupInv

----------------------------------------------------------------------------
(***************************************************************************)
(* The steps of requests.                                                  *)
(***************************************************************************)
RequestStep == [Next]_vars /\ UNCHANGED << owner, jobs >>

LEMMA RequestsKeepGroup ==
  ASSUME GroupInv, RequestStep
  PROVE  assignments' = assignments /\ group' \in GroupRow /\ group'.exists = group.exists
<1>1. group \in GroupRow
  BY RowsOfGroup DEF GroupInv
<1>2. ASSUME NEW r \in Requests, SubmitComplete(r)
      PROVE  group' \in GroupRow /\ group'.exists = group.exists
  BY <1>1, <1>2 DEF SubmitComplete, GroupRow
<1> QED
  BY <1>1, <1>2, GroupSteps DEF RequestStep

LEMMA InsertRows ==
  ASSUME GroupInv, NEW r \in Requests, InsertAttempt(r), assignments' = assignments, owner' = owner
  PROVE  RowsInv'
<1> DEFINE new == NewAttempt(reqs[r].asg, reqs[r].stamp)
           n   == Len(attempts)
<1>0. TypeInv /\ RowsInv
  BY DEF GroupInv, GroupTypeInv
<1>1. n \in Nat /\ AttemptIds = 1..n /\ attempts \in Seq(AttemptRow)
  BY <1>0, AttemptsAreRows DEF TypeInv, TablesTypeOK
<1>2. submits' = submits /\ attempts' = Append(attempts, new)
  BY DEF InsertAttempt
<1>3. new.submitted = FALSE /\ new.asg = reqs[r].asg
  BY DEF NewAttempt
<1>4. reqs[r].asg \in AssignmentIds /\ reqs[r].asg # 0 /\ ~ Fresh(reqs[r].asg)
  BY <1>0, TablesAssumption
     DEF InsertAttempt, At, TypeInv, HandlersOK, HandlerOK, GroupInv, RequestsInv, RequestRight
<1> HIDE DEF new
<1>5. /\ Len(attempts') = n + 1 /\ DOMAIN attempts' = 1..(n + 1)
      /\ attempts'[n + 1] = new
      /\ \A k \in 1..n : attempts'[k] = attempts[k]
  BY <1>1, <1>2
<1>6. \A k \in 1..(n + 1) : k \in 1..n \/ k = n + 1
  BY <1>1
<1>7. \A s \in submits : /\ s.asg \in assignments
                         /\ s.att # 0 => s.att \in 1..n /\ attempts[s.att].asg = s.asg
  BY <1>0, <1>1 DEF RowsInv
<1>8. \A s \in submits : s.att # n + 1
  BY <1>1, <1>7
<1>9. IsFiniteSet(submits') /\ Known(assignments)'
  BY <1>0, <1>2 DEF RowsInv, Known, Fresh
<1>10. \A k \in 1..(n + 1) : ~ Fresh(attempts[k].asg)'
  BY <1>0, <1>1, <1>3, <1>4, <1>5, <1>6 DEF RowsInv, Fresh
<1>11. \A s \in submits : /\ s.asg \in assignments
                          /\ s.att # 0 => s.att \in 1..(n + 1) /\ attempts'[s.att].asg = s.asg
  BY <1>1, <1>5, <1>7
<1>12. \A k \in 1..(n + 1) : attempts'[k].asg \in assignments =>
          (attempts'[k].submitted <=> \E s \in submits : s.att = k)
  BY <1>0, <1>1, <1>3, <1>5, <1>6, <1>8 DEF RowsInv, SubmitsMatchAttempts
<1> QED
  BY <1>2, <1>5, <1>7, <1>9, <1>10, <1>11, <1>12 DEF RowsInv, SubmitsMatchAttempts, AttemptIds

LEMMA SubmitSaveRows ==
  ASSUME GroupInv, NEW r \in Requests, SubmitSave(r), owner' = owner, TypeInv', IsFiniteSet(submits')
  PROVE  RowsInv'
<1> DEFINE k == reqs[r].att
           b == reqs[r].asg
           n == Len(attempts)
<1>0. TypeInv /\ RowsInv /\ assignments' = assignments /\ b \in assignments
  BY DEF GroupInv, GroupTypeInv, SubmitSave
<1>1. n \in Nat /\ AttemptIds = 1..n /\ attempts \in Seq(AttemptRow) /\ k \in 0..n
  BY <1>0, AttemptsAreRows DEF TypeInv, TablesTypeOK, HandlersOK, HandlerOK
<1>2. k # 0 => attempts[k].asg = b
  BY DEF GroupInv, RequestsInv, RequestRight, SubmitSave, At, MaySubmit
<1>3. PICK s : submits' = submits \cup {s} /\ s.att = k /\ s.asg = b
  <2>1. PICK i : submits' = submits \cup {[id |-> i, asg |-> b, att |-> k]}
    BY DEF SubmitSave
  <2> DEFINE s == [id |-> i, asg |-> b, att |-> k]
  <2>2. s.att = k /\ s.asg = b
    OBVIOUS
  <2> HIDE DEF s
  <2>3. submits' = submits \cup {s}
    BY <2>1 DEF s
  <2> WITNESS s
  <2> QED
    BY <2>2, <2>3
<1>4. /\ DOMAIN attempts' = 1..n
      /\ \A j \in 1..n : attempts'[j].asg = attempts[j].asg
      /\ \A j \in 1..n : j # k => attempts'[j] = attempts[j]
      /\ k # 0 => attempts'[k].submitted
  <2>1. CASE k = 0
    <3>1. attempts' = attempts
      BY <2>1 DEF SubmitSave
    <3> QED
      BY <1>1, <2>1, <3>1
  <2>2. CASE k # 0
    <3> DEFINE row == SubmittedRow(attempts[k], reqs[r].row, reqs[r].draft)
    <3>1. attempts' = [attempts EXCEPT ![k] = row]
      BY <2>2 DEF SubmitSave
    <3>2. row.submitted = TRUE /\ row.asg = attempts[k].asg
      BY <1>0, <1>1, <2>2, AttemptsAreRows DEF SubmittedRow, AttemptRow, TypeInv
    <3> HIDE DEF row
    <3>3. DOMAIN attempts' = 1..n
      BY <1>1, <3>1
    <3>4. \A j \in 1..n : attempts'[j] = IF j = k THEN row ELSE attempts[j]
      BY <1>1, <3>1
    <3>5. k \in 1..n
      BY <1>1, <2>2
    <3> QED
      BY <3>2, <3>3, <3>4, <3>5
  <2> QED
    BY <2>1, <2>2
<1> HIDE DEF k, b
<1>5. \A t \in submits : /\ t.asg \in assignments
                         /\ t.att # 0 => t.att \in 1..n /\ attempts[t.att].asg = t.asg
  BY <1>0, <1>1 DEF RowsInv
<1>6. \A t \in submits' : /\ t.asg \in assignments
                          /\ t.att # 0 => t.att \in 1..n /\ attempts'[t.att].asg = t.asg
  <2>1. k # 0 => k \in 1..n
    BY <1>1
  <2> QED
    BY <1>0, <1>2, <1>3, <1>4, <1>5, <2>1
<1>7. \A j \in 1..n : attempts'[j].asg \in assignments =>
          (attempts'[j].submitted <=> \E t \in submits' : t.att = j)
  <2> SUFFICES ASSUME NEW j \in 1..n, attempts'[j].asg \in assignments
               PROVE  attempts'[j].submitted <=> \E t \in submits' : t.att = j
    OBVIOUS
  <2>1. CASE j = k
    <3>1. j # 0
      BY <1>1
    <3> QED
      BY <1>3, <1>4, <2>1, <3>1
  <2>2. CASE j # k
    <3>1. attempts'[j] = attempts[j] /\ attempts[j].asg \in assignments
      BY <1>4, <2>2
    <3>2. attempts[j].submitted <=> \E t \in submits : t.att = j
      BY <1>0, <1>1, <3>1 DEF RowsInv, SubmitsMatchAttempts
    <3>3. (\E t \in submits' : t.att = j) <=> (\E t \in submits : t.att = j)
      BY <1>3, <2>2
    <3> QED
      BY <3>1, <3>2, <3>3
  <2> QED
    BY <2>1, <2>2
<1>8. \A j \in 1..n : ~ Fresh(attempts[j].asg)'
  BY <1>0, <1>1, <1>4 DEF RowsInv, Fresh
<1>9. Known(assignments)'
  BY <1>0 DEF RowsInv, Known, Fresh
<1> QED
  BY <1>0, <1>4, <1>6, <1>7, <1>8, <1>9 DEF RowsInv, SubmitsMatchAttempts, AttemptIds

LEMMA RequestRows ==
  ASSUME GroupInv, RequestStep
  PROVE  RowsInv'
<1>0. TypeInv /\ RowsInv /\ TypeInv' /\ [Next]_vars
  BY NextTypeInv DEF GroupInv, GroupTypeInv, RequestStep
<1>1. assignments' = assignments /\ owner' = owner /\ IsFiniteSet(submits')
  BY <1>0, RequestsKeepGroup, SubmitsStayFinite DEF RequestStep, RowsInv
<1>2. CASE UNCHANGED << attempts, submits >>
  BY <1>0, <1>1, <1>2 DEF RowsInv, Known, Fresh, SubmitsMatchAttempts, AttemptIds
<1>3. ASSUME NEW r \in Requests, RowSave(r)
      PROVE  RowsInv'
  <2>1. /\ submits' = submits /\ AttemptIds' = AttemptIds
        /\ \A k \in AttemptIds : /\ attempts'[k].asg = attempts[k].asg
                                 /\ attempts'[k].submitted = attempts[k].submitted
    <3>1. AttemptIds = 1..Len(attempts) /\ AttemptIds' = 1..Len(attempts)'
      BY <1>0 DEF TypeInv, TablesTypeOK, AttemptIds
    <3> QED
      BY <1>0, <1>3, <3>1, RowSaveKeepsMark
  <2>2. /\ \A k \in AttemptIds : ~ Fresh(attempts[k].asg)'
        /\ Known(assignments)'
    BY <1>0, <1>1, <2>1 DEF RowsInv, Known, Fresh
  <2>3. \A k \in AttemptIds :
           attempts'[k].asg \in assignments =>
             (attempts'[k].submitted <=> \E s \in submits : s.att = k)
    BY <1>0, <2>1 DEF RowsInv, SubmitsMatchAttempts
  <2>4. \A s \in submits :
          /\ s.asg \in assignments
          /\ s.att # 0 => s.att \in AttemptIds /\ attempts'[s.att].asg = s.asg
    BY <1>0, <2>1 DEF RowsInv
  <2> QED
    BY <1>1, <2>1, <2>2, <2>3, <2>4 DEF RowsInv, SubmitsMatchAttempts
<1> QED
  BY <1>0, <1>1, <1>2, <1>3, InsertRows, SubmitSaveRows, StepKinds

LEMMA RequestRequests ==
  ASSUME GroupInv, RequestStep
  PROVE  RequestsInv'
<1>0. TypeInv /\ RowsInv /\ RequestsInv /\ [Next]_vars
  BY DEF GroupInv, GroupTypeInv, RequestStep
<1>1. assignments' = assignments /\ owner' = owner
  BY RequestsKeepGroup DEF RequestStep
<1>2. /\ AttemptIds \subseteq AttemptIds'
      /\ \A k \in AttemptIds : attempts'[k].asg = attempts[k].asg
  BY <1>0, TablesGrow
<1>3. ASSUME NEW ids \in SUBSET AssignmentIds, EveryoneSubmitted(ids)
      PROVE  ids # {} /\ Cardinality({s \in submits' : s.asg \in ids}) >= Cardinality(ids)
  <2>1. IsFiniteSet(ids) /\ IsFiniteSet(submits)
    BY <1>0, TablesAssumption, FS_Subset DEF RowsInv
  <2>2. EveryoneSubmitted(ids)'
    BY <1>0, <1>3, <2>1, EveryoneStaysCounted
  <2> QED
    BY <2>2 DEF EveryoneSubmitted, CountSubmits
<1> SUFFICES ASSUME NEW p \in Requests PROVE RequestRight(reqs[p])'
  BY DEF RequestsInv
<1>4. reqs[p] \in Request /\ RequestRight(reqs[p]) /\ reqs[p].att \in {0} \cup AttemptIds
  BY <1>0, AttemptsAreRows DEF TypeInv, HandlersOK, HandlerOK, RequestsInv
<1>5. \A q : q.ids \in SUBSET AssignmentIds /\ EveryoneSubmitted(q.ids) =>
         q.ids # {} /\ Cardinality({s \in submits' : s.asg \in q.ids}) >= Cardinality(q.ids)
  BY <1>3
<1>6. reqs[p].ids \in SUBSET AssignmentIds
  BY <1>4 DEF Request
<1>7. CASE reqs'[p] = reqs[p]
  <2>1. reqs[p].asg # 0 => owner'[reqs[p].asg] # NoStudent
    BY <1>1, <1>4 DEF RequestRight, Fresh
  <2>2. reqs[p].pc \in MaySubmit /\ reqs[p].att # 0 => attempts'[reqs[p].att].asg = reqs[p].asg
    BY <1>2, <1>4 DEF RequestRight
  <2>3. reqs[p].pc \in {"submit:count", "submit:complete"} =>
          \A a \in reqs[p].ids : owner'[a] # NoStudent
    BY <1>1, <1>4 DEF RequestRight, Known, Fresh
  <2>4. reqs[p].pc = "submit:complete" /\ reqs[p].ids \subseteq assignments =>
          /\ reqs[p].ids # {}
          /\ Cardinality({s \in submits' : s.asg \in reqs[p].ids}) >= Cardinality(reqs[p].ids)
    BY <1>4, <1>5, <1>6 DEF RequestRight
  <2> QED
    BY <1>1, <1>7, <2>1, <2>2, <2>3, <2>4
       DEF RequestRight, Fresh, Known, EveryoneSubmitted, CountSubmits
<1>8. CASE RefersRightly(reqs[p], reqs'[p])
  <2> DEFINE q == reqs'[p]
  <2>0. RefersRightly(reqs[p], q)
    BY <1>8
  <2>1. q.asg # 0 => owner'[q.asg] # NoStudent
    BY <1>0, <1>1, <1>4, <2>0
       DEF RefersRightly, NamesAssignment, RequestRight, RowsInv, Known, Fresh
  <2>2. q.pc \in MaySubmit /\ q.att # 0 => attempts'[q.att].asg = q.asg
    <3>1. CASE q.att \in AttemptIds /\ attempts[q.att].asg = q.asg
      BY <1>2, <3>1
    <3>2. CASE reqs[p].pc \in MaySubmit /\ q.att = reqs[p].att /\ q.asg = reqs[p].asg
      BY <1>2, <1>4, <3>2 DEF RequestRight
    <3> QED
      BY <2>0, <3>1, <3>2 DEF RefersRightly
  <2>3. q.pc = "submit:count" => \A a \in q.ids : owner'[a] # NoStudent
    BY <1>0, <1>1, <2>0 DEF RefersRightly, RowsInv, Known, Fresh
  <2>4. q.pc = "submit:complete" =>
          /\ \A a \in q.ids : owner'[a] # NoStudent
          /\ q.ids # {} /\ Cardinality({s \in submits' : s.asg \in q.ids}) >= Cardinality(q.ids)
    <3> SUFFICES ASSUME q.pc = "submit:complete"
                 PROVE  /\ \A a \in q.ids : owner'[a] # NoStudent
                        /\ q.ids # {}
                        /\ Cardinality({s \in submits' : s.asg \in q.ids}) >= Cardinality(q.ids)
      OBVIOUS
    <3>1. reqs[p].pc = "submit:count" /\ q.ids = reqs[p].ids /\ EveryoneSubmitted(q.ids)
      BY <2>0 DEF RefersRightly
    <3> HIDE DEF q
    <3>2. Known(reqs[p].ids)
      BY <1>4, <3>1 DEF RequestRight
    <3>3. \A a \in q.ids : owner'[a] # NoStudent
      BY <1>1, <3>1, <3>2 DEF Known, Fresh
    <3>4. q.ids # {} /\ Cardinality({s \in submits' : s.asg \in q.ids}) >= Cardinality(q.ids)
      BY <1>5, <1>6, <3>1
    <3> QED
      BY <3>3, <3>4
  <2> QED
    BY <1>1, <2>1, <2>2, <2>3, <2>4
       DEF RequestRight, Fresh, Known, EveryoneSubmitted, CountSubmits
<1> QED
  BY <1>0, <1>7, <1>8, NextRefers

LEMMA RequestJobs ==
  ASSUME GroupInv, RequestStep
  PROVE  JobsInv'
<1>1. /\ assignments' = assignments /\ owner' = owner /\ jobs' = jobs
      /\ group'.exists = group.exists /\ submits \subseteq submits'
  BY RequestsKeepGroup, TablesGrow DEF RequestStep, GroupInv, GroupTypeInv
<1>2. \A ids : AllSubmitted(ids) => \A a \in ids : \E s \in submits' : s.asg = a
  BY <1>1 DEF AllSubmitted, HasSubmit, SubmitsOf
<1> SUFFICES ASSUME NEW j \in Jobs PROVE JobRight(j)'
  BY DEF JobsInv
<1>3. JobRight(j)
  BY DEF GroupInv, JobsInv
<1>4. Known(jobs[j].ids)'
  BY <1>1, <1>3 DEF JobRight, Known, Fresh
<1>5. jobs[j].ids \subseteq assignments => EndsRightly(jobs[j])'
  <2>1. AllSubmitted(jobs[j].ids) => AllSubmitted(jobs[j].ids)'
    BY <1>1, <1>2 DEF AllSubmitted, HasSubmit, SubmitsOf
  <2> QED
    BY <1>1, <1>3, <2>1 DEF JobRight, EndsRightly
<1> QED
  BY <1>1, <1>3, <1>4, <1>5 DEF JobRight

LEMMA NextGroupInv == GroupInv /\ [GroupNext]_groupVars => GroupInv'
<1> SUFFICES ASSUME GroupInv, [GroupNext]_groupVars PROVE GroupInv'
  OBVIOUS
<1>1. CASE RequestStep
  <2>1. TypeInv'
    BY <1>1, NextTypeInv DEF RequestStep, GroupInv, GroupTypeInv
  <2>2. GroupTypeInv'
    BY <1>1, <2>1 DEF RequestStep, GroupInv, GroupTypeInv
  <2> QED
    BY <1>1, <2>2, RequestRows, RequestRequests, RequestJobs DEF GroupInv
<1>2. ASSUME NEW j \in Jobs, JobStep(j) PROVE GroupInv'
  BY <1>2, StepGroupInv
<1> QED
  BY <1>1, <1>2 DEF GroupNext, groupVars, RequestStep, JobStep

(***************************************************************************)
(* Whatever jobs and requests overlap or fail, the tables, the owners and  *)
(* what every handler has read keep their types.                           *)
(***************************************************************************)
THEOREM GroupTypeCorrect == GroupSpec => []GroupTypeOK
<1>1. GroupInv => GroupTypeOK
  BY DEF GroupInv, GroupTypeInv, GroupTypeOK, TypeInv, TypeOK, HandlersOK
<1> QED
  BY <1>1, InitGroupInv, NextGroupInv, PTL DEF GroupSpec

(***************************************************************************)
(* No submit row outlives its assignment; and an attempt of an assignment  *)
(* that is there is marked submitted exactly when a submit row refers to   *)
(* it, whatever roster edits, deletes, submissions and crashes overlap.    *)
(***************************************************************************)
THEOREM SubmitsMatchAttemptsAlways == GroupSpec => []SubmitsMatchAttempts
<1>1. GroupInv => SubmitsMatchAttempts
  BY DEF GroupInv, RowsInv
<1> QED
  BY <1>1, InitGroupInv, NextGroupInv, PTL DEF GroupSpec

----------------------------------------------------------------------------
(***************************************************************************)
(* What a save may do when nothing else has changed since the handler read *)
(* what it is based on.                                                    *)
(***************************************************************************)
SavesGroupAt == {"edit:save", "save", "list:archive"}

LEMMA JobWrites ==
  ASSUME GroupInv, NEW j \in Jobs, JobStep(j)
  PROVE  \/ group' = group
         \/ JobAt(j, "create:group") /\ group' = jobs[j].assigned
         \/ group' = NoGroup
         \/ /\ group' = SavedGroup(j)
            /\ jobs[j].pc \in SavesGroupAt /\ jobs'[j] # jobs[j]
            /\ jobs[j].pc \in {"edit:save", "save"} => JobReturns(j)
<1>0. jobs \in [Jobs -> Job]
  BY DEF GroupInv, GroupTypeInv
<1>1. JobReturns(j) => jobs'[j].pc = "idle"
  BY <1>0, IdleJobMoves DEF JobReturns
<1>2. CASE EditSave(j)
  <2>1. jobs[j].pc = "edit:save" /\ JobReturns(j) /\ (group' = group \/ group' = SavedGroup(j))
    BY <1>2 DEF EditSave, JobAt
  <2> QED
    BY <1>1, <2>1 DEF SavesGroupAt
<1>3. CASE SaveGroup(j)
  <2>1. jobs[j].pc = "save" /\ JobReturns(j) /\ group' = SavedGroup(j)
    BY <1>3 DEF SaveGroup, JobAt
  <2> QED
    BY <1>1, <2>1 DEF SavesGroupAt
<1>4. CASE ListArchiveSave(j)
  <2> DEFINE q == [jobs[j] EXCEPT !.pc = "list:load", !.loaded = jobs[j].assigned]
  <2>1. jobs[j].pc = "list:archive" /\ group' = SavedGroup(j)
    BY <1>4 DEF ListArchiveSave, JobAt
  <2>2. JobReturns(j) \/ jobs' = [jobs EXCEPT ![j] = q]
    BY <1>4 DEF ListArchiveSave
  <2>3. q.pc = "list:load"
    BY <1>0 DEF Job
  <2> HIDE DEF q
  <2>4. jobs'[j].pc # "list:archive"
    BY <1>0, <1>1, <2>2, <2>3
  <2> QED
    BY <2>1, <2>4 DEF SavesGroupAt
<1>5. CASE CreateGroupSave(j) \/ DeleteSave(j)
  BY <1>5 DEF CreateGroupSave, DeleteSave
<1>6. CASE JobArrive(j) \/ JobFail(j)
  BY <1>6 DEF JobArrive, JobFail, CreateGroup, UnarchiveGroup, EditGroup, ListGroups,
              DeleteGroup, ArchiveGroup, GetDetails, Unsaved
<1>7. CASE \/ CreateAssignmentsSave(j) \/ EditReadRoster(j) \/ ListLoad(j)
           \/ ReadAssignments(j) \/ ReadSubmits(j)
  BY <1>7 DEF CreateAssignmentsSave, EditReadRoster, ListLoad, ReadAssignments,
              ReadSubmits, Unsaved
<1> QED
  BY <1>2, <1>3, <1>4, <1>5, <1>6, <1>7 DEF JobStep, JobProceed

LEMMA WindowStep ==
  ASSUME GroupInv, [GroupNext]_groupVars, group.exists, StartBeforeDeadline
  PROVE  StartBeforeDeadline' \/ \E j \in Jobs : StaleRow(j) /\ jobs'[j] # jobs[j]
<1>0. group \in GroupRow
  BY RowsOfGroup DEF GroupInv
<1>1. CASE RequestStep
  <2>1. ASSUME NEW r \in Requests, SubmitComplete(r)
        PROVE  group'.start = group.start /\ group'.deadline = group.deadline
    BY <1>0, <2>1 DEF SubmitComplete, GroupRow
  <2> QED
    BY <1>1, <2>1, GroupSteps DEF RequestStep, StartBeforeDeadline
<1>2. ASSUME NEW j \in Jobs, JobStep(j), ~ StaleRow(j) \/ jobs'[j] = jobs[j]
      PROVE  StartBeforeDeadline'
  <2>1. CASE group' = SavedGroup(j) /\ jobs[j].pc \in SavesGroupAt /\ jobs'[j] # jobs[j]
    <3>1. jobs[j].loaded = group
      BY <1>2, <2>1 DEF StaleRow
    <3>2. /\ SavedGroup(j).start = jobs[j].assigned.start
          /\ SavedGroup(j).deadline = jobs[j].assigned.deadline
      BY <3>1, SavedGroupIsRow DEF GroupInv
    <3>3. WindowKept(jobs[j])
      BY <2>1 DEF GroupInv, GroupTypeInv, JobShape, SavesGroupAt, Creates
    <3> QED
      BY <2>1, <3>1, <3>2, <3>3 DEF WindowKept, StartBeforeDeadline
  <2>2. CASE group' = NoGroup
    BY <2>2 DEF NoGroup, StartBeforeDeadline
  <2>3. CASE group' = group
    BY <2>3 DEF StartBeforeDeadline
  <2>4. ~ JobAt(j, "create:group")
    BY DEF GroupInv, JobsInv, JobRight, JobAt
  <2> QED
    BY <1>2, <2>1, <2>2, <2>3, <2>4, JobWrites
<1>3. (\E j \in Jobs : JobStep(j)) => 
         StartBeforeDeadline' \/ \E j \in Jobs : StaleRow(j) /\ jobs'[j] # jobs[j]
  BY <1>2
<1> QED
  BY <1>1, <1>3 DEF GroupNext, groupVars, RequestStep, JobStep

(***************************************************************************)
(* As long as the deadline of a group is not before its start, it is put   *)
(* there only by the save of an edit or unarchive whose group row has been *)
(* changed by another handler since it was loaded.                         *)
(***************************************************************************)
THEOREM WindowUnlessStaleHolds == GroupSpec => WindowUnlessStale
<1>1. GroupInv /\ [GroupNext]_groupVars =>
        [ group.exists /\ StartBeforeDeadline => StartBeforeDeadline'
            \/ \E j \in Jobs : StaleRow(j) /\ jobs'[j] # jobs[j] ]_groupVars
  BY WindowStep
<1> QED
  BY <1>1, InitGroupInv, NextGroupInv, PTL DEF GroupSpec, WindowUnlessStale

----------------------------------------------------------------------------
\* Students who are added have no assignment yet, as far as the handler knows.
LEMMA RosterSaved ==
  ASSUME GroupInv, NEW j \in Jobs, NEW gone, gone \subseteq jobs[j].ids,
         SaveRoster(j, gone), jobs[j].ids = assignments, OneAssignmentEach
  PROVE  OneAssignmentEach'
<1>1. PICK new \in [Added(j) -> {a \in AssignmentIds : Fresh(a)}] :
            /\ assignments' = (assignments \ gone) \cup {new[s] : s \in Added(j)}
            /\ \A s \in Added(j) : owner'[new[s]] = s
            /\ \A a \in AssignmentIds : (\A s \in Added(j) : new[s] # a) => owner'[a] = owner[a]
  BY NewAssignments DEF GroupInv
<1>2. \A a \in assignments : a \in AssignmentIds /\ ~ Fresh(a)
  BY DEF GroupInv, GroupTypeInv, TypeInv, TablesTypeOK, RowsInv, Known
<1>3. \A a \in assignments : owner'[a] = owner[a]
  BY <1>1, <1>2
<1>4. \A a \in assignments, s \in Added(j) : owner[a] # s
  BY DEF Added, OwnersOf
<1>5. \A a \in assignments' : a \in assignments \/ \E s \in Added(j) : a = new[s] /\ owner'[a] = s
  BY <1>1
<1>6. ASSUME NEW a \in assignments', NEW b \in assignments', owner'[a] = owner'[b]
      PROVE  a = b
  <2>1. CASE a \in assignments /\ b \in assignments
    BY <1>3, <1>6, <2>1 DEF OneAssignmentEach, UniqueOwners
  <2>2. CASE a \notin assignments /\ b \notin assignments
    BY <1>5, <1>6, <2>2
  <2>3. CASE a \in assignments /\ b \notin assignments
    BY <1>3, <1>4, <1>5, <1>6, <2>3
  <2>4. CASE a \notin assignments /\ b \in assignments
    BY <1>3, <1>4, <1>5, <1>6, <2>4
  <2> QED
    BY <2>1, <2>2, <2>3, <2>4
<1> QED
  BY <1>6 DEF OneAssignmentEach, UniqueOwners

LEMMA RosterStep ==
  ASSUME GroupInv, [GroupNext]_groupVars, OneAssignmentEach
  PROVE  OneAssignmentEach' \/ \E j \in Jobs : StaleRoster(j) /\ jobs'[j] # jobs[j]
<1>0. jobs \in [Jobs -> Job]
  BY DEF GroupInv, GroupTypeInv
<1>1. UNCHANGED << assignments, owner >> => OneAssignmentEach'
  BY DEF OneAssignmentEach, UniqueOwners
<1>2. RequestStep => UNCHANGED << assignments, owner >>
  BY GroupSteps DEF RequestStep
<1>3. ASSUME NEW j \in Jobs, JobStep(j), ~ StaleRoster(j) \/ jobs'[j] = jobs[j]
      PROVE  OneAssignmentEach'
  <2>1. ASSUME JobReturns(j), jobs[j].pc # "idle"
        PROVE  jobs[j].ids = assignments
    <3>1. jobs'[j].pc = "idle"
      BY <1>0, <2>1, IdleJobMoves DEF JobReturns
    <3> QED
      BY <1>3, <2>1, <3>1 DEF StaleRoster
  <2>2. CASE CreateAssignmentsSave(j)
    <3>1. jobs[j].ids = assignments
      BY <2>1, <2>2 DEF CreateAssignmentsSave, JobAt
    <3>2. SaveRoster(j, {}) \/ UNCHANGED << assignments, owner >>
      BY <2>2 DEF CreateAssignmentsSave
    <3> QED
      BY <1>1, <3>1, <3>2, RosterSaved
  <2>3. CASE EditSave(j)
    <3>1. jobs[j].ids = assignments
      BY <2>1, <2>3 DEF EditSave, JobAt
    <3>2. SaveRoster(j, Removed(j)) \/ UNCHANGED << assignments, owner >>
      BY <2>3 DEF EditSave
    <3>3. Removed(j) \subseteq jobs[j].ids
      BY DEF Removed
    <3> QED
      BY <1>1, <3>1, <3>2, <3>3, RosterSaved
  <2>4. CASE DeleteSave(j)
    BY <2>4 DEF DeleteSave, OneAssignmentEach, UniqueOwners
  <2>5. CASE JobArrive(j) \/ JobFail(j)
    BY <1>1, <2>5 DEF JobArrive, JobFail, CreateGroup, UnarchiveGroup, EditGroup, ListGroups,
                      DeleteGroup, ArchiveGroup, GetDetails, Unsaved
  <2>6. CASE \/ CreateGroupSave(j) \/ EditReadRoster(j) \/ SaveGroup(j) \/ ListArchiveSave(j)
             \/ ListLoad(j) \/ ReadAssignments(j) \/ ReadSubmits(j)
    BY <1>1, <2>6 DEF CreateGroupSave, EditReadRoster, SaveGroup, ListArchiveSave, ListLoad,
                      ReadAssignments, ReadSubmits, Unsaved
  <2> QED
    BY <1>3, <2>2, <2>3, <2>4, <2>5, <2>6 DEF JobStep, JobProceed
<1>4. (\E j \in Jobs : JobStep(j)) =>
         OneAssignmentEach' \/ \E j \in Jobs : StaleRoster(j) /\ jobs'[j] # jobs[j]
  BY <1>3
<1> QED
  BY <1>1, <1>2, <1>4 DEF GroupNext, groupVars, RequestStep, JobStep

(***************************************************************************)
(* A student gets a second assignment of the group only from a save based  *)
(* on assignments that another handler has changed since they were read.   *)
(***************************************************************************)
THEOREM RosterUnlessStaleHolds == GroupSpec => RosterUnlessStale
<1>1. GroupInv /\ [GroupNext]_groupVars =>
        [ OneAssignmentEach => OneAssignmentEach'
            \/ \E j \in Jobs : StaleRoster(j) /\ jobs'[j] # jobs[j] ]_groupVars
  BY RosterStep
<1> QED
  BY <1>1, InitGroupInv, NextGroupInv, PTL DEF GroupSpec, RosterUnlessStale

----------------------------------------------------------------------------
LEMMA EarlyEndStep ==
  ASSUME GroupInv, [GroupNext]_groupVars, EndsEarly
  PROVE  \/ \A a \in assignments : HasSubmit(a)
         \/ \E r \in Requests : /\ At(r, "submit:complete")
                                /\ reqs[r].ids # assignments \/ ~ NoDoubleSubmit
         \/ \E j \in Jobs : JobAt(j, "save") /\ StaleRoster(j)
<1>0. ~ group.completed /\ group'.completed /\ group' # group
  BY DEF EndsEarly
<1>1. CASE RequestStep
  <2>1. PICK r \in Requests : SubmitComplete(r)
    BY <1>0, <1>1, GroupSteps DEF RequestStep
  <2>2. At(r, "submit:complete")
    BY <2>1 DEF SubmitComplete
  <2>3. ASSUME reqs[r].ids = assignments, NoDoubleSubmit
        PROVE  \A a \in assignments : HasSubmit(a)
    <3>1. EveryoneSubmitted(assignments)
      BY <2>2, <2>3 DEF GroupInv, RequestsInv, RequestRight, At
    <3>2. IsFiniteSet(assignments) /\ IsFiniteSet(submits)
      BY TablesAssumption, FS_Subset DEF GroupInv, GroupTypeInv, TypeInv, TablesTypeOK, RowsInv
    <3> QED
      BY <2>3, <3>1, <3>2, EveryoneCounted
  <2> QED
    BY <2>2, <2>3
<1>2. ASSUME NEW j \in Jobs, JobStep(j)
      PROVE  JobAt(j, "save") /\ (StaleRoster(j) \/ \A a \in assignments : HasSubmit(a))
  <2>1. JobShape(jobs[j]) /\ JobRight(j)
    BY DEF GroupInv, GroupTypeInv, JobsInv
  <2>2. group' = SavedGroup(j) /\ jobs[j].pc \in SavesGroupAt
    BY <1>0, <1>2, <2>1, JobWrites DEF NoGroup, JobAt, JobShape
  <2>3. jobs[j].assigned.completed /\ ~ jobs[j].loaded.completed
    BY <1>0, <2>2, SavedGroupIsRow DEF GroupInv
  <2>4. jobs[j].pc = "save"
    BY <2>1, <2>2, <2>3 DEF JobShape, SavesGroupAt, Creates
  <2>5. jobs[j].ids = assignments => AllSubmitted(assignments)
    BY <2>1, <2>3, <2>4 DEF JobRight, EndsRightly
  <2> QED
    BY <2>4, <2>5 DEF JobAt, StaleRoster, AllSubmitted
<1> QED
  BY <1>0, <1>1, <1>2 DEF GroupNext, groupVars, RequestStep, JobStep

(***************************************************************************)
(* A group ends early only when every student of it has submitted, unless  *)
(* the handler that ends it read the assignments before they changed, or   *)
(* an assignment was submitted twice (and the handler counts rows).        *)
(***************************************************************************)
THEOREM EarlyEndUnlessStaleHolds == GroupSpec => EarlyEndUnlessStale
<1>1. GroupInv /\ [GroupNext]_groupVars =>
        [ EndsEarly =>
            \/ \A a \in assignments : HasSubmit(a)
            \/ \E r \in Requests : /\ At(r, "submit:complete")
                                   /\ reqs[r].ids # assignments \/ ~ NoDoubleSubmit
            \/ \E j \in Jobs : JobAt(j, "save") /\ StaleRoster(j) ]_groupVars
  BY EarlyEndStep
<1> QED
  BY <1>1, InitGroupInv, NextGroupInv, PTL DEF GroupSpec, EarlyEndUnlessStale

=============================================================================
