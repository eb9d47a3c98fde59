------------------------------ MODULE GroupApi ------------------------------
(***************************************************************************)
(* The endpoints of AssignmentGroupController on one assignment group      *)
(* (create, edit, delete, archive, list, details), running beside the      *)
(* attempt endpoints of AttemptApi on the same tables.                     *)
(*                                                                         *)
(* A handler is a job, modelled like a request of AttemptApi.  The caller  *)
(* is a teacher of the class or an administrator, and every student named  *)
(* is one of the class.  IP plans and answer keys are left out: generating *)
(* them changes no other row (when it fails, the handler returns as it     *)
(* does for an await that throws).                                         *)
(***************************************************************************)
EXTENDS AttemptApi

CONSTANTS
  Students,       \* the students of the class
  NoStudent,      \* owner of an assignment id that was never handed out
  Jobs,           \* job slots
  JobKinds,       \* the endpoints the teachers of an instance call
  Windows,        \* << StartDate, Deadline >> pairs sent by create
  Rosters,        \* sets of students sent by create and edit
  ArchiveAfter,   \* ticks past the deadline after which a listing archives
  JobsMayFail     \* may an await of a job throw?

AllJobKinds == {"create", "edit", "delete", "archive", "unarchive", "list", "details"}

ASSUME GroupAssumption ==
  /\ IsFiniteSet(Students)
  /\ NoStudent \notin Students
  /\ IsFiniteSet(Jobs)
  /\ JobKinds \subseteq AllJobKinds
  /\ Windows \subseteq Time \X Time
  /\ Rosters \subseteq SUBSET Students
  /\ ArchiveAfter \in Nat
  /\ JobsMayFail \in BOOLEAN

VARIABLES
  owner,          \* assignment id -> its student
  jobs            \* the handlers in flight

groupVars == << vars, owner, jobs >>

NoGroup == [exists |-> FALSE, start |-> 0, deadline |-> 0, completed |-> FALSE,
            archived |-> FALSE]

(***************************************************************************)
(* A job in flight: the group row as it was loaded and as the handler has  *)
(* assigned it since, the students who are to have an assignment, the      *)
(* assignment ids it read, and whether it lists archived groups.           *)
(***************************************************************************)
JobPcs ==
  {"idle", "create:group", "create:assignments", "edit:roster", "edit:save",
   "delete:save", "list:archive", "list:load", "read:assignments",
   "read:submits", "save"}

Job == [pc       : JobPcs,
        loaded   : GroupRow,
        assigned : GroupRow,
        desired  : SUBSET Students,
        ids      : SUBSET AssignmentIds,
        listed   : BOOLEAN]

IdleJob == [pc |-> "idle", loaded |-> NoGroup, assigned |-> NoGroup,
            desired |-> {}, ids |-> {}, listed |-> FALSE]

JobAt(j, pc) == jobs[j].pc = pc

JobArrives(j, kind) == kind \in JobKinds /\ JobAt(j, "idle")

JobReturns(j) == jobs' = [jobs EXCEPT ![j] = IdleJob]

\* The handler has loaded the group row, makes "row" of it, and goes on to pc.
JobLoads(j, pc, row, desired) ==
  /\ group.exists
  /\ jobs' = [jobs EXCEPT ![j] = [IdleJob EXCEPT !.pc = pc, !.loaded = group,
                                    !.assigned = row, !.desired = desired]]

\* Jobs leave the attempts, the requests and the clock alone.
JobFrame == UNCHANGED << attempts, now, reqs >>

Unsaved == JobFrame /\ UNCHANGED << assignments, submits, group, owner >>

\* The save of the group row; it fails when the row is gone.
SavedGroup(j) ==
  LET loaded == jobs[j].loaded
      assigned == jobs[j].assigned IN
  IF group.exists
    THEN [exists    |-> TRUE,
          start     |-> Write(group.start, loaded.start, assigned.start),
          deadline  |-> Write(group.deadline, loaded.deadline, assigned.deadline),
          completed |-> Write(group.completed, loaded.completed, assigned.completed),
          archived  |-> Write(group.archived, loaded.archived, assigned.archived)]
    ELSE group

----------------------------------------------------------------------------
(***************************************************************************)
(* Assignments.                                                            *)
(***************************************************************************)
Fresh(a) == owner[a] = NoStudent

OwnersOf(ids) == {owner[a] : a \in ids}

UniqueOwners(ids) == \A a, b \in ids : owner[a] = owner[b] => a = b

\* The assignments a job is to remove, and the students it is to give one.
Removed(j) == {a \in jobs[j].ids : owner[a] \notin jobs[j].desired}

\* Mutant: the students who have an assignment already are not left out.
AddedAll(j) == jobs[j].desired

Added(j) == jobs[j].desired \ OwnersOf(jobs[j].ids)

\* The job replaces the assignments "gone" by new ones of the students it adds,
\* with the next ids of AUTO_INCREMENT.  Deleting an assignment deletes its
\* submit rows; attempts have no foreign key and stay.
SaveRoster(j, gone) ==
  \E new \in [Added(j) -> {a \in AssignmentIds : Fresh(a)}] :
     /\ \A s, t \in Added(j) : new[s] = new[t] => s = t
     /\ \A s \in Added(j), a \in AssignmentIds :
           Fresh(a) /\ a < new[s] => \E t \in Added(j) : new[t] = a
     /\ assignments' = (assignments \ gone) \cup {new[s] : s \in Added(j)}
     /\ submits' = {s \in submits : s.asg \notin gone}
     /\ owner' = [a \in AssignmentIds |->
                    IF \E s \in Added(j) : new[s] = a
                      THEN CHOOSE s \in Added(j) : new[s] = a
                      ELSE owner[a]]

----------------------------------------------------------------------------
(***************************************************************************)
(* POST create-subnet-assignment-group and create-idnet-assignment-group:  *)
(* the group is saved first, the assignments of its students in a second   *)
(* save.  The model follows one group.  No students in the request stand   *)
(* for all of the class.  StartDate is not compared with Deadline.         *)
(***************************************************************************)
CreateGroup(j, window, students) ==
  /\ JobArrives(j, "create")
  /\ ~ group.exists
  /\ \A a \in AssignmentIds : Fresh(a)
  /\ \A i \in Jobs : JobAt(i, "idle")
  /\ jobs' = [jobs EXCEPT ![j] =
       [IdleJob EXCEPT !.pc = "create:group",
                       !.desired = IF students = {} THEN Students ELSE students,
                       !.assigned = [NoGroup EXCEPT !.exists = TRUE,
                                                    !.start = window[1],
                                                    !.deadline = window[2]]]]
  /\ Unsaved

CreateGroupSave(j) ==
  /\ JobAt(j, "create:group")
  /\ group' = jobs[j].assigned
  /\ jobs' = [jobs EXCEPT ![j].pc = "create:assignments"]
  /\ JobFrame /\ UNCHANGED << assignments, submits, owner >>

CreateAssignmentsSave(j) ==
  /\ JobAt(j, "create:assignments")
  /\ IF group.exists THEN SaveRoster(j, {})
                     ELSE UNCHANGED << assignments, submits, owner >>
  /\ JobReturns(j)
  /\ JobFrame /\ UNCHANGED group

(***************************************************************************)
(* PUT edit-subnet-assignment-group and edit-idnet-assignment-group: new   *)
(* dates, a new set of students, or both.  CompletedAt is reset only when  *)
(* the group is not ENDED, that is when it is null already.                *)
(***************************************************************************)
\* Mutant: the dates are not compared.
EditAnyDates(j, start, deadline, sent, students) ==
  /\ JobArrives(j, "edit")
  /\ ~ group.archived
  /\ JobLoads(j, IF sent THEN "edit:roster" ELSE "edit:save",
              [group EXCEPT !.start = start, !.deadline = deadline],
              IF sent THEN students ELSE {})
  /\ Unsaved

EditGroup(j, start, deadline, sent, students) ==
  /\ JobArrives(j, "edit")
  /\ ~ group.archived
  /\ start <= deadline
  /\ JobLoads(j, IF sent THEN "edit:roster" ELSE "edit:save",
              [group EXCEPT !.start = start, !.deadline = deadline],
              IF sent THEN students ELSE {})
  /\ Unsaved

\* The dictionary by student throws when a student has two assignments.
EditReadRoster(j) ==
  /\ JobAt(j, "edit:roster")
  /\ IF UniqueOwners(assignments)
       THEN jobs' = [jobs EXCEPT ![j].pc = "edit:save", ![j].ids = assignments]
       ELSE JobReturns(j)
  /\ Unsaved

\* Mutant: the submit rows of the whole group are removed.
EditSaveAllSubmits(j) ==
  /\ JobAt(j, "edit:save")
  /\ IF group.exists /\ Removed(j) \subseteq assignments
       THEN /\ group' = SavedGroup(j)
            /\ \E gone \in {Removed(j)} :
                 /\ assignments' = assignments \ gone
                 /\ submits' = IF gone = {} THEN submits ELSE {}
                 /\ UNCHANGED owner
       ELSE UNCHANGED << assignments, submits, group, owner >>
  /\ JobReturns(j)
  /\ JobFrame

\* One save: it fails as a whole when the group, or an assignment that is to
\* be deleted, is gone.
EditSave(j) ==
  /\ JobAt(j, "edit:save")
  /\ IF group.exists /\ Removed(j) \subseteq assignments
       THEN SaveRoster(j, Removed(j)) /\ group' = SavedGroup(j)
       ELSE UNCHANGED << assignments, submits, group, owner >>
  /\ JobReturns(j)
  /\ JobFrame

----------------------------------------------------------------------------
(***************************************************************************)
(* DELETE delete-subnet-assignment-groups (delete-idnet-...): the          *)
(* assignments and submit rows go with the group.                          *)
(***************************************************************************)
DeleteGroup(j) ==
  /\ JobArrives(j, "delete")
  /\ JobLoads(j, "delete:save", group, {})
  /\ Unsaved

DeleteSave(j) ==
  /\ JobAt(j, "delete:save")
  /\ group' = NoGroup
  /\ assignments' = {}
  /\ submits' = {}
  /\ JobReturns(j)
  /\ JobFrame /\ UNCHANGED owner

(***************************************************************************)
(* POST archive-assignment-group, both ways.                               *)
(***************************************************************************)
ArchiveGroup(j) ==
  /\ JobArrives(j, "archive")
  /\ JobLoads(j, "save", [group EXCEPT !.archived = TRUE], {})
  /\ Unsaved

UnarchiveGroup(j, start, deadline) ==
  /\ JobArrives(j, "unarchive")
  /\ start <= deadline
  /\ JobLoads(j, "save", [group EXCEPT !.archived = FALSE, !.completed = FALSE,
                                       !.start = start, !.deadline = deadline], {})
  /\ Unsaved

\* The save that ends archive, unarchive, list and details.
SaveGroup(j) ==
  /\ JobAt(j, "save")
  /\ group' = SavedGroup(j)
  /\ JobReturns(j)
  /\ JobFrame /\ UNCHANGED << assignments, submits, owner >>

----------------------------------------------------------------------------
(***************************************************************************)
(* GET query-assignment-groups: an overdue group is archived, then the     *)
(* groups that are (or are not) archived are read, and a group all of      *)
(* whose students have submitted is completed.                             *)
(***************************************************************************)
Overdue == group.exists /\ ~ group.archived /\ group.deadline + ArchiveAfter < now

ListGroups(j, archived) ==
  /\ JobArrives(j, "list")
  /\ jobs' = [jobs EXCEPT ![j] =
       IF Overdue
         THEN [IdleJob EXCEPT !.pc = "list:archive", !.listed = archived,
                              !.loaded = group,
                              !.assigned = [group EXCEPT !.archived = TRUE]]
         ELSE [IdleJob EXCEPT !.pc = "list:load", !.listed = archived]]
  /\ Unsaved

ListArchiveSave(j) ==
  /\ JobAt(j, "list:archive")
  /\ group' = SavedGroup(j)
  /\ IF group.exists
       THEN jobs' = [jobs EXCEPT ![j].pc = "list:load", ![j].loaded = jobs[j].assigned]
       ELSE JobReturns(j)
  /\ JobFrame /\ UNCHANGED << assignments, submits, owner >>

\* A row that the context tracks already keeps the values it was loaded with.
ListLoad(j) ==
  /\ JobAt(j, "list:load")
  /\ IF group.exists /\ group.archived = jobs[j].listed
       THEN LET row == IF jobs[j].loaded.exists THEN jobs[j].loaded ELSE group IN
            jobs' = [jobs EXCEPT ![j].pc = "read:assignments", ![j].loaded = row,
                                 ![j].assigned = row]
       ELSE JobReturns(j)
  /\ Unsaved

\* GET query-subnet-assignment-group-details (query-idnet-...).
GetDetails(j) ==
  /\ JobArrives(j, "details")
  /\ JobLoads(j, "read:assignments", group, {})
  /\ Unsaved

ReadAssignments(j) ==
  /\ JobAt(j, "read:assignments")
  /\ jobs' = [jobs EXCEPT ![j].pc = "read:submits", ![j].ids = assignments]
  /\ Unsaved

\* Mutants: one student too few is enough; or more are asked for than there are.
AllButOneSubmitted(ids) ==
  /\ ids # {}
  /\ Cardinality(OwnersOf({s.asg : s \in submits} \cap ids)) + 1 >= Cardinality(ids)
NeverAllSubmitted(ids) ==
  /\ ids # {}
  /\ Cardinality(OwnersOf({s.asg : s \in submits} \cap ids)) > Cardinality(ids)

\* As many students have submitted as there are assignments.
AllStudentsSubmitted(ids) ==
  /\ ids # {}
  /\ Cardinality(OwnersOf({s.asg : s \in submits} \cap ids)) = Cardinality(ids)

\* The submit rows are read; what is completed is left to save.
ReadSubmits(j) ==
  LET row == jobs[j].loaded IN
  /\ JobAt(j, "read:submits")
  /\ IF /\ AllStudentsSubmitted(jobs[j].ids)
        /\ ResolveStatus(row.start, row.deadline, row.completed) # "ENDED"
       THEN jobs' = [jobs EXCEPT ![j].pc = "save", ![j].assigned.completed = TRUE]
       ELSE JobReturns(j)
  /\ Unsaved

\* An await of a job throws, or the API process stops.
JobFail(j) ==
  /\ JobsMayFail
  /\ ~ JobAt(j, "idle")
  /\ JobReturns(j)
  /\ Unsaved

----------------------------------------------------------------------------
JobArrive(j) ==
  \/ \E w \in Windows, s \in Rosters : CreateGroup(j, w, s)
  \/ \E start, deadline \in Time :
        \/ UnarchiveGroup(j, start, deadline)
        \/ \E sent \in BOOLEAN, s \in Rosters : EditGroup(j, start, deadline, sent, s)
  \/ \E archived \in BOOLEAN : ListGroups(j, archived)
  \/ DeleteGroup(j) \/ ArchiveGroup(j) \/ GetDetails(j)

JobProceed(j) ==
  \/ CreateGroupSave(j) \/ CreateAssignmentsSave(j)
  \/ EditReadRoster(j) \/ EditSave(j)
  \/ DeleteSave(j) \/ SaveGroup(j)
  \/ ListArchiveSave(j) \/ ListLoad(j) \/ ReadAssignments(j) \/ ReadSubmits(j)

GroupInit ==
  /\ assignments = {} /\ attempts = << >> /\ submits = {}
  /\ group = NoGroup
  /\ now = 0
  /\ owner = [a \in AssignmentIds |-> NoStudent]
  /\ reqs = [r \in Requests |-> Idle]
  /\ jobs = [j \in Jobs |-> IdleJob]

GroupNext ==
  \/ \E j \in Jobs : JobArrive(j) \/ JobProceed(j) \/ JobFail(j)
  \/ Next /\ UNCHANGED << owner, jobs >>

GroupSpec == GroupInit /\ [][GroupNext]_groupVars

(***************************************************************************)
(* Handlers run until they return or throw, and a teacher opens the list   *)
(* of the groups that are not archived again and again.                    *)
(***************************************************************************)
GroupFairness ==
  /\ \A r \in Requests : WF_groupVars(Proceed(r) /\ UNCHANGED << owner, jobs >>)
  /\ \A j \in Jobs : /\ WF_groupVars(JobProceed(j))
                    /\ SF_groupVars(ListGroups(j, FALSE))

FairGroupSpec == GroupSpec /\ GroupFairness

----------------------------------------------------------------------------
GroupTypeOK ==
  /\ TypeOK
  /\ owner \in [AssignmentIds -> Students \cup {NoStudent}]
  /\ jobs \in [Jobs -> Job]

(***************************************************************************)
(* Whatever roster edits, deletes and submits overlap: a submit row always *)
(* belongs to an assignment that is there, and as long as the assignment   *)
(* is there, its submitted attempts and its submit rows agree.             *)
(***************************************************************************)
SubmitsMatchAttempts ==
  /\ \A s \in submits : s.asg \in assignments
  /\ \A k \in AttemptIds :
        attempts[k].asg \in assignments =>
          (attempts[k].submitted <=> \E s \in submits : s.att = k)

\* A job about to save is stale when the group row is not the one it loaded,
\* or the assignments are not those it read.
StaleRow(j) == jobs[j].loaded # group
StaleRoster(j) == jobs[j].ids # assignments

(***************************************************************************)
(* "StartDate cannot be after Deadline."  Creation does not compare the    *)
(* two; from then on only an edit or unarchive that overlaps another one   *)
(* (a write skew) makes it so.                                             *)
(***************************************************************************)
StartBeforeDeadline == group.start <= group.deadline

WindowUnlessStale ==
  [][ group.exists /\ StartBeforeDeadline => StartBeforeDeadline'
        \/ \E j \in Jobs : StaleRow(j) /\ jobs'[j] # jobs[j] ]_groupVars

(***************************************************************************)
(* A student has one assignment in a group.  Only the save of a roster     *)
(* edit, or the second save of a creation, made after another handler has  *)
(* changed the assignments gives a student two.                            *)
(***************************************************************************)
OneAssignmentEach == UniqueOwners(assignments)

RosterUnlessStale ==
  [][ OneAssignmentEach => OneAssignmentEach'
        \/ \E j \in Jobs : StaleRoster(j) /\ jobs'[j] # jobs[j] ]_groupVars

(***************************************************************************)
(* A group ends early only when every student of it has submitted, unless  *)
(* the handler that ends it (the last submit, a listing, the details) read *)
(* the assignments before a roster edit, or somebody submitted twice.      *)
(***************************************************************************)
EndsEarly == ~ group.completed /\ group'.completed

EarlyEndUnlessStale ==
  [][ EndsEarly =>
        \/ \A a \in assignments : HasSubmit(a)
        \/ \E r \in Requests : /\ At(r, "submit:complete")
                               /\ reqs[r].ids # assignments \/ ~ NoDoubleSubmit
        \/ \E j \in Jobs : JobAt(j, "save") /\ StaleRoster(j) ]_groupVars

(***************************************************************************)
(* When the last submitter dies between its two saves, the next listing    *)
(* or the next look at its details, completes the group: a group all of    *)
(* whose students have submitted ends, or is put away, whatever fails in   *)
(* the submit handlers and as often as it comes back.                      *)
(***************************************************************************)
ListingRepairs ==
  (assignments # {} /\ \A a \in assignments : HasSubmit(a))
    ~> (group.completed \/ group.archived \/ now > group.deadline)

============================================================================
