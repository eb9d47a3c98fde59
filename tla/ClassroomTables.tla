-------------------------- MODULE ClassroomTables --------------------------
(***************************************************************************)
(* The database rows that the submission endpoints of IPCheckr read and    *)
(* write, for one assignment group: its assignments, the submission        *)
(* attempts, the submit rows and the group row itself, together with the   *)
(* queries the handlers share.                                             *)
(*                                                                         *)
(* Two facts about the data layer shape every action of the modules that   *)
(* extend this one:                                                        *)
(*   - no handler opens a transaction and no entity has a concurrency      *)
(*     token, so each awaited query reads a committed state of its own and *)
(*     each SaveChangesAsync commits atomically, with any other request in *)
(*     between;                                                            *)
(*   - SaveChangesAsync writes only the columns whose value differs from   *)
(*     the one that was loaded (operator Write).                           *)
(*                                                                         *)
(* SUBNET and IDNET groups live in separate tables served by duplicated    *)
(* handlers, and every query on attempts filters by the group type, so one *)
(* table of assignments stands for either.                                 *)
(***************************************************************************)
EXTENDS Integers, FiniteSets, Sequences

CONSTANTS
  AssignmentIds,  \* primary keys the assignments table can hand out
  Answers,        \* the answers a student can type (draft payloads)
  NoDraft,        \* DraftJson = null
  MaxAttempts,    \* bound: rows of the attempts table
  MaxSubmits,     \* bound: rows of the submits table
  MaxTime         \* bound: the last tick of the clock

ASSUME TablesAssumption ==
  /\ AssignmentIds \subseteq Nat \ {0}
  /\ IsFiniteSet(AssignmentIds)
  /\ NoDraft \notin Answers
  /\ MaxAttempts \in Nat \ {0}
  /\ MaxSubmits \in Nat
  /\ MaxTime \in Nat

VARIABLES
  assignments,    \* ids of the assignment rows of the group
  attempts,       \* AssignmentSubmissionAttempts, in primary key order
  submits,        \* SubnetAssignmentSubmits (or IDNetAssignmentSubmits)
  group,          \* the SubnetAG (or IDNetAG) row
  now             \* the server's clock, in ticks

tables == << assignments, attempts, submits, group, now >>

(***************************************************************************)
(* Rows.                                                                   *)
(***************************************************************************)
Statuses == {"ACTIVE", "LOCKED", "SUBMITTED"}

Drafts == Answers \cup {NoDraft}

Time == 0..MaxTime

(***************************************************************************)
(* An attempt.  Its StudentId is the owner of asg (only the owner creates  *)
(* attempts) and its LockToken a GUID that only the owner is told, so a    *)
(* request that passes the owner and token checks is one that names the    *)
(* row.  AttemptNumber, LockedAt, LockReason and the activity times steer  *)
(* nothing and are left out.  "submitted" is SubmittedAt # null.           *)
(***************************************************************************)
AttemptRow == [asg       : AssignmentIds,
               startedAt : Nat,
               status    : Statuses,
               draft     : Drafts,
               incidents : Nat,
               reopens   : Nat,
               submitted : BOOLEAN]

\* att = 0 is AttemptId = null.
SubmitRow == [id : 1..MaxSubmits, asg : AssignmentIds, att : Nat]

\* "completed" is CompletedAt # null.
GroupRow == [exists    : BOOLEAN,
             start     : Time,
             deadline  : Time,
             completed : BOOLEAN,
             archived  : BOOLEAN]

\* Mutant: a new attempt has an empty draft, not none.
NewAttemptEmptyDraft(a, stamp) ==
  [asg |-> a, startedAt |-> stamp, status |-> "ACTIVE", draft |-> "",
   incidents |-> 0, reopens |-> 0, submitted |-> FALSE]

NewAttempt(a, stamp) ==
  [asg |-> a, startedAt |-> stamp, status |-> "ACTIVE", draft |-> NoDraft,
   incidents |-> 0, reopens |-> 0, submitted |-> FALSE]

AttemptIds == DOMAIN attempts

(***************************************************************************)
(* Queries.                                                                *)
(***************************************************************************)
AttemptsOf(a) == {k \in AttemptIds : attempts[k].asg = a}

\* ORDER BY StartedAt DESC, Id DESC.
NewerThan(k, j) ==
  \/ attempts[k].startedAt > attempts[j].startedAt
  \/ attempts[k].startedAt = attempts[j].startedAt /\ k > j

IsNewestAttempt(k, a) ==
  /\ k \in AttemptsOf(a)
  /\ \A j \in AttemptsOf(a) \ {k} : NewerThan(k, j)

SubmitsOf(a) == {s \in submits : s.asg = a}

\* Mutant: only the submit rows that refer to an attempt are seen.
HasAttemptSubmit(a) == \E s \in SubmitsOf(a) : s.att # 0

HasSubmit(a) == SubmitsOf(a) # {}

\* One COUNT over the submit rows of a set of assignments: rows, not students.
CountSubmits(ids) == Cardinality({s \in submits : s.asg \in ids})

IsWithinSubmissionWindow ==
  now >= group.start /\ now <= group.deadline /\ ~ group.completed

ResolveStatus(start, deadline, completed) ==
  CASE completed                                          -> "ENDED"
    [] ~ completed /\ now < start                         -> "UPCOMING"
    [] ~ completed /\ now >= start /\ now <= deadline     -> "IN_PROGRESS"
    [] ~ completed /\ now >= start /\ now > deadline      -> "ENDED"

\* AUTO_INCREMENT, with the lowest free id standing for the next one.
IsFreshSubmitId(i) ==
  /\ \A s \in submits : s.id # i
  /\ \A j \in 1..(i - 1) : \E s \in submits : s.id = j

(***************************************************************************)
(* What SaveChangesAsync leaves in a column that holds "stored" now, when  *)
(* the handler loaded "loaded" and assigned "assigned".                    *)
(***************************************************************************)
Write(stored, loaded, assigned) ==
  IF assigned = loaded THEN stored ELSE assigned

TablesTypeOK ==
  /\ assignments \subseteq AssignmentIds
  /\ attempts \in Seq(AttemptRow)
  /\ submits \subseteq SubmitRow
  /\ group \in GroupRow
  /\ now \in Time

TablesInit(ids, start, deadline) ==
  /\ assignments = ids
  /\ attempts = << >>
  /\ submits = {}
  /\ group = [exists |-> TRUE, start |-> start, deadline |-> deadline,
              completed |-> FALSE, archived |-> FALSE]
  /\ now = 0

Tick ==
  /\ now < MaxTime
  /\ now' = now + 1
  /\ UNCHANGED << assignments, attempts, submits, group >>

============================================================================
