----------------------------- MODULE AttemptApi -----------------------------
(***************************************************************************)
(* The endpoints that create, save, lock, reopen and submit an attempt:    *)
(* the handlers of AssignmentSubmitController and the reopen endpoint of   *)
(* AssignmentGroupController.                                              *)
(*                                                                         *)
(* A request is a process.  Its first action is the first query of the     *)
(* handler with the checks that follow it; every later action is one more  *)
(* awaited query or save.  A request that is refused at its first query    *)
(* changes nothing and is not represented.  Callers are the owner of the   *)
(* assignment (student endpoints) and a teacher of its class (reopen       *)
(* endpoints): every other caller is refused before anything is written.   *)
(***************************************************************************)
EXTENDS ClassroomTables

CONSTANTS
  Requests,       \* request slots: how many handlers may run at a time
  Operations,     \* the endpoints the clients of an instance call
  Roster,         \* the assignments of the group
  Start, Deadline,\* StartDate and Deadline of the group
  MaxIncidents,   \* bound: no Lock is sent past this VisibilityIncidentCount
  MaxReopens,     \* bound: no reopen is sent past this ReopenCount
  MayFail         \* may an await throw, or the API stop?

AllOperations == {"CreateOrGet", "GetCurrent", "SaveDraft", "Lock", "Submit",
                  "Reopen", "ReopenStudent"}

ASSUME ApiAssumption ==
  /\ IsFiniteSet(Requests)
  /\ Operations \subseteq AllOperations
  /\ Roster \subseteq AssignmentIds
  /\ Start \in Time /\ Deadline \in Time
  /\ MaxIncidents \in Nat /\ MaxReopens \in Nat
  /\ MayFail \in BOOLEAN

VARIABLE reqs     \* the handlers in flight: what each has read so far

vars == << assignments, attempts, submits, group, now, reqs >>

(***************************************************************************)
(* A handler in flight.  pc names the await it is about to run; att is the *)
(* attempt it works on (0: none) and row that attempt as it was loaded;    *)
(* has is its HasSubmit answer; ids and due are the assignment ids and the *)
(* deadline it loaded.                                                     *)
(***************************************************************************)
PcValues ==
  {"idle",
   "create:find", "create:hasSubmit", "current:hasSubmit", "current:find",
   "number", "insert", "revive",
   "draft:save", "lock:save", "reopen:check", "reopen:find", "reopen:save",
   "submit:attempt", "submit:check", "submit:save", "submit:ids",
   "submit:count", "submit:complete"}

Request == [pc    : PcValues,
            asg   : AssignmentIds \cup {0},
            att   : Nat,
            row   : AttemptRow \cup {<< >>},
            has   : BOOLEAN,
            draft : Drafts,
            stamp : Nat,
            ids   : SUBSET AssignmentIds,
            due   : Time]

Idle == [pc |-> "idle", asg |-> 0, att |-> 0, row |-> << >>, has |-> FALSE,
         draft |-> NoDraft, stamp |-> 0, ids |-> {}, due |-> 0]

\* The handler returns: its slot is free.
Return(r) == reqs' = [reqs EXCEPT ![r] = Idle]

At(r, pc) == reqs[r].pc = pc

\* A request of kind op arrives at a free slot.
Arrives(r, op) == op \in Operations /\ At(r, "idle")

Begin(r, pc, a) == reqs' = [reqs EXCEPT ![r] = [Idle EXCEPT !.pc = pc, !.asg = a]]

\* A request that loaded attempt k and is about to save it.
BeginSave(r, pc, k, draft) ==
  reqs' = [reqs EXCEPT ![r] = [Idle EXCEPT !.pc = pc, !.asg = attempts[k].asg,
                                           !.att = k, !.row = attempts[k],
                                           !.draft = draft]]

Goto(r, pc) == reqs' = [reqs EXCEPT ![r].pc = pc]

\* Load attempt k and go on to pc.
Load(r, pc, k) ==
  reqs' = [reqs EXCEPT ![r].pc = pc, ![r].att = k, ![r].row = attempts[k]]

----------------------------------------------------------------------------
(***************************************************************************)
(* What each save makes of the stored row, given the row the handler       *)
(* loaded (see Write).                                                     *)
(***************************************************************************)
SavedRow(stored, loaded, draft) ==
  [stored EXCEPT !.draft  = Write(@, loaded.draft, draft),
                 !.status = Write(@, loaded.status, "ACTIVE")]

LockedRow(stored, loaded, draft) ==
  [stored EXCEPT !.draft     = Write(@, loaded.draft, draft),
                 !.status    = Write(@, loaded.status, "LOCKED"),
                 !.incidents = Write(@, loaded.incidents, loaded.incidents + 1)]

ReopenedRow(stored, loaded) ==
  [stored EXCEPT !.status  = Write(@, loaded.status, "ACTIVE"),
                 !.reopens = Write(@, loaded.reopens, loaded.reopens + 1)]

RevivedRow(stored, loaded) ==
  [stored EXCEPT !.status = Write(@, loaded.status, "ACTIVE")]

\* Mutant: SubmittedAt is forgotten.
SubmittedRowNoTime(stored, loaded, draft) ==
  [stored EXCEPT !.draft = draft, !.status = Write(@, loaded.status, "SUBMITTED")]

\* The submitted answers are serialized in another shape than a draft, so
\* DraftJson always counts as changed.
SubmittedRow(stored, loaded, draft) ==
  [stored EXCEPT !.draft     = draft,
                 !.status    = Write(@, loaded.status, "SUBMITTED"),
                 !.submitted = TRUE]

\* The save of attempt att: its row becomes "row", everything else stays.
SaveRow(r, row) ==
  /\ attempts' = [attempts EXCEPT ![reqs[r].att] = row]
  /\ Return(r)
  /\ UNCHANGED << assignments, submits, group, now >>

\* The stored row of the attempt the request works on.
Stored(r) == attempts[reqs[r].att]

----------------------------------------------------------------------------
(***************************************************************************)
(* POST create-or-get-assignment-attempt.                                  *)
(***************************************************************************)
CreateOrGetAttempt(r, a) ==
  /\ Arrives(r, "CreateOrGet")
  /\ a \in assignments
  /\ IsWithinSubmissionWindow
  /\ Begin(r, "create:find", a)
  /\ UNCHANGED tables

\* An attempt that exists, whatever its status, is returned as it is.
\* Mutant: a locked attempt does not count.
CreateFindActive(r) ==
  /\ At(r, "create:find")
  /\ IF \E k \in AttemptsOf(reqs[r].asg) : attempts[k].status = "ACTIVE"
       THEN Return(r) ELSE Goto(r, "create:hasSubmit")
  /\ UNCHANGED tables

CreateFind(r) ==
  /\ At(r, "create:find")
  /\ IF AttemptsOf(reqs[r].asg) # {} THEN Return(r) ELSE Goto(r, "create:hasSubmit")
  /\ UNCHANGED tables

CreateHasSubmit(r) ==
  /\ At(r, "create:hasSubmit")
  /\ IF HasSubmit(reqs[r].asg) THEN Return(r) ELSE Goto(r, "number")
  /\ UNCHANGED tables

\* MAX(AttemptNumber) is read, then StartedAt is taken from the clock.
IsNextStamp(st) ==
  /\ \A k \in AttemptIds : attempts[k].startedAt < st
  /\ \A q \in Requests : reqs[q].stamp < st
  /\ \A s \in 1..(st - 1) : \/ \E k \in AttemptIds : attempts[k].startedAt >= s
                           \/ \E q \in Requests : reqs[q].stamp >= s

NumberAttempt(r) ==
  /\ At(r, "number")
  /\ \E st \in 1..(MaxAttempts + Cardinality(Requests)) :
        /\ IsNextStamp(st)
        /\ reqs' = [reqs EXCEPT ![r].pc = "insert", ![r].stamp = st]
  /\ UNCHANGED tables

InsertAttempt(r) ==
  /\ At(r, "insert")
  /\ Len(attempts) < MaxAttempts
  /\ attempts' = Append(attempts, NewAttempt(reqs[r].asg, reqs[r].stamp))
  /\ Return(r)
  /\ UNCHANGED << assignments, submits, group, now >>

(***************************************************************************)
(* GET get-current-assignment-attempt.  It asks for the submit rows before *)
(* it reads the attempt.                                                   *)
(***************************************************************************)
GetCurrentAttempt(r, a) ==
  /\ Arrives(r, "GetCurrent")
  /\ a \in assignments
  /\ IsWithinSubmissionWindow
  /\ Begin(r, "current:hasSubmit", a)
  /\ UNCHANGED tables

CurrentHasSubmit(r) ==
  /\ At(r, "current:hasSubmit")
  /\ reqs' = [reqs EXCEPT ![r].pc = "current:find",
                          ![r].has = HasSubmit(reqs[r].asg)]
  /\ UNCHANGED tables

\* No attempt and a submit row: refused.  No attempt and no submit row: create.
CurrentFindNone(r) ==
  /\ At(r, "current:find")
  /\ AttemptsOf(reqs[r].asg) = {}
  /\ IF reqs[r].has THEN Return(r) ELSE Goto(r, "number")
  /\ UNCHANGED tables

\* Mutant: the submit rows are not looked at.
NeedsRevivalAlways(row, has) == row.status = "SUBMITTED"

\* A submitted attempt for which no submit row was seen is made active again.
NeedsRevival(row, has) == row.status = "SUBMITTED" /\ ~ has

CurrentFind(r) ==
  /\ At(r, "current:find")
  /\ \E k \in AttemptIds :
        /\ IsNewestAttempt(k, reqs[r].asg)
        /\ IF NeedsRevival(attempts[k], reqs[r].has) THEN Load(r, "revive", k)
                                                     ELSE Return(r)
  /\ UNCHANGED tables

ReviveAttempt(r) ==
  /\ At(r, "revive")
  /\ SaveRow(r, RevivedRow(Stored(r), reqs[r].row))

----------------------------------------------------------------------------
(***************************************************************************)
(* PUT save-assignment-attempt-draft.  The submission window is not asked. *)
(***************************************************************************)
\* Mutant: a locked attempt takes drafts.
SaveDraftLocked(r, k, draft) ==
  /\ Arrives(r, "SaveDraft")
  /\ attempts[k].status # "SUBMITTED"
  /\ BeginSave(r, "draft:save", k, draft)
  /\ UNCHANGED tables

SaveDraft(r, k, draft) ==
  /\ Arrives(r, "SaveDraft")
  /\ attempts[k].status \notin {"LOCKED", "SUBMITTED"}
  /\ BeginSave(r, "draft:save", k, draft)
  /\ UNCHANGED tables

SaveDraftSave(r) ==
  /\ At(r, "draft:save")
  /\ SaveRow(r, SavedRow(Stored(r), reqs[r].row, reqs[r].draft))

(***************************************************************************)
(* POST lock-assignment-attempt.  A submitted attempt is returned as it    *)
(* is; a locked one is locked once more.                                   *)
(***************************************************************************)
\* Mutant: a submitted attempt is locked.
LockAnyAttempt(r, k, draft) ==
  /\ Arrives(r, "Lock")
  /\ attempts[k].incidents < MaxIncidents
  /\ BeginSave(r, "lock:save", k, draft)
  /\ UNCHANGED tables

LockAttempt(r, k, draft) ==
  /\ Arrives(r, "Lock")
  /\ attempts[k].status # "SUBMITTED"
  /\ attempts[k].incidents < MaxIncidents
  /\ BeginSave(r, "lock:save", k, draft)
  /\ UNCHANGED tables

LockSave(r) ==
  /\ At(r, "lock:save")
  /\ SaveRow(r, LockedRow(Stored(r), reqs[r].row, reqs[r].draft))

(***************************************************************************)
(* POST reopen-assignment-attempt, by attempt: neither the window nor the  *)
(* deadline is asked, and an active attempt is "reopened" as well.  The    *)
(* status is tested after the teacher check, on the row loaded before it.  *)
(***************************************************************************)
ReopenAttempt(r, k) ==
  /\ Arrives(r, "Reopen")
  /\ attempts[k].reopens < MaxReopens
  /\ BeginSave(r, "reopen:check", k, NoDraft)
  /\ UNCHANGED tables

ReopenCheck(r) ==
  /\ At(r, "reopen:check")
  /\ IF reqs[r].asg \in assignments /\ reqs[r].row.status # "SUBMITTED"
       THEN Goto(r, "reopen:save")
       ELSE Return(r)
  /\ UNCHANGED tables

(***************************************************************************)
(* POST reopen-student-assignment-attempt, by assignment: the newest       *)
(* attempt, until the deadline that was loaded with the assignment.        *)
(***************************************************************************)
ReopenStudentAttempt(r, a) ==
  /\ Arrives(r, "ReopenStudent")
  /\ a \in assignments
  /\ \A k \in AttemptsOf(a) : attempts[k].reopens < MaxReopens
  /\ reqs' = [reqs EXCEPT ![r] = [Idle EXCEPT !.pc = "reopen:find", !.asg = a,
                                              !.due = group.deadline]]
  /\ UNCHANGED tables

ReopenFindNone(r) ==
  /\ At(r, "reopen:find")
  /\ AttemptsOf(reqs[r].asg) = {}
  /\ Return(r)
  /\ UNCHANGED tables

\* Mutant: a submitted attempt is reopened.
MayReopenAny(row, due) == due >= now

MayReopen(row, due) == row.status # "SUBMITTED" /\ due >= now

ReopenFind(r) ==
  /\ At(r, "reopen:find")
  /\ \E k \in AttemptIds :
        /\ IsNewestAttempt(k, reqs[r].asg)
        /\ IF MayReopen(attempts[k], reqs[r].due) THEN Load(r, "reopen:save", k)
                                                  ELSE Return(r)
  /\ UNCHANGED tables

\* Both reopen endpoints end in the same assignments and save.
ReopenSave(r) ==
  /\ At(r, "reopen:save")
  /\ SaveRow(r, ReopenedRow(Stored(r), reqs[r].row))

----------------------------------------------------------------------------
(***************************************************************************)
(* POST submit-subnet-assignment and submit-idnet-assignment, with or      *)
(* without an attempt.                                                     *)
(***************************************************************************)
Submit(r, a, k, draft) ==
  /\ Arrives(r, "Submit")
  /\ a \in assignments
  /\ IsWithinSubmissionWindow
  /\ reqs' = [reqs EXCEPT ![r] =
       [Idle EXCEPT !.pc = IF k = 0 THEN "submit:check" ELSE "submit:attempt",
                    !.asg = a, !.att = k, !.draft = draft]]
  /\ UNCHANGED tables

\* The attempt must be one of this assignment, neither locked nor submitted.
SubmitLoadAttempt(r) ==
  /\ At(r, "submit:attempt")
  /\ IF Stored(r).asg = reqs[r].asg /\ Stored(r).status = "ACTIVE"
       THEN Load(r, "submit:check", reqs[r].att)
       ELSE Return(r)
  /\ UNCHANGED tables

SubmitCheck(r) ==
  /\ At(r, "submit:check")
  /\ IF HasSubmit(reqs[r].asg) THEN Return(r) ELSE Goto(r, "submit:save")
  /\ UNCHANGED tables

(***************************************************************************)
(* The attempt, the submit row and the assignment in one save; it fails as *)
(* a whole when the assignment is gone (so does the read of the answer key *)
(* before it).                                                             *)
(***************************************************************************)
SubmitSave(r) ==
  LET k == reqs[r].att
      a == reqs[r].asg IN
  /\ At(r, "submit:save")
  /\ a \in assignments
  /\ \E i \in 1..MaxSubmits :
        /\ IsFreshSubmitId(i)
        /\ submits' = submits \cup {[id |-> i, asg |-> a, att |-> k]}
  /\ attempts' = IF k = 0 THEN attempts
                 ELSE [attempts EXCEPT
                        ![k] = SubmittedRow(@, reqs[r].row, reqs[r].draft)]
  /\ Goto(r, "submit:ids")
  /\ UNCHANGED << assignments, group, now >>

SubmitSaveRefused(r) ==
  /\ At(r, "submit:save")
  /\ reqs[r].asg \notin assignments
  /\ Return(r)
  /\ UNCHANGED tables

SaveSubmission(r) ==
  IF reqs[r].asg \in assignments THEN SubmitSave(r) ELSE SubmitSaveRefused(r)

SubmitReadIds(r) ==
  /\ At(r, "submit:ids")
  /\ reqs' = [reqs EXCEPT ![r].pc = "submit:count", ![r].ids = assignments]
  /\ UNCHANGED tables

\* Mutants: the submit just saved is counted twice; or it is not counted.
EveryoneElseSubmitted(ids) == ids # {} /\ CountSubmits(ids) + 1 >= Cardinality(ids)
MoreThanEveryoneSubmitted(ids) == ids # {} /\ CountSubmits(ids) > Cardinality(ids)

EveryoneSubmitted(ids) == ids # {} /\ CountSubmits(ids) >= Cardinality(ids)

SubmitCount(r) ==
  /\ At(r, "submit:count")
  /\ IF EveryoneSubmitted(reqs[r].ids) THEN Goto(r, "submit:complete") ELSE Return(r)
  /\ UNCHANGED tables

\* The second save: the group ends early.
SubmitComplete(r) ==
  /\ At(r, "submit:complete")
  /\ group' = [group EXCEPT !.completed = (@ \/ group.exists)]
  /\ Return(r)
  /\ UNCHANGED << assignments, attempts, submits, now >>

----------------------------------------------------------------------------
(***************************************************************************)
(* An await throws (a lost database connection) or the API process stops:  *)
(* what the handler has not saved yet is lost.                             *)
(***************************************************************************)
Fail(r) ==
  /\ MayFail
  /\ ~ At(r, "idle")
  /\ Return(r)
  /\ UNCHANGED tables

Arrive(r) ==
  \/ \E a \in AssignmentIds : \/ CreateOrGetAttempt(r, a)
                              \/ GetCurrentAttempt(r, a)
                              \/ ReopenStudentAttempt(r, a)
  \/ \E k \in AttemptIds : \/ ReopenAttempt(r, k)
                           \/ \E d \in Answers : SaveDraft(r, k, d) \/ LockAttempt(r, k, d)
  \/ \E a \in AssignmentIds, k \in AttemptIds \cup {0}, d \in Answers : Submit(r, a, k, d)

Proceed(r) ==
  \/ CreateFind(r) \/ CreateHasSubmit(r) \/ NumberAttempt(r) \/ InsertAttempt(r)
  \/ CurrentHasSubmit(r) \/ CurrentFindNone(r) \/ CurrentFind(r) \/ ReviveAttempt(r)
  \/ SaveDraftSave(r) \/ LockSave(r)
  \/ ReopenCheck(r) \/ ReopenFindNone(r) \/ ReopenFind(r) \/ ReopenSave(r)
  \/ SubmitLoadAttempt(r) \/ SubmitCheck(r) \/ SaveSubmission(r)
  \/ SubmitReadIds(r) \/ SubmitCount(r) \/ SubmitComplete(r)

Init ==
  /\ TablesInit(Roster, Start, Deadline)
  /\ reqs = [r \in Requests |-> Idle]

Next ==
  \/ \E r \in Requests : Arrive(r) \/ Proceed(r) \/ Fail(r)
  \/ Tick /\ UNCHANGED reqs

\* Kestrel runs every handler it has started until it returns or throws.
Fairness == \A r \in Requests : WF_vars(Proceed(r))

Spec == Init /\ [][Next]_vars

FairSpec == Spec /\ Fairness

----------------------------------------------------------------------------
TypeOK == TablesTypeOK /\ reqs \in [Requests -> Request]

(***************************************************************************)
(* The submitted mark and the submit row of an attempt appear together, in *)
(* whatever order requests run: an attempt has SubmittedAt set exactly when*)
(* some submit row refers to it, and a SUBMITTED status implies the row.   *)
(* (The branch of GetCurrent that revives a "SUBMITTED attempt without a   *)
(* submit row" therefore never repairs anything: see ReviveIsStale.)       *)
(***************************************************************************)
SubmittedMeansRow ==
  \A k \in AttemptIds :
     /\ attempts[k].submitted <=> \E s \in submits : s.att = k
     /\ attempts[k].status = "SUBMITTED" => attempts[k].submitted

(***************************************************************************)
(* An early end of the group (CompletedAt set by the last Submit) leaves   *)
(* no student behind, as long as no assignment was submitted twice.        *)
(***************************************************************************)
NoDoubleSubmit == \A s, t \in submits : s.asg = t.asg => s = t

CompletedMeansAllSubmitted ==
  group.completed /\ NoDoubleSubmit => \A a \in assignments : HasSubmit(a)

(***************************************************************************)
(* The endpoints do not serialize two submissions of one assignment, but   *)
(* duplicates can only come from handlers that overlap: an assignment      *)
(* never collects more submit rows than there are requests at a time (one, *)
(* when requests do not overlap), however many are sent.                   *)
(***************************************************************************)
SubmitsBoundedByOverlap ==
  \A a \in AssignmentIds : Cardinality(SubmitsOf(a)) <= Cardinality(Requests)

(***************************************************************************)
(* The same for the attempts of an assignment: two endpoints create them   *)
(* after finding none.                                                     *)
(***************************************************************************)
AttemptsBoundedByOverlap ==
  \A a \in AssignmentIds : Cardinality(AttemptsOf(a)) <= Cardinality(Requests)

(***************************************************************************)
(* When no handler fails, some submitter closes the group once everybody   *)
(* has submitted: of two last submitters that overlap, at least one counts *)
(* the row of the other (each counts after its own save).                  *)
(***************************************************************************)
LastSubmitterCloses ==
  (\A a \in assignments : HasSubmit(a)) ~> group.completed

============================================================================
