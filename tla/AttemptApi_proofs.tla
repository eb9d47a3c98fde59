-------------------------- MODULE AttemptApi_proofs --------------------------
(***************************************************************************)
(* Proofs about the attempt endpoints, for any number of students,         *)
(* requests and attempts: what always holds of them, and that they keep    *)
(* the promise of AttemptLifecycle wherever no request is stale.           *)
(***************************************************************************)
EXTENDS AttemptRefinement, FiniteSetTheorems, TLAPS

(***************************************************************************)
(* Type correctness.  TypeOK is not inductive: what a save writes depends  *)
(* on what the handler has loaded.  A handler that is about to save an     *)
(* attempt holds a row of it, and the attempt exists.                      *)
(***************************************************************************)
SavesAttempt == {"revive", "draft:save", "lock:save", "reopen:check", "reopen:save"}

MaySubmit == {"submit:check", "submit:save"}

\* n is the number of attempts.
HandlerOK(q, n) ==
  /\ q \in Request
  /\ q.att \in 0..n
  /\ q.pc # "idle" => q.asg \in AssignmentIds
  /\ q.pc \in SavesAttempt => q.att # 0 /\ q.row \in AttemptRow
  /\ q.pc = "submit:attempt" => q.att # 0
  /\ q.pc \in MaySubmit /\ q.att # 0 => q.row \in AttemptRow

HandlersOK(rs, n) ==
  /\ rs \in [Requests -> Request]
  /\ \A r \in Requests : HandlerOK(rs[r], n)

TypeInv == TablesTypeOK /\ HandlersOK(reqs, Len(attempts))

(***************************************************************************)
(* One handler moves, no attempt disappears.                               *)
(***************************************************************************)
LEMMA OneHandlerMoves ==
  ASSUME NEW rs, NEW n \in Nat, NEW m \in Nat, n <= m, HandlersOK(rs, n),
         NEW r \in Requests, NEW q, HandlerOK(q, m)
  PROVE  HandlersOK([rs EXCEPT ![r] = q], m)
<1>1. \A p \in Requests : HandlerOK([rs EXCEPT ![r] = q][p], m)
  BY DEF HandlersOK, HandlerOK
<1>2. q \in Request
  BY DEF HandlerOK
<1> QED
  BY <1>1, <1>2 DEF HandlersOK

LEMMA IdleOK ==
  ASSUME NEW n \in Nat PROVE HandlerOK(Idle, n)
  BY TablesAssumption DEF HandlerOK, Idle, Request, PcValues, SavesAttempt,
                          MaySubmit, Drafts, Time

LEMMA AttemptsAreRows ==
  ASSUME TablesTypeOK
  PROVE  /\ Len(attempts) \in Nat
         /\ AttemptIds = 1..Len(attempts)
         /\ \A k \in AttemptIds :
               attempts[k] \in AttemptRow /\ attempts[k].asg \in AssignmentIds
<1>1. Len(attempts) \in Nat /\ AttemptIds = 1..Len(attempts)
  BY DEF TablesTypeOK, AttemptIds
<1>2. \A k \in AttemptIds : attempts[k] \in AttemptRow
  BY <1>1 DEF TablesTypeOK
<1>3. \A row \in AttemptRow : row.asg \in AssignmentIds
  BY DEF AttemptRow
<1> QED
  BY <1>1, <1>2, <1>3

(***************************************************************************)
(* The new state of the handler that moves: it returns, goes on with what  *)
(* it has, or loads an attempt.                                            *)
(***************************************************************************)
\* The handler goes on, without loading an attempt, to where none is needed.
LEMMA MoveOK ==
  ASSUME NEW n \in Nat, NEW q, HandlerOK(q, n), q.pc # "idle",
         NEW q2 \in Request, q2.att = q.att, q2.asg = q.asg,
         q2.pc \notin SavesAttempt \cup MaySubmit \cup {"submit:attempt"}
  PROVE  HandlerOK(q2, n)
BY DEF HandlerOK

LEMMA GotoOK ==
  ASSUME NEW n \in Nat, NEW q, HandlerOK(q, n), q.pc # "idle",
         NEW pc \in PcValues \ (SavesAttempt \cup MaySubmit \cup {"submit:attempt"})
  PROVE  HandlerOK([q EXCEPT !.pc = pc], n)
BY DEF HandlerOK, Request

LEMMA BeginOK ==
  ASSUME NEW n \in Nat, NEW q \in Request, q.att = 0, q.asg \in AssignmentIds,
         q.pc \notin SavesAttempt \cup {"submit:attempt"}
  PROVE  HandlerOK(q, n)
BY DEF HandlerOK

LEMMA BeginsAreRequests ==
  ASSUME NEW a \in AssignmentIds, NEW pc \in PcValues, NEW due \in Time,
         NEW k \in Nat, NEW draft \in Drafts
  PROVE  /\ [Idle EXCEPT !.pc = pc, !.asg = a] \in Request
         /\ [Idle EXCEPT !.pc = pc, !.asg = a, !.due = due] \in Request
         /\ [Idle EXCEPT !.pc = pc, !.asg = a, !.att = k, !.draft = draft] \in Request
<1>1. Idle \in Request
  BY IdleOK DEF HandlerOK
<1> QED
  BY <1>1 DEF Request

LEMMA BeginSaveOK ==
  ASSUME NEW n \in Nat, NEW k \in 1..n, NEW row \in AttemptRow,
         NEW draft \in Drafts, NEW pc \in SavesAttempt
  PROVE  HandlerOK([Idle EXCEPT !.pc = pc, !.asg = row.asg, !.att = k,
                                !.row = row, !.draft = draft], n)
<1> DEFINE q == [Idle EXCEPT !.pc = pc, !.asg = row.asg, !.att = k, !.row = row,
                             !.draft = draft]
<1>1. Idle \in Request
  BY IdleOK DEF HandlerOK
<1>2. pc \in PcValues /\ row.asg \in AssignmentIds /\ k \in Nat
  BY DEF PcValues, SavesAttempt, AttemptRow
<1>3. q \in Request
  <2>1. \A t \in Request, p \in PcValues, a \in AssignmentIds, d \in Drafts :
           [t EXCEPT !.pc = p, !.asg = a, !.draft = d] \in Request
    BY DEF Request
  <2>2. \A t \in Request, i \in Nat, w \in AttemptRow :
           [t EXCEPT !.att = i, !.row = w] \in Request
    BY DEF Request
  <2>3. q = [[Idle EXCEPT !.pc = pc, !.asg = row.asg, !.draft = draft]
                  EXCEPT !.att = k, !.row = row]
    OBVIOUS
  <2> HIDE DEF q
  <2> QED
    BY <1>1, <1>2, <2>1, <2>2, <2>3
<1>4. q.pc = pc /\ q.asg = row.asg /\ q.att = k /\ q.row = row
  BY DEF Idle
<1> HIDE DEF q
<1>5. HandlerOK(q, n)
  BY <1>2, <1>3, <1>4 DEF HandlerOK, SavesAttempt, MaySubmit
<1> QED
  BY <1>5 DEF q

LEMMA LoadOK ==
  ASSUME NEW n \in Nat, NEW q, HandlerOK(q, n), q.pc # "idle",
         NEW k \in 1..n, NEW row \in AttemptRow,
         NEW pc \in SavesAttempt \cup {"submit:check"}
  PROVE  HandlerOK([q EXCEPT !.pc = pc, !.att = k, !.row = row], n)
<1> DEFINE q2 == [q EXCEPT !.pc = pc, !.att = k, !.row = row]
<1>1. q \in Request /\ q.asg \in AssignmentIds
  BY DEF HandlerOK
<1>2. pc \in PcValues /\ k \in Nat
  BY DEF PcValues, SavesAttempt
<1>3. q2 \in Request
  <2>1. \A t \in Request, p \in PcValues, i \in Nat, w \in AttemptRow :
           [t EXCEPT !.pc = p, !.att = i, !.row = w] \in Request
    BY DEF Request
  <2> QED
    BY <1>1, <1>2, <2>1
<1>4. q2.pc = pc /\ q2.att = k /\ q2.row = row /\ q2.asg = q.asg
  BY <1>1 DEF Request
<1> HIDE DEF q2
<1>5. HandlerOK(q2, n)
  BY <1>1, <1>3, <1>4 DEF HandlerOK, SavesAttempt
<1> QED
  BY <1>5 DEF q2

\* What a save writes over a stored row is a row.
LEMMA RowsAreRows ==
  ASSUME NEW stored \in AttemptRow, NEW loaded \in AttemptRow, NEW draft \in Drafts
  PROVE  /\ SavedRow(stored, loaded, draft) \in AttemptRow
         /\ LockedRow(stored, loaded, draft) \in AttemptRow
         /\ ReopenedRow(stored, loaded) \in AttemptRow
         /\ RevivedRow(stored, loaded) \in AttemptRow
         /\ SubmittedRow(stored, loaded, draft) \in AttemptRow
<1>2. /\ stored.draft \in Drafts /\ loaded.draft \in Drafts
      /\ stored.status \in Statuses /\ loaded.status \in Statuses
      /\ stored.incidents \in Nat /\ loaded.incidents \in Nat
      /\ stored.reopens \in Nat /\ loaded.reopens \in Nat
      /\ stored.submitted \in BOOLEAN
      /\ \A st \in {"ACTIVE", "LOCKED", "SUBMITTED"} : st \in Statuses
  BY DEF AttemptRow, Statuses
<1>3. /\ \A st \in Statuses : Write(stored.status, loaded.status, st) \in Statuses
      /\ Write(stored.draft, loaded.draft, draft) \in Drafts
      /\ Write(stored.incidents, loaded.incidents, loaded.incidents + 1) \in Nat
      /\ Write(stored.reopens, loaded.reopens, loaded.reopens + 1) \in Nat
  BY <1>2 DEF Write
<1>4. \A st \in Statuses : [stored EXCEPT !.status = st] \in AttemptRow
  BY DEF AttemptRow
<1>5. \A d \in Drafts, st \in Statuses :
         [stored EXCEPT !.draft = d, !.status = st] \in AttemptRow
  BY DEF AttemptRow
<1>6. \A d \in Drafts, st \in Statuses :
         [stored EXCEPT !.draft = d, !.status = st, !.submitted = TRUE] \in AttemptRow
  BY DEF AttemptRow
<1>7. \A d \in Drafts, st \in Statuses, i \in Nat :
         [stored EXCEPT !.draft = d, !.status = st, !.incidents = i] \in AttemptRow
  BY DEF AttemptRow
<1>8. \A st \in Statuses, i \in Nat :
         [stored EXCEPT !.status = st, !.reopens = i] \in AttemptRow
  BY DEF AttemptRow
<1> QED
  BY <1>2, <1>3, <1>4, <1>5, <1>6, <1>7, <1>8
     DEF SavedRow, LockedRow, ReopenedRow, RevivedRow, SubmittedRow

----------------------------------------------------------------------------
LEMMA InitTypeInv == Init => TypeInv
<1> SUFFICES ASSUME Init PROVE TypeInv
  OBVIOUS
<1>1. TablesTypeOK
  BY TablesAssumption, ApiAssumption
     DEF Init, TablesInit, TablesTypeOK, GroupRow, Time
<1>2. \A n \in Nat : HandlerOK(Idle, n) /\ Idle \in Request
  BY IdleOK DEF HandlerOK
<1>3. HandlersOK(reqs, 0) /\ Len(attempts) = 0
  BY <1>2 DEF Init, TablesInit, HandlersOK
<1> QED
  BY <1>1, <1>3 DEF TypeInv

\* A handler that moves and writes nothing.
LEMMA ReadStep ==
  ASSUME TypeInv, UNCHANGED tables, NEW r \in Requests,
         NEW q, HandlerOK(q, Len(attempts))
  PROVE  reqs' = [reqs EXCEPT ![r] = q] => TypeInv'
<1>1. Len(attempts) \in Nat
  BY AttemptsAreRows DEF TypeInv
<1>2. HandlersOK([reqs EXCEPT ![r] = q], Len(attempts))
  BY <1>1, OneHandlerMoves DEF TypeInv
<1>3. TablesTypeOK' /\ Len(attempts)' = Len(attempts)
  BY DEF TypeInv, TablesTypeOK, tables, Time
<1> QED
  BY <1>2, <1>3 DEF TypeInv

LEMMA ReturnStep ==
  ASSUME TypeInv, UNCHANGED tables, NEW r \in Requests, Return(r)
  PROVE  TypeInv'
<1>1. HandlerOK(Idle, Len(attempts))
  BY IdleOK, AttemptsAreRows DEF TypeInv
<1> QED
  BY <1>1, ReadStep DEF Return

(***************************************************************************)
(* A save that replaces the row of the handler's attempt by another row.   *)
(***************************************************************************)
LEMMA SaveRowStep ==
  ASSUME TypeInv, NEW r \in Requests, reqs[r].pc \in SavesAttempt,
         NEW row \in AttemptRow, SaveRow(r, row)
  PROVE  TypeInv'
<1>1. reqs[r].att \in 1..Len(attempts) /\ Len(attempts) \in Nat
  BY AttemptsAreRows DEF TypeInv, HandlersOK, HandlerOK
<1>2. attempts' \in Seq(AttemptRow) /\ Len(attempts)' = Len(attempts)
  BY <1>1 DEF SaveRow, TypeInv, TablesTypeOK
<1>3. TablesTypeOK'
  BY <1>2 DEF SaveRow, TypeInv, TablesTypeOK, Time
<1>4. HandlersOK([reqs EXCEPT ![r] = Idle], Len(attempts))
  BY <1>1, IdleOK, OneHandlerMoves DEF TypeInv
<1> QED
  BY <1>2, <1>3, <1>4 DEF TypeInv, SaveRow, Return

----------------------------------------------------------------------------
(***************************************************************************)
(* Each action preserves the type invariant.                               *)
(***************************************************************************)
LEMMA ArriveTypeInv ==
  ASSUME TypeInv, NEW r \in Requests, Arrive(r)
  PROVE  TypeInv'
<1>0. /\ Len(attempts) \in Nat
      /\ AttemptIds = 1..Len(attempts)
      /\ \A k \in AttemptIds : attempts[k] \in AttemptRow
      /\ assignments \subseteq AssignmentIds
      /\ Answers \subseteq Drafts /\ NoDraft \in Drafts
      /\ group.deadline \in Time /\ 0 \in Time
  BY TablesAssumption, AttemptsAreRows DEF TypeInv, TablesTypeOK, GroupRow, Drafts, Time
<1>1. ASSUME NEW a, CreateOrGetAttempt(r, a)
      PROVE  TypeInv'
  <2> DEFINE q == [Idle EXCEPT !.pc = "create:find", !.asg = a]
  <2>1. q \in Request /\ q.pc = "create:find" /\ q.asg = a /\ q.att = 0
    BY <1>0, <1>1, BeginsAreRequests DEF CreateOrGetAttempt, Idle, PcValues
  <2>2. reqs' = [reqs EXCEPT ![r] = q] /\ UNCHANGED tables /\ a \in AssignmentIds
    BY <1>0, <1>1 DEF CreateOrGetAttempt, Begin
  <2> HIDE DEF q
  <2> QED
    BY <1>0, <2>1, <2>2, BeginOK, ReadStep DEF SavesAttempt
<1>2. ASSUME NEW a, GetCurrentAttempt(r, a)
      PROVE  TypeInv'
  <2> DEFINE q == [Idle EXCEPT !.pc = "current:hasSubmit", !.asg = a]
  <2>1. q \in Request /\ q.pc = "current:hasSubmit" /\ q.asg = a /\ q.att = 0
    BY <1>0, <1>2, BeginsAreRequests DEF GetCurrentAttempt, Idle, PcValues
  <2>2. reqs' = [reqs EXCEPT ![r] = q] /\ UNCHANGED tables /\ a \in AssignmentIds
    BY <1>0, <1>2 DEF GetCurrentAttempt, Begin
  <2> HIDE DEF q
  <2> QED
    BY <1>0, <2>1, <2>2, BeginOK, ReadStep DEF SavesAttempt
<1>3. ASSUME NEW a, ReopenStudentAttempt(r, a)
      PROVE  TypeInv'
  <2> DEFINE q == [Idle EXCEPT !.pc = "reopen:find", !.asg = a, !.due = group.deadline]
  <2>1. q \in Request /\ q.pc = "reopen:find" /\ q.asg = a /\ q.att = 0
    BY <1>0, <1>3, BeginsAreRequests DEF ReopenStudentAttempt, Idle, PcValues
  <2>2. reqs' = [reqs EXCEPT ![r] = q] /\ UNCHANGED tables /\ a \in AssignmentIds
    BY <1>0, <1>3 DEF ReopenStudentAttempt
  <2> HIDE DEF q
  <2> QED
    BY <1>0, <2>1, <2>2, BeginOK, ReadStep DEF SavesAttempt
<1>4. ASSUME NEW k \in AttemptIds, NEW draft \in Drafts, NEW pc \in SavesAttempt,
             BeginSave(r, pc, k, draft), UNCHANGED tables
      PROVE  TypeInv'
  BY <1>0, <1>4, BeginSaveOK, ReadStep DEF BeginSave
<1>5. ASSUME NEW k \in AttemptIds, ReopenAttempt(r, k)
      PROVE  TypeInv'
  BY <1>0, <1>4, <1>5 DEF ReopenAttempt, SavesAttempt
<1>6. ASSUME NEW k \in AttemptIds, NEW d \in Answers, SaveDraft(r, k, d)
      PROVE  TypeInv'
  BY <1>0, <1>4, <1>6 DEF SaveDraft, SavesAttempt
<1>7. ASSUME NEW k \in AttemptIds, NEW d \in Answers, LockAttempt(r, k, d)
      PROVE  TypeInv'
  BY <1>0, <1>4, <1>7 DEF LockAttempt, SavesAttempt
<1>8. ASSUME NEW a, NEW k \in AttemptIds \cup {0}, NEW d \in Answers, Submit(r, a, k, d)
      PROVE  TypeInv'
  <2> DEFINE pc == IF k = 0 THEN "submit:check" ELSE "submit:attempt"
             q  == [Idle EXCEPT !.pc = pc, !.asg = a, !.att = k, !.draft = d]
  <2>1. /\ k \in 0..Len(attempts) /\ k \in Nat /\ pc \in PcValues /\ d \in Drafts
        /\ a \in AssignmentIds
    BY <1>0, <1>8 DEF Submit, PcValues
  <2>2. q \in Request
    BY <1>0, <2>1, BeginsAreRequests
  <2>3. q.pc = pc /\ q.asg = a /\ q.att = k
    BY DEF Idle
  <2>4. reqs' = [reqs EXCEPT ![r] = q] /\ UNCHANGED tables
    BY <1>8 DEF Submit
  <2>5. q.att # 0 => q.pc = "submit:attempt"
    BY <2>3
  <2>6. /\ q.pc \in {"submit:check", "submit:attempt"}
        /\ q.pc = "submit:attempt" => q.att # 0
    BY <2>3
  <2> HIDE DEF q, pc
  <2>7. HandlerOK(q, Len(attempts))
    BY <2>1, <2>2, <2>3, <2>5, <2>6 DEF HandlerOK, SavesAttempt, MaySubmit
  <2> QED
    BY <2>4, <2>7, ReadStep
<1> QED
  BY <1>1, <1>2, <1>3, <1>5, <1>6, <1>7, <1>8 DEF Arrive

\* A handler that goes on without loading an attempt, and writes nothing.
LEMMA MoveStep ==
  ASSUME TypeInv, UNCHANGED tables, NEW r \in Requests, reqs[r].pc # "idle",
         NEW q \in Request, q.att = reqs[r].att, q.asg = reqs[r].asg,
         q.pc \notin SavesAttempt \cup MaySubmit \cup {"submit:attempt"}
  PROVE  reqs' = [reqs EXCEPT ![r] = q] => TypeInv'
<1>1. Len(attempts) \in Nat /\ HandlerOK(reqs[r], Len(attempts))
  BY AttemptsAreRows DEF TypeInv, HandlersOK
<1>2. HandlerOK(q, Len(attempts))
  BY <1>1, MoveOK
<1> QED
  BY <1>2, ReadStep

LEMMA GotoStep ==
  ASSUME TypeInv, UNCHANGED tables, NEW r \in Requests, reqs[r].pc # "idle",
         NEW pc \in PcValues \ (SavesAttempt \cup MaySubmit \cup {"submit:attempt"}),
         Goto(r, pc)
  PROVE  TypeInv'
<1>1. Len(attempts) \in Nat /\ HandlerOK(reqs[r], Len(attempts))
  BY AttemptsAreRows DEF TypeInv, HandlersOK
<1>2. HandlerOK([reqs[r] EXCEPT !.pc = pc], Len(attempts))
  BY <1>1, GotoOK
<1> QED
  BY <1>2, ReadStep DEF Goto

LEMMA LoadStep ==
  ASSUME TypeInv, UNCHANGED tables, NEW r \in Requests, reqs[r].pc # "idle",
         NEW k \in AttemptIds, NEW pc \in SavesAttempt \cup {"submit:check"},
         Load(r, pc, k)
  PROVE  TypeInv'
<1>1. /\ Len(attempts) \in Nat /\ HandlerOK(reqs[r], Len(attempts))
      /\ k \in 1..Len(attempts) /\ attempts[k] \in AttemptRow
  BY AttemptsAreRows DEF TypeInv, HandlersOK
<1>2. HandlerOK([reqs[r] EXCEPT !.pc = pc, !.att = k, !.row = attempts[k]], Len(attempts))
  BY <1>1, LoadOK
<1> QED
  BY <1>2, ReadStep DEF Load

\* The three actions that write something else than one attempt's row.
LEMMA InsertTypeInv ==
  ASSUME TypeInv, NEW r \in Requests, InsertAttempt(r)
  PROVE  TypeInv'
<1>1. /\ Len(attempts) \in Nat /\ attempts \in Seq(AttemptRow)
      /\ reqs[r].asg \in AssignmentIds /\ reqs[r].stamp \in Nat
  BY AttemptsAreRows
     DEF TypeInv, TablesTypeOK, HandlersOK, HandlerOK, InsertAttempt, At, Request
<1>2. NewAttempt(reqs[r].asg, reqs[r].stamp) \in AttemptRow
  BY <1>1 DEF NewAttempt, AttemptRow, Statuses, Drafts
<1>3. attempts' \in Seq(AttemptRow) /\ Len(attempts)' = Len(attempts) + 1
  BY <1>1, <1>2 DEF InsertAttempt
<1>4. TablesTypeOK'
  BY <1>3 DEF InsertAttempt, TypeInv, TablesTypeOK, Time
<1>5. HandlersOK([reqs EXCEPT ![r] = Idle], Len(attempts) + 1)
  BY <1>1, IdleOK, OneHandlerMoves DEF TypeInv
<1> QED
  BY <1>3, <1>4, <1>5 DEF InsertAttempt, Return, TypeInv

LEMMA SubmitSaveTypeInv ==
  ASSUME TypeInv, NEW r \in Requests, SubmitSave(r)
  PROVE  TypeInv'
<1> DEFINE q == [reqs[r] EXCEPT !.pc = "submit:ids"]
<1>1. /\ Len(attempts) \in Nat /\ HandlerOK(reqs[r], Len(attempts))
      /\ reqs[r] \in Request /\ reqs[r].pc = "submit:save"
  BY AttemptsAreRows DEF TypeInv, HandlersOK, HandlerOK, SubmitSave, At
<1>2. /\ reqs[r].att \in Nat /\ reqs[r].asg \in AssignmentIds /\ reqs[r].draft \in Drafts
  BY <1>1 DEF Request, HandlerOK
<1>3. submits' \subseteq SubmitRow
  BY <1>2 DEF SubmitSave, SubmitRow, TypeInv, TablesTypeOK
<1>4. attempts' \in Seq(AttemptRow) /\ Len(attempts)' = Len(attempts)
  <2>1. CASE reqs[r].att = 0
    BY <2>1 DEF SubmitSave, TypeInv, TablesTypeOK
  <2>2. CASE reqs[r].att # 0
    <3>1. reqs[r].att \in 1..Len(attempts) /\ reqs[r].row \in AttemptRow
      BY <1>1, <2>2 DEF HandlerOK, MaySubmit
    <3>2. Stored(r) \in AttemptRow
      BY <3>1, AttemptsAreRows DEF Stored, TypeInv
    <3>3. SubmittedRow(Stored(r), reqs[r].row, reqs[r].draft) \in AttemptRow
      BY <1>2, <3>1, <3>2, RowsAreRows
    <3>4. attempts' = [attempts EXCEPT ![reqs[r].att] =
                         SubmittedRow(Stored(r), reqs[r].row, reqs[r].draft)]
      BY <2>2 DEF SubmitSave, Stored
    <3> QED
      BY <1>1, <3>1, <3>3, <3>4 DEF TypeInv, TablesTypeOK
  <2> QED
    BY <2>1, <2>2
<1>5. TablesTypeOK'
  BY <1>3, <1>4 DEF SubmitSave, TypeInv, TablesTypeOK, Time
<1>6. HandlerOK(q, Len(attempts))
  BY <1>1, GotoOK DEF PcValues, SavesAttempt, MaySubmit
<1>7. reqs' = [reqs EXCEPT ![r] = q]
  BY DEF SubmitSave, Goto
<1> HIDE DEF q
<1>8. HandlersOK([reqs EXCEPT ![r] = q], Len(attempts))
  BY <1>1, <1>6, OneHandlerMoves DEF TypeInv
<1> QED
  BY <1>4, <1>5, <1>7, <1>8 DEF TypeInv

LEMMA SubmitCompleteTypeInv ==
  ASSUME TypeInv, NEW r \in Requests, SubmitComplete(r)
  PROVE  TypeInv'
<1>1. group' \in GroupRow
  BY DEF SubmitComplete, TypeInv, TablesTypeOK, GroupRow
<1>2. TablesTypeOK' /\ Len(attempts)' = Len(attempts) /\ Len(attempts) \in Nat
  BY <1>1, AttemptsAreRows DEF SubmitComplete, TypeInv, TablesTypeOK, Time
<1>3. HandlersOK([reqs EXCEPT ![r] = Idle], Len(attempts))
  BY <1>2, IdleOK, OneHandlerMoves DEF TypeInv
<1> QED
  BY <1>2, <1>3 DEF SubmitComplete, Return, TypeInv

LEMMA ProceedTypeInv ==
  ASSUME TypeInv, NEW r \in Requests, Proceed(r)
  PROVE  TypeInv'
<1>0. /\ reqs[r] \in Request
      /\ HandlerOK(reqs[r], Len(attempts))
      /\ Len(attempts) \in Nat /\ AttemptIds = 1..Len(attempts)
      /\ \A k \in AttemptIds : attempts[k] \in AttemptRow
  BY AttemptsAreRows DEF TypeInv, HandlersOK
<1>1. CASE CreateFind(r)
  BY <1>1, ReturnStep, GotoStep DEF CreateFind, At, PcValues, SavesAttempt, MaySubmit
<1>2. CASE CreateHasSubmit(r)
  BY <1>2, ReturnStep, GotoStep DEF CreateHasSubmit, At, PcValues, SavesAttempt, MaySubmit
<1>3. CASE NumberAttempt(r)
  <2>1. PICK st \in Nat :
           reqs' = [reqs EXCEPT ![r] = [reqs[r] EXCEPT !.pc = "insert", !.stamp = st]]
    <3>1. Cardinality(Requests) \in Nat /\ MaxAttempts \in Nat
      BY ApiAssumption, TablesAssumption, FS_CardinalityType
    <3>2. PICK st \in 1..(MaxAttempts + Cardinality(Requests)) :
             reqs' = [reqs EXCEPT ![r].pc = "insert", ![r].stamp = st]
      BY <1>3 DEF NumberAttempt
    <3>3. st \in Nat
      BY <3>1
    <3>4. reqs' = [reqs EXCEPT ![r] = [reqs[r] EXCEPT !.pc = "insert", !.stamp = st]]
      BY <3>2
    <3> QED
      BY <3>3, <3>4
  <2> DEFINE q == [reqs[r] EXCEPT !.pc = "insert", !.stamp = st]
  <2>2. /\ q \in Request /\ q.pc = "insert"
        /\ q.att = reqs[r].att /\ q.asg = reqs[r].asg
    BY <1>0 DEF Request, PcValues
  <2> HIDE DEF q
  <2> QED
    BY <1>3, <2>1, <2>2, MoveStep DEF NumberAttempt, At, SavesAttempt, MaySubmit, q
<1>4. CASE InsertAttempt(r)
  BY <1>4, InsertTypeInv
<1>5. CASE CurrentHasSubmit(r)
  <2> DEFINE q == [reqs[r] EXCEPT !.pc = "current:find", !.has = HasSubmit(reqs[r].asg)]
  <2>1. HasSubmit(reqs[r].asg) \in BOOLEAN
    BY DEF HasSubmit
  <2>2. /\ q \in Request /\ q.pc = "current:find"
        /\ q.att = reqs[r].att /\ q.asg = reqs[r].asg
    BY <1>0, <2>1 DEF Request, PcValues
  <2>3. reqs' = [reqs EXCEPT ![r] = q]
    BY <1>5 DEF CurrentHasSubmit
  <2> HIDE DEF q
  <2> QED
    BY <1>5, <2>2, <2>3, MoveStep DEF CurrentHasSubmit, At, SavesAttempt, MaySubmit
<1>6. CASE CurrentFindNone(r)
  BY <1>6, ReturnStep, GotoStep DEF CurrentFindNone, At, PcValues, SavesAttempt, MaySubmit
<1>7. CASE CurrentFind(r)
  BY <1>7, ReturnStep, LoadStep DEF CurrentFind, At, SavesAttempt
<1>8. ASSUME reqs[r].pc \in SavesAttempt
      PROVE  /\ Stored(r) \in AttemptRow /\ reqs[r].row \in AttemptRow
             /\ reqs[r].draft \in Drafts
             /\ \A row \in AttemptRow : SaveRow(r, row) => TypeInv'
  <2>1. reqs[r].att \in AttemptIds /\ reqs[r].row \in AttemptRow /\ reqs[r].draft \in Drafts
    BY <1>0, <1>8 DEF HandlerOK, Request
  <2> QED
    BY <1>0, <1>8, <2>1, SaveRowStep DEF Stored
<1>9. CASE ReviveAttempt(r)
  BY <1>8, <1>9, RowsAreRows DEF ReviveAttempt, At, SavesAttempt
<1>10. CASE SaveDraftSave(r)
  BY <1>8, <1>10, RowsAreRows DEF SaveDraftSave, At, SavesAttempt
<1>11. CASE LockSave(r)
  BY <1>8, <1>11, RowsAreRows DEF LockSave, At, SavesAttempt
<1>12. CASE ReopenCheck(r)
  <2> DEFINE q == [reqs[r] EXCEPT !.pc = "reopen:save"]
  <2>1. reqs[r].pc = "reopen:check" /\ UNCHANGED tables
    BY <1>12 DEF ReopenCheck, At
  <2>2. HandlerOK(q, Len(attempts))
    BY <1>0, <2>1 DEF HandlerOK, Request, PcValues, SavesAttempt, MaySubmit
  <2>3. Return(r) \/ reqs' = [reqs EXCEPT ![r] = q]
    BY <1>12 DEF ReopenCheck, Goto
  <2> HIDE DEF q
  <2> QED
    BY <2>1, <2>2, <2>3, ReturnStep, ReadStep
<1>13. CASE ReopenFindNone(r)
  BY <1>13, ReturnStep DEF ReopenFindNone
<1>14. CASE ReopenFind(r)
  BY <1>14, ReturnStep, LoadStep DEF ReopenFind, At, SavesAttempt
<1>15. CASE ReopenSave(r)
  BY <1>8, <1>15, RowsAreRows DEF ReopenSave, At, SavesAttempt
<1>16. CASE SubmitLoadAttempt(r)
  <2>1. reqs[r].att \in AttemptIds /\ reqs[r].pc # "idle"
    BY <1>0, <1>16 DEF HandlerOK, SubmitLoadAttempt, At
  <2> QED
    BY <1>16, <2>1, ReturnStep, LoadStep DEF SubmitLoadAttempt
<1>17. CASE SubmitCheck(r)
  <2> DEFINE q == [reqs[r] EXCEPT !.pc = "submit:save"]
  <2>1. reqs[r].pc = "submit:check" /\ UNCHANGED tables
    BY <1>17 DEF SubmitCheck, At
  <2>2. HandlerOK(q, Len(attempts))
    BY <1>0, <2>1 DEF HandlerOK, Request, PcValues, SavesAttempt, MaySubmit
  <2>3. Return(r) \/ reqs' = [reqs EXCEPT ![r] = q]
    BY <1>17 DEF SubmitCheck, Goto
  <2> HIDE DEF q
  <2> QED
    BY <2>1, <2>2, <2>3, ReturnStep, ReadStep
<1>18. CASE SubmitSave(r)
  BY <1>18, SubmitSaveTypeInv
<1>19. CASE SubmitSaveRefused(r)
  BY <1>19, ReturnStep DEF SubmitSaveRefused
<1>20. CASE SubmitReadIds(r)
  <2> DEFINE q == [reqs[r] EXCEPT !.pc = "submit:count", !.ids = assignments]
  <2>1. assignments \subseteq AssignmentIds
    BY DEF TypeInv, TablesTypeOK
  <2>2. /\ q \in Request /\ q.pc = "submit:count"
        /\ q.att = reqs[r].att /\ q.asg = reqs[r].asg
    BY <1>0, <2>1 DEF Request, PcValues
  <2>3. reqs' = [reqs EXCEPT ![r] = q]
    BY <1>20 DEF SubmitReadIds
  <2> HIDE DEF q
  <2> QED
    BY <1>20, <2>2, <2>3, MoveStep DEF SubmitReadIds, At, SavesAttempt, MaySubmit
<1>21. CASE SubmitCount(r)
  BY <1>21, ReturnStep, GotoStep DEF SubmitCount, At, PcValues, SavesAttempt, MaySubmit
<1>22. CASE SubmitComplete(r)
  BY <1>22, SubmitCompleteTypeInv
<1> QED
  BY <1>1, <1>2, <1>3, <1>4, <1>5, <1>6, <1>7, <1>9, <1>10, <1>11, <1>12, <1>13, <1>14,
     <1>15, <1>16, <1>17, <1>18, <1>19, <1>20, <1>21, <1>22 DEF Proceed, SaveSubmission

LEMMA NextTypeInv == TypeInv /\ [Next]_vars => TypeInv'
<1> SUFFICES ASSUME TypeInv, [Next]_vars PROVE TypeInv'
  OBVIOUS
<1>1. ASSUME NEW r \in Requests, Fail(r) PROVE TypeInv'
  BY <1>1, ReturnStep DEF Fail
<1>2. CASE Tick /\ UNCHANGED reqs
  BY <1>2, TablesAssumption DEF Tick, TypeInv, TablesTypeOK, Time
<1>3. CASE UNCHANGED vars
  BY <1>3 DEF vars, TypeInv, TablesTypeOK, Time
<1> QED
  BY <1>1, <1>2, <1>3, ArriveTypeInv, ProceedTypeInv DEF Next

(***************************************************************************)
(* Whatever interleaving, crashes included, every table and every handler  *)
(* keeps its type.                                                         *)
(***************************************************************************)
THEOREM TypeCorrect == Spec => []TypeOK
<1>1. TypeInv => TypeOK
  BY DEF TypeInv, TypeOK, HandlersOK
<1> QED
  BY <1>1, InitTypeInv, NextTypeInv, PTL DEF Spec

----------------------------------------------------------------------------
(***************************************************************************)
(* The submitted mark and the submit row of an attempt.                    *)
(***************************************************************************)

\* The saves of one attempt's row, other than Submit's.
RowSave(r) ==
  ReviveAttempt(r) \/ SaveDraftSave(r) \/ LockSave(r) \/ ReopenSave(r)

(***************************************************************************)
(* All that steps do to the attempts and the submit rows.                  *)
(***************************************************************************)
LEMMA StepKinds ==
  ASSUME [Next]_vars
  PROVE  \/ UNCHANGED << attempts, submits >>
         \/ \E r \in Requests : RowSave(r) \/ InsertAttempt(r) \/ SubmitSave(r)
<1>1. ASSUME NEW r \in Requests, Arrive(r) PROVE UNCHANGED << attempts, submits >>
  BY <1>1 DEF Arrive, CreateOrGetAttempt, GetCurrentAttempt, ReopenStudentAttempt,
              ReopenAttempt, SaveDraft, LockAttempt, Submit, tables
<1>2. ASSUME NEW r \in Requests, Proceed(r)
      PROVE  \/ UNCHANGED << attempts, submits >>
             \/ RowSave(r) \/ InsertAttempt(r) \/ SubmitSave(r)
  BY <1>2 DEF Proceed, SaveSubmission, CreateFind, CreateHasSubmit, NumberAttempt, CurrentHasSubmit,
              CurrentFindNone, CurrentFind, ReopenCheck, ReopenFindNone, ReopenFind,
              SubmitLoadAttempt, SubmitCheck, SubmitSaveRefused, SubmitReadIds,
              SubmitCount, SubmitComplete, RowSave, tables
<1> QED
  BY <1>1, <1>2 DEF Next, vars, Fail, Tick, tables

\* The rows these saves write, compared with the stored row.
KeepsMark(row, stored) ==
  /\ row.asg = stored.asg
  /\ row.submitted = stored.submitted
  /\ row.status = "SUBMITTED" => stored.status = "SUBMITTED"

LEMMA RowsKeepMark ==
  ASSUME NEW stored \in AttemptRow, NEW loaded, NEW draft
  PROVE  /\ KeepsMark(SavedRow(stored, loaded, draft), stored)
         /\ KeepsMark(LockedRow(stored, loaded, draft), stored)
         /\ KeepsMark(ReopenedRow(stored, loaded), stored)
         /\ KeepsMark(RevivedRow(stored, loaded), stored)
<1>1. \A a, b : /\ Write(a, b, "ACTIVE") = a \/ Write(a, b, "ACTIVE") = "ACTIVE"
                /\ Write(a, b, "LOCKED") = a \/ Write(a, b, "LOCKED") = "LOCKED"
  BY DEF Write
<1>2. \A st, d : KeepsMark([stored EXCEPT !.draft = d, !.status = st], stored) <=>
                  (st = "SUBMITTED" => stored.status = "SUBMITTED")
  BY DEF KeepsMark, AttemptRow
<1>3. \A st, d, i : KeepsMark([stored EXCEPT !.draft = d, !.status = st, !.incidents = i],
                              stored) <=>
                     (st = "SUBMITTED" => stored.status = "SUBMITTED")
  BY DEF KeepsMark, AttemptRow
<1>4. \A st, i : KeepsMark([stored EXCEPT !.status = st, !.reopens = i], stored) <=>
                  (st = "SUBMITTED" => stored.status = "SUBMITTED")
  BY DEF KeepsMark, AttemptRow
<1>5. \A st : KeepsMark([stored EXCEPT !.status = st], stored) <=>
               (st = "SUBMITTED" => stored.status = "SUBMITTED")
  BY DEF KeepsMark, AttemptRow
<1> QED
  BY <1>1, <1>2, <1>3, <1>4, <1>5 DEF SavedRow, LockedRow, ReopenedRow, RevivedRow

\* A save other than Submit's neither sets the mark nor the status SUBMITTED.
LEMMA RowSaveKeepsMark ==
  ASSUME TypeInv, NEW r \in Requests, RowSave(r)
  PROVE  /\ submits' = submits /\ Len(attempts)' = Len(attempts)
         /\ Len(attempts) \in Nat
         /\ \A k \in AttemptIds :
               /\ attempts'[k].asg = attempts[k].asg
               /\ attempts'[k].submitted = attempts[k].submitted
               /\ attempts'[k].status = "SUBMITTED" => attempts[k].status = "SUBMITTED"
<1>0. reqs[r].pc \in SavesAttempt
  BY DEF RowSave, ReviveAttempt, SaveDraftSave, LockSave, ReopenSave, At, SavesAttempt
<1>1. reqs[r].att \in AttemptIds /\ AttemptIds = 1..Len(attempts)
      /\ Stored(r) \in AttemptRow /\ Len(attempts) \in Nat
  BY <1>0, AttemptsAreRows DEF TypeInv, HandlersOK, HandlerOK, Stored
<1>2. PICK row : SaveRow(r, row) /\ KeepsMark(row, Stored(r))
  BY <1>1, RowsKeepMark DEF RowSave, ReviveAttempt, SaveDraftSave, LockSave, ReopenSave
<1>3. attempts' = [attempts EXCEPT ![reqs[r].att] = row] /\ submits' = submits
  BY <1>2 DEF SaveRow
<1>4. attempts \in Seq(AttemptRow)
  BY DEF TypeInv, TablesTypeOK
<1>5. Len(attempts)' = Len(attempts)
  BY <1>1, <1>3, <1>4
<1>6. \A k \in AttemptIds :
         attempts'[k] = IF k = reqs[r].att THEN row ELSE attempts[k]
  BY <1>1, <1>3, <1>4
<1> QED
  BY <1>1, <1>2, <1>3, <1>5, <1>6 DEF Stored, KeepsMark

(***************************************************************************)
(* A submit row refers to an attempt that exists, so that the mark of an   *)
(* attempt that is inserted later starts right.                            *)
(***************************************************************************)
SubmitsReferToAttempts == \A s \in submits : s.att \in 0..Len(attempts)

MarkInv == TypeInv /\ SubmitsReferToAttempts /\ SubmittedMeansRow

LEMMA InsertMark ==
  ASSUME MarkInv, NEW r \in Requests, InsertAttempt(r)
  PROVE  SubmitsReferToAttempts' /\ SubmittedMeansRow'
<1> DEFINE new == NewAttempt(reqs[r].asg, reqs[r].stamp)
           n   == Len(attempts)
<1>1. n \in Nat /\ AttemptIds = 1..n /\ attempts \in Seq(AttemptRow)
  BY AttemptsAreRows DEF MarkInv, TypeInv, TablesTypeOK
<1>2. submits' = submits /\ attempts' = Append(attempts, new)
  BY DEF InsertAttempt
<1>3. new.submitted = FALSE /\ new.status = "ACTIVE"
  BY DEF NewAttempt
<1> HIDE DEF new
<1>4. /\ Len(attempts') = n + 1 /\ DOMAIN attempts' = 1..(n + 1)
      /\ attempts'[n + 1] = new
      /\ \A k \in 1..n : attempts'[k] = attempts[k]
  BY <1>1, <1>2
<1>5. \A s \in submits : s.att \in 0..n
  BY DEF MarkInv, SubmitsReferToAttempts
<1>6. \A s \in submits : s.att # n + 1
  BY <1>1, <1>5
<1>7. SubmitsReferToAttempts'
  BY <1>1, <1>2, <1>4, <1>5 DEF SubmitsReferToAttempts
<1>8. \A k \in 1..(n + 1) : k \in 1..n \/ k = n + 1
  BY <1>1
<1> QED
  BY <1>1, <1>2, <1>3, <1>4, <1>6, <1>7, <1>8 DEF MarkInv, SubmittedMeansRow, AttemptIds

LEMMA SubmitSaveMark ==
  ASSUME MarkInv, NEW r \in Requests, SubmitSave(r)
  PROVE  SubmitsReferToAttempts' /\ SubmittedMeansRow'
<1> DEFINE k == reqs[r].att
           n == Len(attempts)
<1>1. n \in Nat /\ AttemptIds = 1..n /\ attempts \in Seq(AttemptRow) /\ k \in 0..n
  BY AttemptsAreRows DEF MarkInv, TypeInv, TablesTypeOK, HandlersOK, HandlerOK
<1>2. PICK s : submits' = submits \cup {s} /\ s.att = k
  <2>1. PICK i : submits' = submits \cup {[id |-> i, asg |-> reqs[r].asg, att |-> k]}
    BY DEF SubmitSave
  <2> DEFINE s == [id |-> i, asg |-> reqs[r].asg, att |-> k]
  <2>2. s.att = k
    OBVIOUS
  <2> HIDE DEF s
  <2>3. submits' = submits \cup {s}
    BY <2>1 DEF s
  <2> WITNESS s
  <2> QED
    BY <2>2, <2>3
<1>3. CASE k = 0
  <2>1. attempts' = attempts
    BY <1>3 DEF SubmitSave
  <2>2. SubmitsReferToAttempts'
    BY <1>1, <1>2, <2>1 DEF MarkInv, SubmitsReferToAttempts
  <2>3. \A j \in AttemptIds : (\E t \in submits' : t.att = j) <=> (\E t \in submits : t.att = j)
    BY <1>1, <1>2, <1>3
  <2> QED
    BY <2>1, <2>2, <2>3 DEF MarkInv, SubmittedMeansRow, AttemptIds
<1>4. CASE k # 0
  <2> DEFINE row == SubmittedRow(attempts[k], reqs[r].row, reqs[r].draft)
  <2>1. attempts' = [attempts EXCEPT ![k] = row]
    BY <1>4 DEF SubmitSave
  <2>2. row.submitted = TRUE
    BY <1>1, <1>4, AttemptsAreRows DEF SubmittedRow, AttemptRow, MarkInv, TypeInv
  <2> HIDE DEF row
  <2>3. Len(attempts') = n /\ DOMAIN attempts' = 1..n
    BY <1>1, <2>1
  <2>4. \A j \in 1..n : attempts'[j] = IF j = k THEN row ELSE attempts[j]
    BY <1>1, <2>1
  <2>5. SubmitsReferToAttempts'
    BY <1>1, <1>2, <2>3 DEF MarkInv, SubmitsReferToAttempts
  <2>6. \A j \in 1..n : j # k =>
           ((\E t \in submits' : t.att = j) <=> (\E t \in submits : t.att = j))
    BY <1>2
  <2> QED
    BY <1>1, <1>2, <2>2, <2>3, <2>4, <2>5, <2>6 DEF MarkInv, SubmittedMeansRow, AttemptIds
<1> QED
  BY <1>3, <1>4

LEMMA NextMark == MarkInv /\ [Next]_vars => MarkInv'
<1> SUFFICES ASSUME MarkInv, [Next]_vars PROVE MarkInv'
  OBVIOUS
<1>1. TypeInv'
  BY NextTypeInv DEF MarkInv
<1>2. CASE UNCHANGED << attempts, submits >>
  BY <1>1, <1>2 DEF MarkInv, SubmitsReferToAttempts, SubmittedMeansRow, AttemptIds
<1>3. ASSUME NEW r \in Requests, RowSave(r)
      PROVE  SubmitsReferToAttempts' /\ SubmittedMeansRow'
  <2>1. AttemptIds = 1..Len(attempts) /\ AttemptIds' = 1..Len(attempts)'
    BY <1>1 DEF MarkInv, TypeInv, TablesTypeOK, AttemptIds
  <2> QED
    BY <1>3, <2>1, RowSaveKeepsMark
       DEF MarkInv, SubmitsReferToAttempts, SubmittedMeansRow
<1> QED
  BY <1>1, <1>2, <1>3, InsertMark, SubmitSaveMark, StepKinds DEF MarkInv

(***************************************************************************)
(* SubmittedAt, status SUBMITTED and the submit row of an attempt go       *)
(* together in every interleaving of requests and after every crash.       *)
(***************************************************************************)
THEOREM SubmittedMeansRowAlways == Spec => []SubmittedMeansRow
<1>1. Init => MarkInv
  BY InitTypeInv
     DEF Init, TablesInit, MarkInv, SubmitsReferToAttempts, SubmittedMeansRow, AttemptIds
<1>2. MarkInv => SubmittedMeansRow
  BY DEF MarkInv
<1> QED
  BY <1>1, <1>2, NextMark, PTL DEF Spec

(***************************************************************************)
(* No step of the endpoints removes a submit row or an attempt, or moves   *)
(* an attempt to another assignment.                                       *)
(***************************************************************************)
LEMMA TablesGrow ==
  ASSUME TypeInv, [Next]_vars
  PROVE  /\ submits \subseteq submits'
         /\ AttemptIds \subseteq AttemptIds'
         /\ \A k \in AttemptIds : attempts'[k].asg = attempts[k].asg
<1> DEFINE n == Len(attempts)
<1>1. n \in Nat /\ AttemptIds = 1..n /\ attempts \in Seq(AttemptRow)
  BY AttemptsAreRows DEF TypeInv, TablesTypeOK
<1>2. AttemptIds' = 1..Len(attempts)'
  BY NextTypeInv DEF TypeInv, TablesTypeOK, AttemptIds
<1>3. CASE UNCHANGED << attempts, submits >>
  BY <1>3 DEF AttemptIds
<1>4. ASSUME NEW r \in Requests, RowSave(r)
      PROVE  /\ submits \subseteq submits' /\ AttemptIds \subseteq AttemptIds'
             /\ \A k \in AttemptIds : attempts'[k].asg = attempts[k].asg
  BY <1>1, <1>2, <1>4, RowSaveKeepsMark
<1>5. ASSUME NEW r \in Requests, InsertAttempt(r)
      PROVE  /\ submits \subseteq submits' /\ AttemptIds \subseteq AttemptIds'
             /\ \A k \in AttemptIds : attempts'[k].asg = attempts[k].asg
  <2> DEFINE new == NewAttempt(reqs[r].asg, reqs[r].stamp)
  <2>1. submits' = submits /\ attempts' = Append(attempts, new)
    BY <1>5 DEF InsertAttempt
  <2> HIDE DEF new
  <2>2. Len(attempts') = n + 1 /\ \A k \in 1..n : attempts'[k] = attempts[k]
    BY <1>1, <2>1
  <2> QED
    BY <1>1, <1>2, <2>1, <2>2
<1>6. ASSUME NEW r \in Requests, SubmitSave(r)
      PROVE  /\ submits \subseteq submits' /\ AttemptIds \subseteq AttemptIds'
             /\ \A k \in AttemptIds : attempts'[k].asg = attempts[k].asg
  <2>1. submits \subseteq submits'
    BY <1>6 DEF SubmitSave
  <2>2. CASE reqs[r].att = 0
    <3>1. attempts' = attempts
      BY <1>6, <2>2 DEF SubmitSave
    <3> QED
      BY <2>1, <3>1 DEF AttemptIds
  <2>3. CASE reqs[r].att # 0
    <3>1. PICK k \in 1..n : k = reqs[r].att
      BY <1>1, <2>3 DEF TypeInv, HandlersOK, HandlerOK
    <3> DEFINE row == SubmittedRow(attempts[k], reqs[r].row, reqs[r].draft)
    <3>2. attempts' = [attempts EXCEPT ![k] = row]
      BY <1>6, <2>3, <3>1 DEF SubmitSave
    <3>3. row.asg = attempts[k].asg
      BY <1>1, <3>1, AttemptsAreRows DEF SubmittedRow, AttemptRow, TypeInv
    <3> HIDE DEF row
    <3>4. Len(attempts)' = n
      BY <1>1, <3>2
    <3>5. \A j \in AttemptIds : attempts'[j].asg = attempts[j].asg
      BY <1>1, <3>2, <3>3
    <3> QED
      BY <1>1, <1>2, <2>1, <3>4, <3>5
  <2> QED
    BY <2>2, <2>3
<1> QED
  BY <1>3, <1>4, <1>5, <1>6, StepKinds

----------------------------------------------------------------------------
(***************************************************************************)
(* What overlapping requests can at most do: duplicate submit rows and     *)
(* duplicate attempts are bounded by the number of requests in flight at a *)
(* time.                                                                   *)
(***************************************************************************)

\* The handlers that are about to insert a submit row, or an attempt, for a.
Savers(a) == {r \in Requests : reqs[r].pc = "submit:save" /\ reqs[r].asg = a}

Creating == {"create:hasSubmit", "number", "insert"}

Creators(a) == {r \in Requests : reqs[r].pc \in Creating /\ reqs[r].asg = a}

(***************************************************************************)
(* A handler becomes one of these only while there is no submit row, or no *)
(* attempt.                                                                *)
(***************************************************************************)
MovesRightly(old, new) ==
  /\ new.pc = "submit:save" =>
        /\ old.asg = new.asg
        /\ old.pc = "submit:save" \/ ~ HasSubmit(new.asg)
  /\ new.pc \in Creating =>
        /\ old.asg = new.asg
        /\ old.pc \in Creating \/ AttemptsOf(new.asg) = {}

LEMMA OneMoves ==
  ASSUME TypeInv, NEW r \in Requests, NEW q, MovesRightly(reqs[r], q)
  PROVE  reqs' = [reqs EXCEPT ![r] = q] =>
            \A p \in Requests : MovesRightly(reqs[p], reqs'[p])
<1>1. reqs \in [Requests -> Request]
  BY DEF TypeInv, HandlersOK
<1>2. \A old : MovesRightly(old, old)
  BY DEF MovesRightly
<1> QED
  BY <1>1, <1>2

\* A handler that is to do something else next, and one that returns.
LEMMA OtherMoves ==
  ASSUME TypeInv, NEW r \in Requests,
         NEW q, q.pc # "submit:save", q.pc \notin Creating
  PROVE  reqs' = [reqs EXCEPT ![r] = q] =>
            \A p \in Requests : MovesRightly(reqs[p], reqs'[p])
<1>1. MovesRightly(reqs[r], q)
  BY DEF MovesRightly
<1> QED
  BY <1>1, OneMoves

LEMMA ReturnMoves ==
  ASSUME TypeInv, NEW r \in Requests, Return(r)
  PROVE  \A p \in Requests : MovesRightly(reqs[p], reqs'[p])
<1>1. Idle.pc = "idle"
  BY DEF Idle
<1> QED
  BY <1>1, OtherMoves DEF Return, Creating

LEMMA ArriveMoves ==
  ASSUME TypeInv, NEW r \in Requests, Arrive(r)
  PROVE  \A p \in Requests : MovesRightly(reqs[p], reqs'[p])
<1> DEFINE Right == \A p \in Requests : MovesRightly(reqs[p], reqs'[p])
<1>1. ASSUME NEW a, NEW pc \in {"create:find", "current:hasSubmit"}, Begin(r, pc, a)
      PROVE  Right
  <2>1. [Idle EXCEPT !.pc = pc, !.asg = a].pc = pc
    BY DEF Idle
  <2> QED
    BY <1>1, <2>1, OtherMoves DEF Begin, Creating
<1>2. ASSUME NEW a, ReopenStudentAttempt(r, a)
      PROVE  Right
  <2>1. [Idle EXCEPT !.pc = "reopen:find", !.asg = a, !.due = group.deadline].pc = "reopen:find"
    BY DEF Idle
  <2> QED
    BY <1>2, <2>1, OtherMoves DEF ReopenStudentAttempt, Creating
<1>3. ASSUME NEW k, NEW d, NEW pc \in SavesAttempt, BeginSave(r, pc, k, d)
      PROVE  Right
  <2> DEFINE q == [Idle EXCEPT !.pc = pc, !.asg = attempts[k].asg, !.att = k,
                               !.row = attempts[k], !.draft = d]
  <2>1. q.pc = pc
    BY DEF Idle
  <2>2. reqs' = [reqs EXCEPT ![r] = q]
    BY <1>3 DEF BeginSave
  <2> HIDE DEF q
  <2> QED
    BY <2>1, <2>2, OtherMoves DEF SavesAttempt, Creating
<1>4. ASSUME NEW a, NEW k, NEW d, Submit(r, a, k, d)
      PROVE  Right
  <2> DEFINE q == [Idle EXCEPT !.pc = IF k = 0 THEN "submit:check" ELSE "submit:attempt",
                               !.asg = a, !.att = k, !.draft = d]
  <2>1. q.pc \in {"submit:check", "submit:attempt"}
    BY DEF Idle
  <2>2. reqs' = [reqs EXCEPT ![r] = q]
    BY <1>4 DEF Submit
  <2> HIDE DEF q
  <2> QED
    BY <2>1, <2>2, OtherMoves DEF Creating
<1> HIDE DEF Right
<1>5. Right
  BY <1>1, <1>2, <1>3, <1>4
     DEF Arrive, CreateOrGetAttempt, GetCurrentAttempt, ReopenAttempt, SaveDraft,
         LockAttempt, SavesAttempt
<1> QED
  BY <1>5 DEF Right

LEMMA ProceedMoves ==
  ASSUME TypeInv, NEW r \in Requests, Proceed(r)
  PROVE  \A p \in Requests : MovesRightly(reqs[p], reqs'[p])
<1> DEFINE Right == \A p \in Requests : MovesRightly(reqs[p], reqs'[p])
<1>1. reqs[r] \in Request
  BY DEF TypeInv, HandlersOK
<1>2. ASSUME Return(r) PROVE Right
  BY <1>2, ReturnMoves
<1>3. ASSUME NEW pc, pc # "submit:save", pc \notin Creating, Goto(r, pc) PROVE Right
  <2>1. [reqs[r] EXCEPT !.pc = pc].pc = pc
    BY <1>1 DEF Request
  <2> QED
    BY <1>3, <2>1, OtherMoves DEF Goto
<1>4. ASSUME NEW pc \in Creating, Goto(r, pc),
             reqs[r].pc \in Creating \/ AttemptsOf(reqs[r].asg) = {}
      PROVE  Right
  <2> DEFINE q == [reqs[r] EXCEPT !.pc = pc]
  <2>1. q.pc = pc /\ q.asg = reqs[r].asg
    BY <1>1 DEF Request
  <2>2. reqs' = [reqs EXCEPT ![r] = q]
    BY <1>4 DEF Goto
  <2> HIDE DEF q
  <2>3. MovesRightly(reqs[r], q)
    BY <1>4, <2>1 DEF MovesRightly, Creating
  <2> QED
    BY <2>2, <2>3, OneMoves
<1>5. ASSUME NEW k, NEW pc, pc # "submit:save", pc \notin Creating, Load(r, pc, k)
      PROVE  Right
  <2> DEFINE q == [reqs[r] EXCEPT !.pc = pc, !.att = k, !.row = attempts[k]]
  <2>1. q.pc = pc
    BY <1>1 DEF Request
  <2>2. reqs' = [reqs EXCEPT ![r] = q]
    BY <1>5 DEF Load
  <2> HIDE DEF q
  <2> QED
    BY <1>5, <2>1, <2>2, OtherMoves
<1>6. CASE CreateFind(r)
  BY <1>2, <1>4, <1>6 DEF CreateFind, Creating
<1>7. CASE CreateHasSubmit(r)
  BY <1>2, <1>4, <1>7 DEF CreateHasSubmit, At, Creating
<1>8. CASE NumberAttempt(r)
  <2>1. PICK st : reqs' = [reqs EXCEPT ![r].pc = "insert", ![r].stamp = st]
    BY <1>8 DEF NumberAttempt
  <2> DEFINE q == [reqs[r] EXCEPT !.pc = "insert", !.stamp = st]
  <2>2. q.pc = "insert" /\ q.asg = reqs[r].asg
    BY <1>1 DEF Request
  <2>3. reqs' = [reqs EXCEPT ![r] = q]
    BY <2>1
  <2> HIDE DEF q
  <2>4. MovesRightly(reqs[r], q)
    BY <1>8, <2>2 DEF NumberAttempt, At, MovesRightly, Creating
  <2> QED
    BY <2>3, <2>4, OneMoves
<1>9. CASE CurrentHasSubmit(r)
  <2> DEFINE q == [reqs[r] EXCEPT !.pc = "current:find", !.has = HasSubmit(reqs[r].asg)]
  <2>1. q.pc = "current:find"
    BY <1>1 DEF Request
  <2>2. reqs' = [reqs EXCEPT ![r] = q]
    BY <1>9 DEF CurrentHasSubmit
  <2> HIDE DEF q
  <2> QED
    BY <2>1, <2>2, OtherMoves DEF Creating
<1>10. CASE CurrentFindNone(r)
  BY <1>2, <1>4, <1>10 DEF CurrentFindNone, Creating
<1>11. CASE CurrentFind(r)
  BY <1>2, <1>5, <1>11 DEF CurrentFind, Creating
<1>12. CASE ReopenCheck(r)
  BY <1>2, <1>3, <1>12 DEF ReopenCheck, Creating
<1>13. CASE ReopenFind(r)
  BY <1>2, <1>5, <1>13 DEF ReopenFind, Creating
<1>14. CASE SubmitLoadAttempt(r)
  BY <1>2, <1>5, <1>14 DEF SubmitLoadAttempt, Creating
<1>15. CASE SubmitCheck(r)
  <2> DEFINE q == [reqs[r] EXCEPT !.pc = "submit:save"]
  <2>1. q.pc = "submit:save" /\ q.asg = reqs[r].asg
    BY <1>1 DEF Request
  <2>2. Return(r) \/ (reqs' = [reqs EXCEPT ![r] = q] /\ ~ HasSubmit(reqs[r].asg))
    BY <1>15 DEF SubmitCheck, Goto
  <2> HIDE DEF q
  <2>3. ~ HasSubmit(reqs[r].asg) => MovesRightly(reqs[r], q)
    BY <2>1 DEF MovesRightly, Creating
  <2> QED
    BY <1>2, <2>2, <2>3, OneMoves
<1>16. CASE SubmitSave(r)
  BY <1>3, <1>16 DEF SubmitSave, Creating
<1>17. CASE SubmitReadIds(r)
  <2> DEFINE q == [reqs[r] EXCEPT !.pc = "submit:count", !.ids = assignments]
  <2>1. q.pc = "submit:count"
    BY <1>1 DEF Request
  <2>2. reqs' = [reqs EXCEPT ![r] = q]
    BY <1>17 DEF SubmitReadIds
  <2> HIDE DEF q
  <2> QED
    BY <2>1, <2>2, OtherMoves DEF Creating
<1>18. CASE SubmitCount(r)
  BY <1>2, <1>3, <1>18 DEF SubmitCount, Creating
<1>19. CASE \/ InsertAttempt(r) \/ ReviveAttempt(r) \/ SaveDraftSave(r) \/ LockSave(r)
            \/ ReopenFindNone(r) \/ ReopenSave(r) \/ SubmitSaveRefused(r) \/ SubmitComplete(r)
  BY <1>2, <1>19 DEF InsertAttempt, ReviveAttempt, SaveDraftSave, LockSave, ReopenFindNone,
                     ReopenSave, SubmitSaveRefused, SubmitComplete, SaveRow
<1> QED
  BY <1>6, <1>7, <1>8, <1>9, <1>10, <1>11, <1>12, <1>13, <1>14, <1>15, <1>16, <1>17, <1>18,
     <1>19 DEF Proceed, SaveSubmission

LEMMA NextMoves ==
  ASSUME TypeInv, [Next]_vars
  PROVE  \A p \in Requests : MovesRightly(reqs[p], reqs'[p])
<1>1. ASSUME NEW r \in Requests, Fail(r)
      PROVE  \A p \in Requests : MovesRightly(reqs[p], reqs'[p])
  BY <1>1, ReturnMoves DEF Fail
<1>2. CASE UNCHANGED reqs
  BY <1>2 DEF MovesRightly
<1> QED
  BY <1>1, <1>2, ArriveMoves, ProceedMoves DEF Next, vars

----------------------------------------------------------------------------
LEMMA RequestsFinite ==
  /\ IsFiniteSet(Requests) /\ Cardinality(Requests) \in Nat
  /\ \A T \in SUBSET Requests :
        /\ IsFiniteSet(T) /\ Cardinality(T) \in Nat
        /\ Cardinality(T) <= Cardinality(Requests)
BY ApiAssumption, FS_CardinalityType, FS_Subset

(***************************************************************************)
(* Once an assignment has a submit row, its rows and the handlers that are *)
(* about to add one are together no more than the requests.                *)
(***************************************************************************)
SubmitBound ==
  \A a \in AssignmentIds :
     /\ IsFiniteSet(SubmitsOf(a))
     /\ HasSubmit(a) =>
           Cardinality(SubmitsOf(a)) + Cardinality(Savers(a)) <= Cardinality(Requests)

\* Nobody joins the savers of an assignment that has a submit row.
LEMMA SaversShrink ==
  ASSUME TypeInv, [Next]_vars, NEW a \in AssignmentIds, HasSubmit(a)
  PROVE  Savers(a)' \subseteq Savers(a)
<1>1. \A p \in Requests : MovesRightly(reqs[p], reqs'[p])
  BY NextMoves
<1> QED
  BY <1>1 DEF Savers, MovesRightly

LEMMA SubmitsUnchangedBound ==
  ASSUME TypeInv, SubmitBound, [Next]_vars, NEW a \in AssignmentIds,
         SubmitsOf(a)' = SubmitsOf(a)
  PROVE  /\ IsFiniteSet(SubmitsOf(a)')
         /\ HasSubmit(a)' =>
               Cardinality(SubmitsOf(a)') + Cardinality(Savers(a)') <= Cardinality(Requests)
<1>1. IsFiniteSet(SubmitsOf(a)) /\ Cardinality(SubmitsOf(a)) \in Nat
  BY FS_CardinalityType DEF SubmitBound
<1>2. CASE HasSubmit(a)
  <2>1. Savers(a)' \subseteq Savers(a) /\ Savers(a) \subseteq Requests
    BY <1>2, SaversShrink DEF Savers
  <2>2. /\ Cardinality(Savers(a)') <= Cardinality(Savers(a))
        /\ Cardinality(Savers(a)') \in Nat /\ Cardinality(Savers(a)) \in Nat
    BY <2>1, RequestsFinite, FS_Subset, FS_CardinalityType
  <2>3. Cardinality(SubmitsOf(a)) + Cardinality(Savers(a)) <= Cardinality(Requests)
    BY <1>2 DEF SubmitBound
  <2> QED
    BY <1>1, <2>2, <2>3, RequestsFinite
<1>3. CASE ~ HasSubmit(a)
  BY <1>1, <1>3 DEF HasSubmit
<1> QED
  BY <1>2, <1>3

LEMMA SubmitSaveBound ==
  ASSUME TypeInv, SubmitBound, NEW r \in Requests, SubmitSave(r), [Next]_vars
  PROVE  SubmitBound'
<1>0. reqs[r].asg \in AssignmentIds
  BY DEF TypeInv, HandlersOK, HandlerOK, SubmitSave, At
<1>b. PICK b \in AssignmentIds : b = reqs[r].asg
  BY <1>0
<1>1. PICK i, k : submits' = submits \cup {[id |-> i, asg |-> b, att |-> k]}
  BY <1>b DEF SubmitSave
<1> DEFINE s == [id |-> i, asg |-> b, att |-> k]
<1>2. s.asg = b
  OBVIOUS
<1>3. r \in Savers(b) /\ Savers(b) \subseteq Requests
  BY <1>b DEF SubmitSave, At, Savers
<1>4. Savers(b)' \subseteq Requests \ {r}
  <2>1. reqs[r] \in Request /\ reqs \in [Requests -> Request]
    BY DEF TypeInv, HandlersOK
  <2>2. reqs'[r].pc = "submit:ids"
    BY <2>1 DEF SubmitSave, Goto, Request
  <2> QED
    BY <2>2 DEF Savers
<1> HIDE DEF s
<1>5. submits' = submits \cup {s}
  BY <1>1 DEF s
<1>6. ASSUME NEW a \in AssignmentIds, a # b
      PROVE  SubmitsOf(a)' = SubmitsOf(a)
  BY <1>2, <1>5, <1>6 DEF SubmitsOf
<1>7. SubmitsOf(b)' = SubmitsOf(b) \cup {s}
  BY <1>2, <1>5 DEF SubmitsOf
<1>8. IsFiniteSet(SubmitsOf(b)) /\ Cardinality(SubmitsOf(b)) \in Nat
  BY <1>3, FS_CardinalityType DEF SubmitBound
<1>9. /\ IsFiniteSet(SubmitsOf(b)') /\ Cardinality(SubmitsOf(b)') \in Nat
      /\ Cardinality(SubmitsOf(b)') <= Cardinality(SubmitsOf(b)) + 1
  BY <1>7, <1>8, FS_AddElement
<1>10. /\ Cardinality(Requests \ {r}) = Cardinality(Requests) - 1
       /\ Cardinality(Savers(b) \ {r}) = Cardinality(Savers(b)) - 1
       /\ Cardinality(Savers(b)) \in Nat /\ Cardinality(Savers(b)') \in Nat
  <2>1. Requests \ {r} \subseteq Requests
    OBVIOUS
  <2> QED
    BY <1>3, <1>4, <2>1, RequestsFinite, FS_RemoveElement
<1>11. Cardinality(SubmitsOf(b)') + Cardinality(Savers(b)') <= Cardinality(Requests)
  <2>1. CASE HasSubmit(b)
    <3>1. Savers(b)' \subseteq Savers(b) \ {r}
      BY <1>3, <1>4, <2>1, SaversShrink
    <3>2. Cardinality(Savers(b)') <= Cardinality(Savers(b)) - 1
      BY <1>3, <1>10, <3>1, RequestsFinite, FS_Subset, FS_RemoveElement
    <3>3. Cardinality(SubmitsOf(b)) + Cardinality(Savers(b)) <= Cardinality(Requests)
      BY <1>3, <2>1 DEF SubmitBound
    <3> QED
      BY <1>8, <1>9, <1>10, <3>2, <3>3, RequestsFinite
  <2>2. CASE ~ HasSubmit(b)
    <3>1. Cardinality(SubmitsOf(b)) = 0
      BY <2>2, FS_EmptySet DEF HasSubmit
    <3>2. Cardinality(Savers(b)') <= Cardinality(Requests) - 1
      BY <1>4, <1>10, RequestsFinite, FS_Subset, FS_RemoveElement
    <3> QED
      BY <1>9, <1>10, <3>1, <3>2, RequestsFinite
  <2> QED
    BY <2>1, <2>2
<1> QED
  BY <1>3, <1>6, <1>9, <1>11, SubmitsUnchangedBound DEF SubmitBound

LEMMA NextSubmitBound == TypeInv /\ SubmitBound /\ [Next]_vars => SubmitBound'
<1> SUFFICES ASSUME TypeInv, SubmitBound, [Next]_vars PROVE SubmitBound'
  OBVIOUS
<1>1. CASE UNCHANGED submits
  <2>1. \A a \in AssignmentIds : SubmitsOf(a)' = SubmitsOf(a)
    BY <1>1 DEF SubmitsOf
  <2> QED
    BY <2>1, SubmitsUnchangedBound DEF SubmitBound
<1>2. ASSUME NEW r \in Requests, RowSave(r) \/ InsertAttempt(r) PROVE UNCHANGED submits
  BY <1>2 DEF RowSave, ReviveAttempt, SaveDraftSave, LockSave, ReopenSave, SaveRow, InsertAttempt
<1> QED
  BY <1>1, <1>2, SubmitSaveBound, StepKinds

(***************************************************************************)
(* An assignment has at most as many submit rows as requests overlap; in   *)
(* particular it has at most one when they do not.                         *)
(***************************************************************************)
THEOREM SubmitsBounded == Spec => []SubmitsBoundedByOverlap
<1>1. Init => SubmitBound
  BY FS_EmptySet DEF Init, TablesInit, SubmitBound, SubmitsOf, HasSubmit
<1>2. SubmitBound => SubmitsBoundedByOverlap
  <2> SUFFICES ASSUME SubmitBound, NEW a \in AssignmentIds
               PROVE  Cardinality(SubmitsOf(a)) <= Cardinality(Requests)
    BY DEF SubmitsBoundedByOverlap
  <2>1. IsFiniteSet(SubmitsOf(a)) /\ Cardinality(SubmitsOf(a)) \in Nat
    BY FS_CardinalityType DEF SubmitBound
  <2>2. Savers(a) \subseteq Requests
    BY DEF Savers
  <2>3. Cardinality(Savers(a)) \in Nat
    BY <2>2, RequestsFinite
  <2>4. CASE HasSubmit(a)
    BY <2>1, <2>3, <2>4, RequestsFinite DEF SubmitBound
  <2>5. CASE ~ HasSubmit(a)
    BY <2>5, FS_EmptySet, RequestsFinite DEF HasSubmit
  <2> QED
    BY <2>4, <2>5
<1> QED
  BY <1>1, <1>2, InitTypeInv, NextTypeInv, NextSubmitBound, PTL DEF Spec

----------------------------------------------------------------------------
(***************************************************************************)
(* The same for the attempts of an assignment.                             *)
(***************************************************************************)
AttemptBound ==
  \A a \in AssignmentIds :
     AttemptsOf(a) # {} =>
        Cardinality(AttemptsOf(a)) + Cardinality(Creators(a)) <= Cardinality(Requests)

LEMMA AttemptsOfFinite ==
  ASSUME TypeInv, NEW a
  PROVE  IsFiniteSet(AttemptsOf(a)) /\ Cardinality(AttemptsOf(a)) \in Nat
<1>1. AttemptsOf(a) \subseteq 1..Len(attempts) /\ Len(attempts) \in Nat
  BY AttemptsAreRows DEF TypeInv, AttemptsOf
<1>2. IsFiniteSet(1..Len(attempts))
  BY <1>1, FS_Interval
<1> QED
  BY <1>1, <1>2, FS_Subset, FS_CardinalityType

\* No save moves an attempt to another assignment.
LEMMA SavesKeepAssignment ==
  ASSUME TypeInv, [Next]_vars,
         \A r \in Requests : ~ InsertAttempt(r), NEW a
  PROVE  AttemptsOf(a)' = AttemptsOf(a)
<1>1. CASE UNCHANGED attempts
  BY <1>1 DEF AttemptsOf, AttemptIds
<1>2. /\ AttemptIds = 1..Len(attempts) /\ Len(attempts) \in Nat
      /\ attempts \in Seq(AttemptRow)
  BY AttemptsAreRows DEF TypeInv, TablesTypeOK
<1>3. AttemptIds' = 1..Len(attempts)'
  BY NextTypeInv DEF TypeInv, TablesTypeOK, AttemptIds
<1>4. ASSUME NEW r \in Requests, RowSave(r)
      PROVE  AttemptsOf(a)' = AttemptsOf(a)
  BY <1>2, <1>3, <1>4, RowSaveKeepsMark DEF AttemptsOf
<1>5. ASSUME NEW r \in Requests, SubmitSave(r), reqs[r].att # 0
      PROVE  AttemptsOf(a)' = AttemptsOf(a)
  <2>1. PICK k \in 1..Len(attempts) : k = reqs[r].att
    BY <1>2, <1>5 DEF TypeInv, HandlersOK, HandlerOK
  <2>2. attempts' = [attempts EXCEPT
                       ![k] = SubmittedRow(attempts[k], reqs[r].row, reqs[r].draft)]
    BY <1>5, <2>1 DEF SubmitSave
  <2>3. SubmittedRow(attempts[k], reqs[r].row, reqs[r].draft).asg = attempts[k].asg
    BY <1>2, <2>1, AttemptsAreRows DEF SubmittedRow, AttemptRow, TypeInv
  <2>4. Len(attempts)' = Len(attempts)
    BY <1>2, <2>2
  <2>5. \A j \in AttemptIds : attempts'[j].asg = attempts[j].asg
    BY <1>2, <2>2, <2>3
  <2> QED
    BY <1>2, <1>3, <2>4, <2>5 DEF AttemptsOf
<1>6. ASSUME NEW r \in Requests, SubmitSave(r), reqs[r].att = 0
      PROVE  UNCHANGED attempts
  BY <1>6 DEF SubmitSave
<1> QED
  BY <1>1, <1>4, <1>5, <1>6, StepKinds

\* Nobody joins the creators of an assignment that has an attempt.
LEMMA CreatorsShrink ==
  ASSUME TypeInv, [Next]_vars, NEW a \in AssignmentIds, AttemptsOf(a) # {}
  PROVE  Creators(a)' \subseteq Creators(a)
<1>1. \A p \in Requests : MovesRightly(reqs[p], reqs'[p])
  BY NextMoves
<1> QED
  BY <1>1 DEF Creators, MovesRightly

LEMMA AttemptsUnchangedBound ==
  ASSUME TypeInv, AttemptBound, [Next]_vars, NEW a \in AssignmentIds,
         AttemptsOf(a)' = AttemptsOf(a), AttemptsOf(a) # {}
  PROVE  Cardinality(AttemptsOf(a)') + Cardinality(Creators(a)') <= Cardinality(Requests)
<1>1. Cardinality(AttemptsOf(a)) \in Nat
  BY AttemptsOfFinite
<1>2. Creators(a)' \subseteq Creators(a) /\ Creators(a) \subseteq Requests
  BY CreatorsShrink DEF Creators
<1>3. /\ Cardinality(Creators(a)') <= Cardinality(Creators(a))
      /\ Cardinality(Creators(a)') \in Nat /\ Cardinality(Creators(a)) \in Nat
  BY <1>2, RequestsFinite, FS_Subset, FS_CardinalityType
<1>4. Cardinality(AttemptsOf(a)) + Cardinality(Creators(a)) <= Cardinality(Requests)
  BY DEF AttemptBound
<1> QED
  BY <1>1, <1>3, <1>4, RequestsFinite

LEMMA InsertBound ==
  ASSUME TypeInv, AttemptBound, NEW r \in Requests, InsertAttempt(r), [Next]_vars
  PROVE  AttemptBound'
<1>1. reqs[r].asg \in AssignmentIds /\ reqs \in [Requests -> Request]
  BY DEF TypeInv, HandlersOK, HandlerOK, InsertAttempt, At
<1>2. PICK b \in AssignmentIds : b = reqs[r].asg
  BY <1>1
<1>3. PICK n \in Nat : /\ n = Len(attempts) /\ AttemptIds = 1..n
                       /\ attempts \in Seq(AttemptRow)
  BY AttemptsAreRows DEF TypeInv, TablesTypeOK
<1>4. PICK new : attempts' = Append(attempts, new) /\ new.asg = b
  BY <1>2 DEF InsertAttempt, NewAttempt
<1>5. /\ AttemptIds' = 1..(n + 1) /\ attempts'[n + 1] = new
      /\ \A k \in 1..n : attempts'[k] = attempts[k]
  BY <1>3, <1>4 DEF AttemptIds
<1>6. \A k \in 1..(n + 1) : k \in 1..n \/ k = n + 1
  BY <1>3
<1>7. AttemptsOf(b)' = AttemptsOf(b) \cup {n + 1} /\ n + 1 \notin AttemptsOf(b)
  BY <1>3, <1>4, <1>5, <1>6 DEF AttemptsOf
<1>8. ASSUME NEW a \in AssignmentIds, a # b
      PROVE  AttemptsOf(a)' = AttemptsOf(a)
  BY <1>3, <1>4, <1>5, <1>6, <1>8 DEF AttemptsOf
<1>9. /\ Cardinality(AttemptsOf(b)) \in Nat
      /\ Cardinality(AttemptsOf(b)') = Cardinality(AttemptsOf(b)) + 1
  BY <1>7, AttemptsOfFinite, FS_AddElement
<1>10. Creators(b)' \subseteq Requests \ {r}
  <2>1. reqs'[r] = Idle
    BY <1>1 DEF InsertAttempt, Return
  <2> QED
    BY <2>1 DEF Creators, Creating, Idle
<1>11. r \in Creators(b) /\ Creators(b) \subseteq Requests
  BY <1>2 DEF Creators, Creating, InsertAttempt, At
<1>12. /\ Cardinality(Requests \ {r}) = Cardinality(Requests) - 1
       /\ Cardinality(Creators(b) \ {r}) = Cardinality(Creators(b)) - 1
       /\ Cardinality(Creators(b)) \in Nat /\ Cardinality(Creators(b)') \in Nat
  BY <1>10, <1>11, RequestsFinite, FS_RemoveElement
<1>13. Cardinality(AttemptsOf(b)') + Cardinality(Creators(b)') <= Cardinality(Requests)
  <2>1. CASE AttemptsOf(b) # {}
    <3>1. Creators(b)' \subseteq Creators(b) \ {r}
      BY <1>10, <2>1, CreatorsShrink
    <3>2. Cardinality(Creators(b)') <= Cardinality(Creators(b)) - 1
      BY <1>11, <1>12, <3>1, RequestsFinite, FS_Subset, FS_RemoveElement
    <3>3. Cardinality(AttemptsOf(b)) + Cardinality(Creators(b)) <= Cardinality(Requests)
      BY <2>1 DEF AttemptBound
    <3> QED
      BY <1>9, <1>12, <3>2, <3>3, RequestsFinite
  <2>2. CASE AttemptsOf(b) = {}
    <3>1. Cardinality(AttemptsOf(b)) = 0
      BY <2>2, FS_EmptySet
    <3>2. Cardinality(Creators(b)') <= Cardinality(Requests) - 1
      BY <1>10, <1>12, RequestsFinite, FS_Subset, FS_RemoveElement
    <3> QED
      BY <1>9, <1>12, <3>1, <3>2, RequestsFinite
  <2> QED
    BY <2>1, <2>2
<1> QED
  BY <1>8, <1>13, AttemptsUnchangedBound DEF AttemptBound

LEMMA NextAttemptBound == TypeInv /\ AttemptBound /\ [Next]_vars => AttemptBound'
<1> SUFFICES ASSUME TypeInv, AttemptBound, [Next]_vars PROVE AttemptBound'
  OBVIOUS
<1>1. CASE \A r \in Requests : ~ InsertAttempt(r)
  BY <1>1, SavesKeepAssignment, AttemptsUnchangedBound DEF AttemptBound
<1>2. ASSUME NEW r \in Requests, InsertAttempt(r) PROVE AttemptBound'
  BY <1>2, InsertBound
<1> QED
  BY <1>1, <1>2

(***************************************************************************)
(* An assignment has at most as many attempts as requests overlap.         *)
(***************************************************************************)
THEOREM AttemptsBounded == Spec => []AttemptsBoundedByOverlap
<1>1. Init => AttemptBound
  BY DEF Init, TablesInit, AttemptBound, AttemptsOf, AttemptIds
<1>2. TypeInv /\ AttemptBound => AttemptsBoundedByOverlap
  <2> SUFFICES ASSUME TypeInv, AttemptBound, NEW a \in AssignmentIds
               PROVE  Cardinality(AttemptsOf(a)) <= Cardinality(Requests)
    BY DEF AttemptsBoundedByOverlap
  <2>1. Cardinality(AttemptsOf(a)) \in Nat
    BY AttemptsOfFinite
  <2>2. Creators(a) \subseteq Requests
    BY DEF Creators
  <2>3. Cardinality(Creators(a)) \in Nat
    BY <2>2, RequestsFinite
  <2>4. CASE AttemptsOf(a) # {}
    BY <2>1, <2>3, <2>4, RequestsFinite DEF AttemptBound
  <2>5. CASE AttemptsOf(a) = {}
    BY <2>5, FS_EmptySet, RequestsFinite
  <2> QED
    BY <2>4, <2>5
<1> QED
  BY <1>1, <1>2, InitTypeInv, NextTypeInv, NextAttemptBound, PTL DEF Spec

----------------------------------------------------------------------------
(***************************************************************************)
(* What a step may make of the rows a handler refers to: its assignment,   *)
(* the attempt it is to submit, and what it has counted.                   *)
(***************************************************************************)
Referring == MaySubmit \cup {"submit:count", "submit:complete"}

NamesAssignment(old, new) ==
  \/ new.asg \in {0, old.asg} \cup assignments
  \/ \E k \in AttemptIds : new.asg = attempts[k].asg

RefersRightly(old, new) ==
  /\ NamesAssignment(old, new)
  /\ new.pc \in MaySubmit /\ new.att # 0 =>
        \/ new.att \in AttemptIds /\ attempts[new.att].asg = new.asg
        \/ old.pc \in MaySubmit /\ new.att = old.att /\ new.asg = old.asg
  /\ new.pc = "submit:count" => new.ids = assignments
  /\ new.pc = "submit:complete" =>
        old.pc = "submit:count" /\ new.ids = old.ids /\ EveryoneSubmitted(new.ids)

LEMMA ReferringPcs ==
  Referring = {"submit:check", "submit:save", "submit:count", "submit:complete"}
BY DEF Referring, MaySubmit

LEMMA OneRefers ==
  ASSUME TypeInv, NEW r \in Requests, NEW q, RefersRightly(reqs[r], q),
         reqs' = [reqs EXCEPT ![r] = q]
  PROVE  \A p \in Requests : reqs'[p] = reqs[p] \/ RefersRightly(reqs[p], reqs'[p])
<1>1. reqs \in [Requests -> Request]
  BY DEF TypeInv, HandlersOK
<1>2. reqs'[r] = q /\ \A p \in Requests : p # r => reqs'[p] = reqs[p]
  BY <1>1
<1> QED
  BY <1>2

LEMMA OtherRefers ==
  ASSUME TypeInv, NEW r \in Requests, NEW q, q.pc \notin Referring,
         NamesAssignment(reqs[r], q), reqs' = [reqs EXCEPT ![r] = q]
  PROVE  \A p \in Requests : reqs'[p] = reqs[p] \/ RefersRightly(reqs[p], reqs'[p])
<1>1. RefersRightly(reqs[r], q)
  BY DEF RefersRightly, Referring
<1> QED
  BY <1>1, OneRefers

LEMMA ReturnRefers ==
  ASSUME TypeInv, NEW r \in Requests, Return(r)
  PROVE  \A p \in Requests : reqs'[p] = reqs[p] \/ RefersRightly(reqs[p], reqs'[p])
<1>1. Idle.pc \notin Referring /\ NamesAssignment(reqs[r], Idle)
  BY ReferringPcs DEF Idle, NamesAssignment
<1> QED
  BY <1>1, OtherRefers DEF Return

LEMMA ArriveRefers ==
  ASSUME TypeInv, NEW r \in Requests, Arrive(r)
  PROVE  \A p \in Requests : reqs'[p] = reqs[p] \/ RefersRightly(reqs[p], reqs'[p])
<1> DEFINE Right == \A p \in Requests : reqs'[p] = reqs[p] \/ RefersRightly(reqs[p], reqs'[p])
<1>1. ASSUME NEW a, CreateOrGetAttempt(r, a) \/ GetCurrentAttempt(r, a)
      PROVE  Right
  <2>1. PICK pc : pc \in {"create:find", "current:hasSubmit"} /\ Begin(r, pc, a)
    BY <1>1 DEF CreateOrGetAttempt, GetCurrentAttempt
  <2> DEFINE q == [Idle EXCEPT !.pc = pc, !.asg = a]
  <2>2. q.pc = pc /\ q.asg = a
    BY DEF Idle
  <2>3. reqs' = [reqs EXCEPT ![r] = q]
    BY <2>1 DEF Begin
  <2> HIDE DEF q
  <2>4. q.pc \notin Referring /\ NamesAssignment(reqs[r], q)
    BY <1>1, <2>1, <2>2, ReferringPcs DEF CreateOrGetAttempt, GetCurrentAttempt, NamesAssignment
  <2> QED
    BY <2>3, <2>4, OtherRefers
<1>2. ASSUME NEW a, ReopenStudentAttempt(r, a)
      PROVE  Right
  <2> DEFINE q == [Idle EXCEPT !.pc = "reopen:find", !.asg = a, !.due = group.deadline]
  <2>1. q.pc = "reopen:find" /\ q.asg = a
    BY DEF Idle
  <2>2. reqs' = [reqs EXCEPT ![r] = q] /\ a \in assignments
    BY <1>2 DEF ReopenStudentAttempt
  <2> HIDE DEF q
  <2>3. q.pc \notin Referring /\ NamesAssignment(reqs[r], q)
    BY <2>1, <2>2, ReferringPcs DEF NamesAssignment
  <2> QED
    BY <2>2, <2>3, OtherRefers
<1>3. ASSUME NEW k \in AttemptIds, NEW d, NEW pc \in SavesAttempt, BeginSave(r, pc, k, d)
      PROVE  Right
  <2> DEFINE q == [Idle EXCEPT !.pc = pc, !.asg = attempts[k].asg, !.att = k,
                               !.row = attempts[k], !.draft = d]
  <2>1. q.pc = pc /\ q.asg = attempts[k].asg
    BY DEF Idle
  <2>2. reqs' = [reqs EXCEPT ![r] = q]
    BY <1>3 DEF BeginSave
  <2> HIDE DEF q
  <2>3. q.pc \notin Referring /\ NamesAssignment(reqs[r], q)
    BY <2>1, ReferringPcs DEF NamesAssignment, SavesAttempt
  <2> QED
    BY <2>2, <2>3, OtherRefers
<1>4. ASSUME NEW k \in AttemptIds, ReopenAttempt(r, k)
      PROVE  Right
  BY <1>3, <1>4 DEF ReopenAttempt, SavesAttempt
<1>5. ASSUME NEW k \in AttemptIds, NEW d, SaveDraft(r, k, d) \/ LockAttempt(r, k, d)
      PROVE  Right
  BY <1>3, <1>5 DEF SaveDraft, LockAttempt, SavesAttempt
<1>6. ASSUME NEW a, NEW k \in AttemptIds \cup {0}, NEW d, Submit(r, a, k, d)
      PROVE  Right
  <2> DEFINE pc == IF k = 0 THEN "submit:check" ELSE "submit:attempt"
             q  == [Idle EXCEPT !.pc = pc, !.asg = a, !.att = k, !.draft = d]
  <2>1. q.pc = pc /\ q.att = k /\ q.asg = a
    BY DEF Idle
  <2>2. reqs' = [reqs EXCEPT ![r] = q] /\ a \in assignments
    BY <1>6 DEF Submit
  <2>3. q.pc \in {"submit:check", "submit:attempt"} /\ (q.pc = "submit:check" => q.att = 0)
    BY <2>1
  <2> HIDE DEF q, pc
  <2>4. RefersRightly(reqs[r], q)
    BY <2>1, <2>2, <2>3 DEF RefersRightly, NamesAssignment, MaySubmit
  <2> QED
    BY <2>2, <2>4, OneRefers
<1> QED
  BY <1>1, <1>2, <1>4, <1>5, <1>6 DEF Arrive

LEMMA ProceedRefers ==
  ASSUME TypeInv, NEW r \in Requests, Proceed(r)
  PROVE  \A p \in Requests : reqs'[p] = reqs[p] \/ RefersRightly(reqs[p], reqs'[p])
<1> DEFINE Right == \A p \in Requests : reqs'[p] = reqs[p] \/ RefersRightly(reqs[p], reqs'[p])
<1>0. /\ reqs[r] \in Request /\ AttemptIds = 1..Len(attempts)
      /\ HandlerOK(reqs[r], Len(attempts))
  BY AttemptsAreRows DEF TypeInv, HandlersOK
<1>1. ASSUME Return(r) PROVE Right
  BY <1>1, ReturnRefers
<1>2. ASSUME NEW pc, pc \notin Referring, Goto(r, pc) PROVE Right
  <2> DEFINE q == [reqs[r] EXCEPT !.pc = pc]
  <2>1. q.pc = pc /\ q.asg = reqs[r].asg
    BY <1>0 DEF Request
  <2>2. reqs' = [reqs EXCEPT ![r] = q]
    BY <1>2 DEF Goto
  <2> HIDE DEF q
  <2>3. NamesAssignment(reqs[r], q)
    BY <2>1 DEF NamesAssignment
  <2> QED
    BY <1>2, <2>1, <2>2, <2>3, OtherRefers
<1>3. ASSUME NEW k \in AttemptIds, NEW pc, Load(r, pc, k),
             \/ pc \notin Referring
             \/ pc = "submit:check" /\ attempts[k].asg = reqs[r].asg
      PROVE  Right
  <2> DEFINE q == [reqs[r] EXCEPT !.pc = pc, !.att = k, !.row = attempts[k]]
  <2>1. q.pc = pc /\ q.att = k /\ q.asg = reqs[r].asg
    BY <1>0 DEF Request
  <2>2. reqs' = [reqs EXCEPT ![r] = q]
    BY <1>3 DEF Load
  <2> HIDE DEF q
  <2>3. RefersRightly(reqs[r], q)
    BY <1>3, <2>1, ReferringPcs DEF RefersRightly, NamesAssignment, MaySubmit
  <2> QED
    BY <2>2, <2>3, OneRefers
<1>4. CASE NumberAttempt(r)
  <2>1. PICK st : reqs' = [reqs EXCEPT ![r].pc = "insert", ![r].stamp = st]
    BY <1>4 DEF NumberAttempt
  <2> DEFINE q == [reqs[r] EXCEPT !.pc = "insert", !.stamp = st]
  <2>2. q.pc = "insert" /\ q.asg = reqs[r].asg
    BY <1>0 DEF Request
  <2>3. reqs' = [reqs EXCEPT ![r] = q]
    BY <2>1
  <2> HIDE DEF q
  <2>4. q.pc \notin Referring /\ NamesAssignment(reqs[r], q)
    BY <2>2, ReferringPcs DEF NamesAssignment
  <2> QED
    BY <2>3, <2>4, OtherRefers
<1>5. CASE CurrentHasSubmit(r)
  <2> DEFINE q == [reqs[r] EXCEPT !.pc = "current:find", !.has = HasSubmit(reqs[r].asg)]
  <2>1. q.pc = "current:find" /\ q.asg = reqs[r].asg
    BY <1>0 DEF Request
  <2>2. reqs' = [reqs EXCEPT ![r] = q]
    BY <1>5 DEF CurrentHasSubmit
  <2> HIDE DEF q
  <2>3. q.pc \notin Referring /\ NamesAssignment(reqs[r], q)
    BY <2>1, ReferringPcs DEF NamesAssignment
  <2> QED
    BY <2>2, <2>3, OtherRefers
<1>6. CASE CurrentFind(r)
  BY <1>1, <1>3, <1>6, ReferringPcs DEF CurrentFind
<1>7. CASE ReopenFind(r)
  BY <1>1, <1>3, <1>7, ReferringPcs DEF ReopenFind
<1>8. CASE SubmitLoadAttempt(r)
  <2>1. reqs[r].att \in AttemptIds
    BY <1>0, <1>8 DEF HandlerOK, SubmitLoadAttempt, At
  <2> QED
    BY <1>1, <1>3, <1>8, <2>1 DEF SubmitLoadAttempt, Stored
<1>9. CASE SubmitCheck(r)
  <2> DEFINE q == [reqs[r] EXCEPT !.pc = "submit:save"]
  <2>1. q.pc = "submit:save" /\ q.asg = reqs[r].asg /\ q.att = reqs[r].att
    BY <1>0 DEF Request
  <2>2. Return(r) \/ reqs' = [reqs EXCEPT ![r] = q]
    BY <1>9 DEF SubmitCheck, Goto
  <2>3. reqs[r].pc = "submit:check"
    BY <1>9 DEF SubmitCheck, At
  <2> HIDE DEF q
  <2>4. RefersRightly(reqs[r], q)
    BY <2>1, <2>3 DEF RefersRightly, NamesAssignment, MaySubmit
  <2> QED
    BY <1>1, <2>2, <2>4, OneRefers
<1>10. CASE SubmitReadIds(r)
  <2> DEFINE q == [reqs[r] EXCEPT !.pc = "submit:count", !.ids = assignments]
  <2>1. q.pc = "submit:count" /\ q.asg = reqs[r].asg /\ q.ids = assignments
    BY <1>0 DEF Request
  <2>2. reqs' = [reqs EXCEPT ![r] = q]
    BY <1>10 DEF SubmitReadIds
  <2> HIDE DEF q
  <2>3. RefersRightly(reqs[r], q)
    BY <2>1 DEF RefersRightly, NamesAssignment, MaySubmit
  <2> QED
    BY <2>2, <2>3, OneRefers
<1>11. CASE SubmitCount(r)
  <2> DEFINE q == [reqs[r] EXCEPT !.pc = "submit:complete"]
  <2>1. q.pc = "submit:complete" /\ q.asg = reqs[r].asg /\ q.ids = reqs[r].ids
    BY <1>0 DEF Request
  <2>2. Return(r) \/ (reqs' = [reqs EXCEPT ![r] = q] /\ EveryoneSubmitted(reqs[r].ids))
    BY <1>11 DEF SubmitCount, Goto
  <2>3. reqs[r].pc = "submit:count"
    BY <1>11 DEF SubmitCount, At
  <2> HIDE DEF q
  <2>4. EveryoneSubmitted(reqs[r].ids) => RefersRightly(reqs[r], q)
    BY <2>1, <2>3 DEF RefersRightly, NamesAssignment, MaySubmit
  <2> QED
    BY <1>1, <2>2, <2>4, OneRefers
<1>12. CASE SubmitSave(r)
  BY <1>2, <1>12, ReferringPcs DEF SubmitSave
<1>13. CASE CreateFind(r) \/ CreateHasSubmit(r) \/ CurrentFindNone(r) \/ ReopenCheck(r)
  BY <1>1, <1>2, <1>13, ReferringPcs DEF CreateFind, CreateHasSubmit, CurrentFindNone, ReopenCheck
<1>14. CASE \/ InsertAttempt(r) \/ ReviveAttempt(r) \/ SaveDraftSave(r) \/ LockSave(r)
            \/ ReopenFindNone(r) \/ ReopenSave(r) \/ SubmitSaveRefused(r) \/ SubmitComplete(r)
  BY <1>1, <1>14 DEF InsertAttempt, ReviveAttempt, SaveDraftSave, LockSave, ReopenFindNone,
                     ReopenSave, SubmitSaveRefused, SubmitComplete, SaveRow
<1> QED
  BY <1>4, <1>5, <1>6, <1>7, <1>8, <1>9, <1>10, <1>11, <1>12, <1>13, <1>14
     DEF Proceed, SaveSubmission

LEMMA NextRefers ==
  ASSUME TypeInv, [Next]_vars
  PROVE  \A p \in Requests : reqs'[p] = reqs[p] \/ RefersRightly(reqs[p], reqs'[p])
<1>1. ASSUME NEW r \in Requests, Fail(r)
      PROVE  \A p \in Requests : reqs'[p] = reqs[p] \/ RefersRightly(reqs[p], reqs'[p])
  BY <1>1, ReturnRefers DEF Fail
<1> QED
  BY <1>1, ArriveRefers, ProceedRefers DEF Next, vars

----------------------------------------------------------------------------
(***************************************************************************)
(* The early end of the group.                                             *)
(***************************************************************************)

(***************************************************************************)
(* The endpoints count submit rows, not students: a count that reaches the *)
(* number of assignments means that every one of them has a row, provided  *)
(* that none has two.                                                      *)
(***************************************************************************)
LEMMA EveryoneCounted ==
  ASSUME IsFiniteSet(submits), NoDoubleSubmit,
         NEW ids, IsFiniteSet(ids), EveryoneSubmitted(ids)
  PROVE  \A a \in ids : HasSubmit(a)
<1> DEFINE S == {s \in submits : s.asg \in ids}
           f == [s \in S |-> s.asg]
<1>1. S \subseteq submits /\ IsFiniteSet(S) /\ Cardinality(S) \in Nat
  BY FS_Subset, FS_CardinalityType
<1>2. Cardinality(S) >= Cardinality(ids) /\ Cardinality(ids) \in Nat
  BY FS_CardinalityType DEF EveryoneSubmitted, CountSubmits
<1>3. f \in Injection(S, ids)
  <2>1. f \in [S -> ids]
    OBVIOUS
  <2>2. \A s, t \in S : f[s] = f[t] => s = t
    BY DEF NoDoubleSubmit
  <2> HIDE DEF f, S
  <2> QED
    BY <2>1, <2>2 DEF Injection, IsInjective
<1> HIDE DEF f
<1>4. Cardinality(S) <= Cardinality(ids) /\ (Cardinality(S) = Cardinality(ids) <=> f \in Surjection(S, ids))
  BY <1>3, FS_Injection
<1>5. f \in Surjection(S, ids)
  BY <1>1, <1>2, <1>4
<1>6. \A a \in ids : \E s \in S : f[s] = a
  BY <1>5 DEF Surjection
<1>7. \A a \in ids : \E s \in submits : s.asg = a
  BY <1>6 DEF f
<1> QED
  BY <1>7 DEF HasSubmit, SubmitsOf

\* Submit rows are only added, one at a time.
LEMMA SubmitsStayFinite ==
  ASSUME TypeInv, IsFiniteSet(submits), [Next]_vars
  PROVE  IsFiniteSet(submits')
<1>1. \A r \in Requests : RowSave(r) \/ InsertAttempt(r) => submits' = submits
  BY RowSaveKeepsMark DEF InsertAttempt
<1>2. ASSUME NEW r \in Requests, SubmitSave(r)
      PROVE  \E s : submits' = submits \cup {s}
  BY <1>2 DEF SubmitSave
<1> QED
  BY <1>1, <1>2, FS_AddElement, StepKinds

LEMMA EveryoneStaysCounted ==
  ASSUME TypeInv, IsFiniteSet(submits), [Next]_vars,
         NEW ids, IsFiniteSet(ids), EveryoneSubmitted(ids)
  PROVE  EveryoneSubmitted(ids)'
<1> DEFINE S == {s \in submits : s.asg \in ids}
           T == {s \in submits' : s.asg \in ids}
<1>1. S \subseteq T /\ T \subseteq submits' /\ S \subseteq submits
  BY TablesGrow
<1>2. IsFiniteSet(T) /\ Cardinality(T) \in Nat /\ Cardinality(S) \in Nat
  BY <1>1, SubmitsStayFinite, FS_Subset, FS_CardinalityType
<1>3. Cardinality(S) <= Cardinality(T) /\ Cardinality(ids) \in Nat
  BY <1>1, <1>2, FS_Subset, FS_CardinalityType
<1>4. ids # {} /\ Cardinality(S) >= Cardinality(ids)
  BY DEF EveryoneSubmitted, CountSubmits
<1>5. Cardinality(T) >= Cardinality(ids)
  BY <1>2, <1>3, <1>4
<1> QED
  BY <1>4, <1>5 DEF EveryoneSubmitted, CountSubmits

\* The endpoints of attempts leave the assignments alone, and only the last
\* save of a submission writes the group row.
LEMMA GroupSteps ==
  ASSUME [Next]_vars
  PROVE  /\ assignments' = assignments
         /\ group' = group \/ \E r \in Requests : SubmitComplete(r)
<1> DEFINE Goal == /\ assignments' = assignments
                   /\ group' = group \/ \E r \in Requests : SubmitComplete(r)
<1>1. ASSUME NEW r \in Requests, Arrive(r) PROVE Goal
  BY <1>1 DEF Arrive, CreateOrGetAttempt, GetCurrentAttempt, ReopenStudentAttempt,
              ReopenAttempt, SaveDraft, LockAttempt, Submit, tables
<1>2. ASSUME NEW r \in Requests, Proceed(r), ~ SubmitComplete(r) PROVE Goal
  BY <1>2 DEF Proceed, SaveSubmission, CreateFind, CreateHasSubmit, NumberAttempt, InsertAttempt,
              CurrentHasSubmit, CurrentFindNone, CurrentFind, ReopenCheck, ReopenFindNone,
              ReopenFind, ReviveAttempt, SaveDraftSave, LockSave, ReopenSave, SaveRow,
              SubmitLoadAttempt, SubmitCheck, SubmitSave, SubmitSaveRefused, SubmitReadIds,
              SubmitCount, tables
<1>3. ASSUME NEW r \in Requests, SubmitComplete(r) PROVE Goal
  BY <1>3 DEF SubmitComplete
<1> QED
  BY <1>1, <1>2, <1>3 DEF Next, vars, Fail, Tick, tables

(***************************************************************************)
(* A handler that goes on after counting read the assignments of the       *)
(* group, and the count it found is still reached when it saves.           *)
(***************************************************************************)
CompletionInv ==
  /\ IsFiniteSet(submits)
  /\ \A r \in Requests :
        /\ reqs[r].pc \in {"submit:count", "submit:complete"} => reqs[r].ids = assignments
        /\ reqs[r].pc = "submit:complete" => EveryoneSubmitted(assignments)
  /\ group.completed => EveryoneSubmitted(assignments)

LEMMA NextCompletion == TypeInv /\ CompletionInv /\ [Next]_vars => CompletionInv'
<1> SUFFICES ASSUME TypeInv, CompletionInv, [Next]_vars PROVE CompletionInv'
  OBVIOUS
<1>1. assignments' = assignments /\ IsFiniteSet(submits')
  BY GroupSteps, SubmitsStayFinite DEF CompletionInv
<1>2. IsFiniteSet(assignments)
  BY TablesAssumption, FS_Subset DEF TypeInv, TablesTypeOK
<1>3. EveryoneSubmitted(assignments) => EveryoneSubmitted(assignments)'
  <2>1. ASSUME EveryoneSubmitted(assignments)
        PROVE  /\ assignments # {}
               /\ Cardinality({s \in submits' : s.asg \in assignments}) >= Cardinality(assignments)
    <3>1. \A ids : IsFiniteSet(ids) /\ EveryoneSubmitted(ids) =>
                     Cardinality({s \in submits' : s.asg \in ids}) >= Cardinality(ids)
      BY EveryoneStaysCounted DEF CompletionInv, EveryoneSubmitted, CountSubmits
    <3> QED
      BY <1>2, <2>1, <3>1 DEF EveryoneSubmitted
  <2> QED
    BY <1>1, <2>1 DEF EveryoneSubmitted, CountSubmits
<1>4. ASSUME NEW p \in Requests
      PROVE  /\ reqs'[p].pc \in {"submit:count", "submit:complete"} => reqs'[p].ids = assignments'
             /\ reqs'[p].pc = "submit:complete" => EveryoneSubmitted(assignments)'
  <2>1. CASE reqs'[p] = reqs[p]
    BY <1>1, <1>3, <2>1 DEF CompletionInv
  <2>2. CASE RefersRightly(reqs[p], reqs'[p])
    BY <1>1, <1>3, <2>2 DEF RefersRightly, CompletionInv
  <2> QED
    BY <2>1, <2>2, NextRefers
<1>5. group'.completed => EveryoneSubmitted(assignments)'
  <2>1. CASE group' = group
    BY <1>3, <2>1 DEF CompletionInv
  <2>2. ASSUME NEW r \in Requests, SubmitComplete(r)
        PROVE  EveryoneSubmitted(assignments)'
    BY <1>3, <2>2 DEF SubmitComplete, At, CompletionInv
  <2> QED
    BY <2>1, <2>2, GroupSteps
<1> QED
  BY <1>1, <1>4, <1>5 DEF CompletionInv

(***************************************************************************)
(* The last submitter ends the group early.  However submissions overlap   *)
(* and wherever they fail, a group that has ended early leaves no student  *)
(* behind, unless an assignment was submitted twice (its rows then count   *)
(* for two students).                                                      *)
(***************************************************************************)
THEOREM EarlyEndLeavesNobody == Spec => []CompletedMeansAllSubmitted
<1>1. Init => CompletionInv
  BY FS_EmptySet DEF Init, TablesInit, Idle, CompletionInv
<1>2. TypeInv /\ CompletionInv => CompletedMeansAllSubmitted
  <2> SUFFICES ASSUME TypeInv, CompletionInv, group.completed, NoDoubleSubmit
               PROVE  \A a \in assignments : HasSubmit(a)
    BY DEF CompletedMeansAllSubmitted
  <2>1. IsFiniteSet(assignments)
    BY TablesAssumption, FS_Subset DEF TypeInv, TablesTypeOK
  <2> QED
    BY <2>1, EveryoneCounted DEF CompletionInv
<1> QED
  BY <1>1, <1>2, InitTypeInv, NextTypeInv, NextCompletion, PTL DEF Spec

----------------------------------------------------------------------------
(***************************************************************************)
(* What a handler decided on, and when.  Every pc at which a handler saves *)
(* an attempt, or is on its way to it, is entered by a step that writes    *)
(* nothing, and that tested the row it loads in that very step or carries  *)
(* a row on that an earlier step tested.                                   *)
(***************************************************************************)
Carrying == SavesAttempt \cup MaySubmit \cup {"current:find", "submit:attempt"}

LoadsNow(q) == q.att \in AttemptIds /\ q.row = attempts[q.att]

CarriesOn(old, new) ==
  /\ new.asg = old.asg /\ new.att = old.att /\ new.row = old.row /\ new.draft = old.draft

DecidesNow(old, new) ==
  /\ new.pc = "current:find" => new.has = HasSubmit(new.asg)
  /\ new.pc = "revive" =>
        /\ LoadsNow(new) /\ attempts[new.att].asg = new.asg
        /\ NeedsRevival(new.row, new.has)
        /\ old.pc = "current:find" /\ old.asg = new.asg /\ old.has = new.has
  /\ new.pc = "draft:save" =>
        LoadsNow(new) /\ new.row.status = "ACTIVE" /\ new.draft \in Answers
  /\ new.pc = "lock:save" =>
        LoadsNow(new) /\ new.row.status # "SUBMITTED" /\ new.draft \in Answers
  /\ new.pc = "reopen:check" => LoadsNow(new)
  /\ new.pc = "reopen:save" =>
        /\ new.row.status # "SUBMITTED"
        /\ LoadsNow(new) \/ (old.pc = "reopen:check" /\ CarriesOn(old, new))
  /\ new.pc = "submit:attempt" => new.draft \in Answers
  /\ new.pc = "submit:check" =>
        \/ new.att = 0 /\ new.draft \in Answers
        \/ /\ LoadsNow(new) /\ attempts[new.att].asg = new.asg
           /\ new.row.status = "ACTIVE"
           /\ old.pc = "submit:attempt" /\ new.draft = old.draft
  /\ new.pc = "submit:save" => old.pc = "submit:check" /\ CarriesOn(old, new)

\* What a step may make of a handler.
Decides(old, new) ==
  new.pc \in Carrying => UNCHANGED tables /\ DecidesNow(old, new)

LEMMA CarryingPcs ==
  Carrying = {"revive", "draft:save", "lock:save", "reopen:check", "reopen:save",
              "submit:check", "submit:save", "current:find", "submit:attempt"}
BY DEF Carrying, SavesAttempt, MaySubmit

\* One handler moves, to a state it may take.
LEMMA OneDecides ==
  ASSUME TypeInv, NEW r \in Requests, NEW q, Decides(reqs[r], q),
         reqs' = [reqs EXCEPT ![r] = q]
  PROVE  \A p \in Requests : reqs'[p] = reqs[p] \/ Decides(reqs[p], reqs'[p])
<1>1. reqs \in [Requests -> Request]
  BY DEF TypeInv, HandlersOK
<1>2. reqs'[r] = q /\ \A p \in Requests : p # r => reqs'[p] = reqs[p]
  BY <1>1
<1> QED
  BY <1>2

LEMMA OtherDecides ==
  ASSUME TypeInv, NEW r \in Requests, NEW q, q.pc \notin Carrying,
         reqs' = [reqs EXCEPT ![r] = q]
  PROVE  \A p \in Requests : reqs'[p] = reqs[p] \/ Decides(reqs[p], reqs'[p])
<1>1. Decides(reqs[r], q)
  BY DEF Decides
<1> QED
  BY <1>1, OneDecides

LEMMA ReturnDecides ==
  ASSUME TypeInv, NEW r \in Requests, Return(r)
  PROVE  \A p \in Requests : reqs'[p] = reqs[p] \/ Decides(reqs[p], reqs'[p])
<1>1. Idle.pc \notin Carrying
  BY CarryingPcs DEF Idle
<1> QED
  BY <1>1, OtherDecides DEF Return

LEMMA ArriveDecides ==
  ASSUME TypeInv, NEW r \in Requests, Arrive(r)
  PROVE  \A p \in Requests : reqs'[p] = reqs[p] \/ Decides(reqs[p], reqs'[p])
<1> DEFINE Goal == \A p \in Requests : reqs'[p] = reqs[p] \/ Decides(reqs[p], reqs'[p])
<1>0. AttemptIds = 1..Len(attempts) /\ \A k \in AttemptIds : attempts[k] \in AttemptRow
  BY AttemptsAreRows DEF TypeInv
<1>1. ASSUME NEW a, NEW pc, pc \in {"create:find", "current:hasSubmit"}, Begin(r, pc, a)
      PROVE  Goal
  <2> DEFINE q == [Idle EXCEPT !.pc = pc, !.asg = a]
  <2>1. q.pc = pc
    BY DEF Idle
  <2>2. reqs' = [reqs EXCEPT ![r] = q]
    BY <1>1 DEF Begin
  <2> HIDE DEF q
  <2>3. q.pc \notin Carrying
    BY <1>1, <2>1, CarryingPcs
  <2> QED
    BY <2>2, <2>3, OtherDecides
<1>2. ASSUME NEW a, ReopenStudentAttempt(r, a)
      PROVE  Goal
  <2> DEFINE q == [Idle EXCEPT !.pc = "reopen:find", !.asg = a, !.due = group.deadline]
  <2>1. q.pc = "reopen:find"
    BY DEF Idle
  <2>2. reqs' = [reqs EXCEPT ![r] = q]
    BY <1>2 DEF ReopenStudentAttempt
  <2> HIDE DEF q
  <2>3. q.pc \notin Carrying
    BY <2>1, CarryingPcs
  <2> QED
    BY <2>2, <2>3, OtherDecides
<1>3. ASSUME NEW k \in AttemptIds, NEW d, NEW pc, BeginSave(r, pc, k, d), UNCHANGED tables,
             \/ pc = "reopen:check"
             \/ pc = "draft:save" /\ attempts[k].status = "ACTIVE" /\ d \in Answers
             \/ pc = "lock:save" /\ attempts[k].status # "SUBMITTED" /\ d \in Answers
      PROVE  Goal
  <2> DEFINE q == [Idle EXCEPT !.pc = pc, !.asg = attempts[k].asg, !.att = k,
                               !.row = attempts[k], !.draft = d]
  <2>1. q.pc = pc /\ q.att = k /\ q.row = attempts[k] /\ q.draft = d
    BY DEF Idle
  <2>2. reqs' = [reqs EXCEPT ![r] = q]
    BY <1>3 DEF BeginSave
  <2> HIDE DEF q
  <2>3. LoadsNow(q)
    BY <2>1 DEF LoadsNow
  <2>4. Decides(reqs[r], q)
    BY <1>3, <2>1, <2>3 DEF Decides, DecidesNow
  <2> QED
    BY <2>2, <2>4, OneDecides
<1>4. \A k \in AttemptIds : attempts[k].status \in {"ACTIVE", "LOCKED", "SUBMITTED"}
  BY <1>0 DEF AttemptRow, Statuses
<1>5. ASSUME NEW k \in AttemptIds, ReopenAttempt(r, k)
      PROVE  Goal
  BY <1>3, <1>5 DEF ReopenAttempt
<1>6. ASSUME NEW k \in AttemptIds, NEW d \in Answers, SaveDraft(r, k, d)
      PROVE  Goal
  BY <1>3, <1>4, <1>6 DEF SaveDraft
<1>7. ASSUME NEW k \in AttemptIds, NEW d \in Answers, LockAttempt(r, k, d)
      PROVE  Goal
  BY <1>3, <1>7 DEF LockAttempt
<1>8. ASSUME NEW a, NEW k \in AttemptIds \cup {0}, NEW d \in Answers, Submit(r, a, k, d)
      PROVE  Goal
  <2> DEFINE pc == IF k = 0 THEN "submit:check" ELSE "submit:attempt"
             q  == [Idle EXCEPT !.pc = pc, !.asg = a, !.att = k, !.draft = d]
  <2>1. q.pc = pc /\ q.att = k /\ q.draft = d
    BY DEF Idle
  <2>2. reqs' = [reqs EXCEPT ![r] = q] /\ UNCHANGED tables
    BY <1>8 DEF Submit
  <2>3. /\ q.pc \in {"submit:check", "submit:attempt"} /\ q.draft \in Answers
        /\ q.pc = "submit:check" => q.att = 0
    BY <2>1
  <2> HIDE DEF q, pc
  <2>4. Decides(reqs[r], q)
    BY <2>2, <2>3 DEF Decides, DecidesNow
  <2> QED
    BY <2>2, <2>4, OneDecides
<1>9. ASSUME NEW a, CreateOrGetAttempt(r, a) \/ GetCurrentAttempt(r, a)
      PROVE  Goal
  BY <1>1, <1>9 DEF CreateOrGetAttempt, GetCurrentAttempt
<1> QED
  BY <1>2, <1>5, <1>6, <1>7, <1>8, <1>9 DEF Arrive

LEMMA ProceedDecides ==
  ASSUME TypeInv, NEW r \in Requests, Proceed(r)
  PROVE  \A p \in Requests : reqs'[p] = reqs[p] \/ Decides(reqs[p], reqs'[p])
<1> DEFINE Goal == \A p \in Requests : reqs'[p] = reqs[p] \/ Decides(reqs[p], reqs'[p])
<1>0. /\ reqs[r] \in Request /\ AttemptIds = 1..Len(attempts)
      /\ \A k \in AttemptIds : attempts[k] \in AttemptRow
      /\ HandlerOK(reqs[r], Len(attempts))
  BY AttemptsAreRows DEF TypeInv, HandlersOK
<1>1. ASSUME Return(r) PROVE Goal
  BY <1>1, ReturnDecides
<1>2. ASSUME NEW pc, pc \notin Carrying, Goto(r, pc) PROVE Goal
  <2>1. [reqs[r] EXCEPT !.pc = pc].pc = pc
    BY <1>0 DEF Request
  <2> QED
    BY <1>2, <2>1, OtherDecides DEF Goto
<1>3. ASSUME NEW k \in AttemptIds, NEW pc, Load(r, pc, k), UNCHANGED tables,
             attempts[k].asg = reqs[r].asg,
             \/ pc = "revive" /\ At(r, "current:find") /\ NeedsRevival(attempts[k], reqs[r].has)
             \/ pc = "reopen:save" /\ attempts[k].status # "SUBMITTED"
             \/ pc = "submit:check" /\ At(r, "submit:attempt") /\ attempts[k].status = "ACTIVE"
      PROVE  Goal
  <2> DEFINE q == [reqs[r] EXCEPT !.pc = pc, !.att = k, !.row = attempts[k]]
  <2>1. /\ q.pc = pc /\ q.att = k /\ q.row = attempts[k]
        /\ q.asg = reqs[r].asg /\ q.has = reqs[r].has /\ q.draft = reqs[r].draft
    BY <1>0 DEF Request
  <2>2. reqs' = [reqs EXCEPT ![r] = q]
    BY <1>3 DEF Load
  <2> HIDE DEF q
  <2>3. LoadsNow(q) /\ attempts[q.att].asg = q.asg
    BY <1>3, <2>1 DEF LoadsNow
  <2>4. Decides(reqs[r], q)
    BY <1>3, <2>1, <2>3 DEF Decides, DecidesNow, At
  <2> QED
    BY <2>2, <2>4, OneDecides
<1>4. CASE CurrentHasSubmit(r)
  <2> DEFINE q == [reqs[r] EXCEPT !.pc = "current:find", !.has = HasSubmit(reqs[r].asg)]
  <2>1. q.pc = "current:find" /\ q.asg = reqs[r].asg /\ q.has = HasSubmit(reqs[r].asg)
    BY <1>0 DEF Request
  <2>2. reqs' = [reqs EXCEPT ![r] = q] /\ UNCHANGED tables
    BY <1>4 DEF CurrentHasSubmit
  <2> HIDE DEF q
  <2>3. Decides(reqs[r], q)
    BY <2>1, <2>2 DEF Decides, DecidesNow
  <2> QED
    BY <2>2, <2>3, OneDecides
<1>5. CASE CurrentFind(r)
  <2>1. PICK k \in AttemptIds :
           /\ IsNewestAttempt(k, reqs[r].asg)
           /\ IF NeedsRevival(attempts[k], reqs[r].has) THEN Load(r, "revive", k)
                                                        ELSE Return(r)
    BY <1>5 DEF CurrentFind
  <2>2. attempts[k].asg = reqs[r].asg
    BY <2>1 DEF IsNewestAttempt, AttemptsOf
  <2> QED
    BY <1>1, <1>3, <1>5, <2>1, <2>2 DEF CurrentFind
<1>6. CASE ReopenFind(r)
  <2>1. PICK k \in AttemptIds :
           /\ IsNewestAttempt(k, reqs[r].asg)
           /\ IF MayReopen(attempts[k], reqs[r].due) THEN Load(r, "reopen:save", k)
                                                     ELSE Return(r)
    BY <1>6 DEF ReopenFind
  <2>2. attempts[k].asg = reqs[r].asg
    BY <2>1 DEF IsNewestAttempt, AttemptsOf
  <2> QED
    BY <1>1, <1>3, <1>6, <2>1, <2>2 DEF ReopenFind, MayReopen
<1>7. CASE SubmitLoadAttempt(r)
  <2>1. reqs[r].att \in AttemptIds
    BY <1>0, <1>7 DEF HandlerOK, SubmitLoadAttempt, At
  <2> QED
    BY <1>1, <1>3, <1>7, <2>1 DEF SubmitLoadAttempt, Stored
<1>8. ASSUME NEW pc, Goto(r, pc), UNCHANGED tables,
             \/ /\ pc = "reopen:save" /\ At(r, "reopen:check")
                /\ reqs[r].row.status # "SUBMITTED"
             \/ pc = "submit:save" /\ At(r, "submit:check")
      PROVE  Goal
  <2> DEFINE q == [reqs[r] EXCEPT !.pc = pc]
  <2>1. /\ q.pc = pc /\ q.asg = reqs[r].asg /\ q.att = reqs[r].att
        /\ q.row = reqs[r].row /\ q.draft = reqs[r].draft
    BY <1>0 DEF Request
  <2>2. reqs' = [reqs EXCEPT ![r] = q]
    BY <1>8 DEF Goto
  <2> HIDE DEF q
  <2>3. Decides(reqs[r], q)
    BY <1>8, <2>1 DEF Decides, DecidesNow, CarriesOn, At
  <2> QED
    BY <2>2, <2>3, OneDecides
<1>9. CASE ReopenCheck(r)
  BY <1>1, <1>8, <1>9 DEF ReopenCheck
<1>10. CASE SubmitCheck(r)
  BY <1>1, <1>8, <1>10 DEF SubmitCheck
<1>11. CASE NumberAttempt(r)
  <2>1. PICK st : reqs' = [reqs EXCEPT ![r].pc = "insert", ![r].stamp = st]
    BY <1>11 DEF NumberAttempt
  <2> DEFINE q == [reqs[r] EXCEPT !.pc = "insert", !.stamp = st]
  <2>2. reqs' = [reqs EXCEPT ![r] = q]
    BY <2>1
  <2>3. q.pc = "insert"
    BY <1>0 DEF Request
  <2> HIDE DEF q
  <2>4. q.pc \notin Carrying
    BY <2>3, CarryingPcs
  <2> QED
    BY <2>2, <2>4, OtherDecides
<1>12. CASE SubmitReadIds(r)
  <2> DEFINE q == [reqs[r] EXCEPT !.pc = "submit:count", !.ids = assignments]
  <2>1. reqs' = [reqs EXCEPT ![r] = q]
    BY <1>12 DEF SubmitReadIds
  <2>2. q.pc = "submit:count"
    BY <1>0 DEF Request
  <2> HIDE DEF q
  <2>3. q.pc \notin Carrying
    BY <2>2, CarryingPcs
  <2> QED
    BY <2>1, <2>3, OtherDecides
<1>13. CASE CreateFind(r) \/ CreateHasSubmit(r) \/ CurrentFindNone(r) \/ SubmitCount(r)
  BY <1>1, <1>2, <1>13, CarryingPcs DEF CreateFind, CreateHasSubmit, CurrentFindNone, SubmitCount
<1>14. CASE SubmitSave(r)
  BY <1>2, <1>14, CarryingPcs DEF SubmitSave
<1>15. CASE \/ InsertAttempt(r) \/ ReviveAttempt(r) \/ SaveDraftSave(r) \/ LockSave(r)
            \/ ReopenFindNone(r) \/ ReopenSave(r) \/ SubmitSaveRefused(r) \/ SubmitComplete(r)
  BY <1>1, <1>15 DEF InsertAttempt, ReviveAttempt, SaveDraftSave, LockSave, ReopenFindNone,
                     ReopenSave, SubmitSaveRefused, SubmitComplete, SaveRow
<1> QED
  BY <1>4, <1>5, <1>6, <1>7, <1>9, <1>10, <1>11, <1>12, <1>13, <1>14, <1>15
     DEF Proceed, SaveSubmission

LEMMA NextDecides ==
  ASSUME TypeInv, [Next]_vars
  PROVE  \A p \in Requests : reqs'[p] = reqs[p] \/ Decides(reqs[p], reqs'[p])
<1>1. ASSUME NEW r \in Requests, Fail(r)
      PROVE  \A p \in Requests : reqs'[p] = reqs[p] \/ Decides(reqs[p], reqs'[p])
  BY <1>1, ReturnDecides DEF Fail
<1> QED
  BY <1>1, ArriveDecides, ProceedDecides DEF Next, vars

----------------------------------------------------------------------------
(***************************************************************************)
(* What a handler decided still holds of the row it carries, and what it   *)
(* decided of rows that only grow (an attempt is of the assignment, the    *)
(* assignment has a submit row) still holds of the tables.                 *)
(***************************************************************************)
Decided(q) ==
  /\ q.pc = "revive" => ~ q.has /\ HasSubmit(q.asg)
  /\ q.pc = "draft:save" => q.row.status = "ACTIVE" /\ q.draft \in Answers
  /\ q.pc = "lock:save" => q.row.status # "SUBMITTED" /\ q.draft \in Answers
  /\ q.pc = "reopen:save" => q.row.status # "SUBMITTED"
  /\ q.pc \in MaySubmit \cup {"submit:attempt"} => q.draft \in Answers
  /\ q.pc \in MaySubmit /\ q.att # 0 =>
        q.row.status = "ACTIVE" /\ attempts[q.att].asg = q.asg

SubmitsOfTheirAttempts == \A s \in submits : s.att # 0 => attempts[s.att].asg = s.asg

RowsFit == Len(attempts) <= MaxAttempts

DecidedInv ==
  /\ MarkInv /\ RowsFit /\ SubmitsOfTheirAttempts
  /\ \A r \in Requests : Decided(reqs[r])

LEMMA NextRowsFit ==
  ASSUME DecidedInv, [Next]_vars
  PROVE  RowsFit'
<1>0. TypeInv /\ RowsFit
  BY DEF DecidedInv, MarkInv
<1>1. CASE UNCHANGED attempts
  BY <1>0, <1>1 DEF RowsFit
<1>2. ASSUME NEW r \in Requests, RowSave(r)
      PROVE  RowsFit'
  BY <1>0, <1>2, RowSaveKeepsMark DEF RowsFit
<1>3. ASSUME NEW r \in Requests, InsertAttempt(r)
      PROVE  RowsFit'
  <2> DEFINE new == NewAttempt(reqs[r].asg, reqs[r].stamp)
  <2>1. attempts' = Append(attempts, new) /\ Len(attempts) < MaxAttempts
    BY <1>3 DEF InsertAttempt
  <2> HIDE DEF new
  <2>2. attempts \in Seq(AttemptRow) /\ Len(attempts) \in Nat /\ MaxAttempts \in Nat
    BY <1>0, AttemptsAreRows, TablesAssumption DEF TypeInv, TablesTypeOK
  <2>3. Len(attempts') = Len(attempts) + 1
    BY <2>1, <2>2
  <2> QED
    BY <2>1, <2>2, <2>3 DEF RowsFit
<1>4. ASSUME NEW r \in Requests, SubmitSave(r), reqs[r].att # 0
      PROVE  RowsFit'
  <2> DEFINE row == SubmittedRow(attempts[reqs[r].att], reqs[r].row, reqs[r].draft)
  <2>1. attempts' = [attempts EXCEPT ![reqs[r].att] = row]
    BY <1>4 DEF SubmitSave
  <2> HIDE DEF row
  <2>2. attempts \in Seq(AttemptRow)
    BY <1>0 DEF TypeInv, TablesTypeOK
  <2>3. Len(attempts') = Len(attempts)
    BY <2>1, <2>2
  <2> QED
    BY <1>0, <2>3 DEF RowsFit
<1>5. ASSUME NEW r \in Requests, SubmitSave(r), reqs[r].att = 0
      PROVE  UNCHANGED attempts
  BY <1>5 DEF SubmitSave
<1> QED
  BY <1>1, <1>2, <1>3, <1>4, <1>5, StepKinds

\* A submit row that is saved is of the assignment of its attempt.
LEMMA NextSubmitsOfTheirAttempts ==
  ASSUME DecidedInv, [Next]_vars
  PROVE  SubmitsOfTheirAttempts'
<1>0. TypeInv /\ SubmitsOfTheirAttempts
  BY DEF DecidedInv, MarkInv
<1>1. AttemptIds = 1..Len(attempts) /\ Len(attempts) \in Nat
  BY <1>0, AttemptsAreRows DEF TypeInv
<1>2. \A k \in AttemptIds : attempts'[k].asg = attempts[k].asg
  BY <1>0, TablesGrow
<1>3. ASSUME NEW s \in submits, s.att # 0
      PROVE  attempts'[s.att].asg = s.asg
  <2>1. s.att \in AttemptIds
    BY <1>1, <1>3 DEF DecidedInv, MarkInv, SubmitsReferToAttempts
  <2> QED
    BY <1>0, <1>2, <1>3, <2>1 DEF SubmitsOfTheirAttempts
<1>4. ASSUME NEW r \in Requests, SubmitSave(r)
      PROVE  SubmitsOfTheirAttempts'
  <2>1. PICK i : submits' = submits \cup {[id |-> i, asg |-> reqs[r].asg, att |-> reqs[r].att]}
    BY <1>4 DEF SubmitSave
  <2> DEFINE s == [id |-> i, asg |-> reqs[r].asg, att |-> reqs[r].att]
  <2>2. s.asg = reqs[r].asg /\ s.att = reqs[r].att
    OBVIOUS
  <2> HIDE DEF s
  <2>3. submits' = submits \cup {s}
    BY <2>1 DEF s
  <2>4. ASSUME s.att # 0 PROVE attempts'[s.att].asg = s.asg
    <3>1. reqs[r].att \in AttemptIds
      BY <1>0, <1>1, <2>2, <2>4 DEF TypeInv, HandlersOK, HandlerOK
    <3>2. attempts[reqs[r].att].asg = reqs[r].asg
      BY <1>4, <2>2, <2>4 DEF DecidedInv, Decided, SubmitSave, At, MaySubmit
    <3> QED
      BY <1>2, <2>2, <3>1, <3>2
  <2> QED
    BY <1>3, <2>3, <2>4 DEF SubmitsOfTheirAttempts
<1>5. CASE submits' = submits
  BY <1>3, <1>5 DEF SubmitsOfTheirAttempts
<1>6. \A r \in Requests : RowSave(r) \/ InsertAttempt(r) => submits' = submits
  BY <1>0, RowSaveKeepsMark DEF InsertAttempt
<1> QED
  BY <1>4, <1>5, <1>6, StepKinds

LEMMA SubmittedHasSubmit ==
  ASSUME DecidedInv, NEW k \in AttemptIds, attempts[k].status = "SUBMITTED"
  PROVE  HasSubmit(attempts[k].asg)
<1>1. k # 0
  BY AttemptsAreRows DEF DecidedInv, MarkInv, TypeInv
<1>2. PICK s \in submits : s.att = k
  BY DEF DecidedInv, MarkInv, SubmittedMeansRow
<1>3. s.asg = attempts[k].asg
  BY <1>1, <1>2 DEF DecidedInv, SubmitsOfTheirAttempts
<1> QED
  BY <1>2, <1>3 DEF HasSubmit, SubmitsOf

LEMMA NextDecided ==
  ASSUME DecidedInv, [Next]_vars, NEW p \in Requests
  PROVE  Decided(reqs[p])'
<1> DEFINE old == reqs[p]
           new == reqs'[p]
<1>0. TypeInv /\ TypeInv' /\ Decided(old)
  BY NextTypeInv DEF DecidedInv, MarkInv
<1>1. /\ \A a : HasSubmit(a) => HasSubmit(a)'
      /\ AttemptIds = 1..Len(attempts) /\ Len(attempts) \in Nat
      /\ \A k \in AttemptIds : attempts'[k].asg = attempts[k].asg
  BY <1>0, TablesGrow, AttemptsAreRows DEF TypeInv, HasSubmit, SubmitsOf
<1>2. old.att \in AttemptIds \cup {0}
  BY <1>0, <1>1 DEF TypeInv, HandlersOK, HandlerOK
<1>3. CASE new = old
  BY <1>0, <1>1, <1>2, <1>3 DEF Decided
<1>4. CASE new.pc \notin Carrying
  BY <1>4, CarryingPcs DEF Decided, MaySubmit
<1>5. CASE new.pc \in Carrying /\ UNCHANGED tables /\ DecidesNow(old, new)
  <2>1. DecidesNow(old, new) /\ attempts' = attempts /\ submits' = submits
    BY <1>5 DEF tables
  <2>2. \A a : HasSubmit(a)' <=> HasSubmit(a)
    BY <2>1 DEF HasSubmit, SubmitsOf
  <2>3. new.pc = "revive" => ~ new.has /\ HasSubmit(new.asg)
    BY <2>1, SubmittedHasSubmit DEF DecidesNow, LoadsNow, NeedsRevival
  <2>4. new.pc = "draft:save" => new.row.status = "ACTIVE" /\ new.draft \in Answers
    BY <2>1 DEF DecidesNow
  <2>5. new.pc = "lock:save" => new.row.status # "SUBMITTED" /\ new.draft \in Answers
    BY <2>1 DEF DecidesNow
  <2>6. new.pc = "reopen:save" => new.row.status # "SUBMITTED"
    BY <2>1 DEF DecidesNow
  <2>7. new.pc \in MaySubmit \cup {"submit:attempt"} => new.draft \in Answers
    BY <1>0, <2>1 DEF DecidesNow, Decided, CarriesOn, MaySubmit
  <2>8. new.pc \in MaySubmit /\ new.att # 0 =>
           new.row.status = "ACTIVE" /\ attempts'[new.att].asg = new.asg
    BY <1>0, <2>1 DEF DecidesNow, Decided, CarriesOn, MaySubmit
  <2> QED
    BY <2>2, <2>3, <2>4, <2>5, <2>6, <2>7, <2>8 DEF Decided
<1> QED
  BY <1>0, <1>3, <1>4, <1>5, NextDecides DEF Decides

LEMMA InitDecided == Init => DecidedInv
<1> SUFFICES ASSUME Init PROVE DecidedInv
  OBVIOUS
<1>1. MarkInv
  BY InitTypeInv
     DEF Init, TablesInit, MarkInv, SubmitsReferToAttempts, SubmittedMeansRow, AttemptIds
<1>2. RowsFit /\ SubmitsOfTheirAttempts
  BY TablesAssumption DEF Init, TablesInit, RowsFit, SubmitsOfTheirAttempts
<1>3. \A r \in Requests : Decided(reqs[r])
  BY DEF Init, Idle, Decided, MaySubmit
<1> QED
  BY <1>1, <1>2, <1>3 DEF DecidedInv

LEMMA NextDecidedInv == DecidedInv /\ [Next]_vars => DecidedInv'
<1> SUFFICES ASSUME DecidedInv, [Next]_vars PROVE DecidedInv'
  OBVIOUS
<1>1. MarkInv'
  BY NextMark DEF DecidedInv
<1> QED
  BY <1>1, NextRowsFit, NextSubmitsOfTheirAttempts, NextDecided DEF DecidedInv

(***************************************************************************)
(* The branch of GetCurrent that makes a submitted attempt active again    *)
(* "because it has no submit row" never repairs anything: at every time    *)
(* between its decision and its save there is a submit row.                *)
(***************************************************************************)
THEOREM RevivalIsStale == Spec => []ReviveIsStale
<1>1. DecidedInv => ReviveIsStale
  BY DEF DecidedInv, Decided, ReviveIsStale, At
<1> QED
  BY <1>1, InitDecided, NextDecidedInv, PTL DEF Spec

----------------------------------------------------------------------------
(***************************************************************************)
(* The steps of AttemptLifecycle: what a save of an up-to-date handler     *)
(* makes of an attempt is one of them.                                     *)
(***************************************************************************)
SeenAs(st, d, i, n) == [status |-> st, draft |-> d, incidents |-> i, reopens |-> n]

Seen(row) == SeenAs(row.status, row.draft, row.incidents, row.reopens)

\* A column that is written over the value it was loaded with.
LEMMA FreshWrite ==
  \A old, new : Write(old, old, new) = new
BY DEF Write

\* What the steps of the lifecycle make of what is seen of an attempt.
LifeLock(v, d) == [v EXCEPT !.status = "LOCKED", !.draft = d, !.incidents = @ + 1]
LifeReopen(v) == [v EXCEPT !.status = "ACTIVE", !.reopens = @ + 1]
LifeSubmit(v, d) == [v EXCEPT !.status = "SUBMITTED", !.draft = d]

LEMMA LifeReopens ==
  ASSUME NEW st, NEW d, NEW i, NEW n
  PROVE  LifeReopen(SeenAs(st, d, i, n)) = SeenAs("ACTIVE", d, i, n + 1)
<1>1. [SeenAs(st, d, i, n) EXCEPT !.status = "ACTIVE"] = SeenAs("ACTIVE", d, i, n)
  BY DEF SeenAs
<1>2. [SeenAs("ACTIVE", d, i, n) EXCEPT !.reopens = @ + 1] = SeenAs("ACTIVE", d, i, n + 1)
  BY DEF SeenAs
<1> QED
  BY <1>1, <1>2 DEF LifeReopen

LEMMA LifeRows ==
  ASSUME NEW st, NEW d, NEW i, NEW n, NEW d2
  PROVE  /\ LifeLock(SeenAs(st, d, i, n), d2) = SeenAs("LOCKED", d2, i + 1, n)
         /\ LifeSubmit(SeenAs(st, d, i, n), d2) = SeenAs("SUBMITTED", d2, i, n)
<1>1. LifeLock(SeenAs(st, d, i, n), d2) = SeenAs("LOCKED", d2, i + 1, n)
  <2>1. [SeenAs(st, d, i, n) EXCEPT !.status = "LOCKED"] = SeenAs("LOCKED", d, i, n)
    BY DEF SeenAs
  <2>2. [SeenAs("LOCKED", d, i, n) EXCEPT !.draft = d2] = SeenAs("LOCKED", d2, i, n)
    BY DEF SeenAs
  <2>3. [SeenAs("LOCKED", d2, i, n) EXCEPT !.incidents = @ + 1] = SeenAs("LOCKED", d2, i + 1, n)
    BY DEF SeenAs
  <2> QED
    BY <2>1, <2>2, <2>3 DEF LifeLock
<1>2. LifeSubmit(SeenAs(st, d, i, n), d2) = SeenAs("SUBMITTED", d2, i, n)
  <2>1. [SeenAs(st, d, i, n) EXCEPT !.status = "SUBMITTED"] = SeenAs("SUBMITTED", d, i, n)
    BY DEF SeenAs
  <2>2. [SeenAs("SUBMITTED", d, i, n) EXCEPT !.draft = d2] = SeenAs("SUBMITTED", d2, i, n)
    BY DEF SeenAs
  <2> QED
    BY <2>1, <2>2 DEF LifeSubmit
<1> QED
  BY <1>1, <1>2

\* What the saves write over the row they have loaded.
LEMMA FreshRows ==
  ASSUME NEW w \in AttemptRow, NEW d
  PROVE  /\ Seen(SavedRow(w, w, d)) = SeenAs("ACTIVE", d, w.incidents, w.reopens)
         /\ Seen(LockedRow(w, w, d)) = SeenAs("LOCKED", d, w.incidents + 1, w.reopens)
         /\ Seen(ReopenedRow(w, w)) = SeenAs("ACTIVE", w.draft, w.incidents, w.reopens + 1)
         /\ Seen(SubmittedRow(w, w, d)) = SeenAs("SUBMITTED", d, w.incidents, w.reopens)
<1>1. SavedRow(w, w, d) = [w EXCEPT !.draft = d, !.status = "ACTIVE"]
  BY FreshWrite DEF SavedRow, AttemptRow
<1>2. LockedRow(w, w, d) =
        [w EXCEPT !.draft = d, !.status = "LOCKED", !.incidents = w.incidents + 1]
  BY FreshWrite DEF LockedRow, AttemptRow
<1>3. ReopenedRow(w, w) = [w EXCEPT !.status = "ACTIVE", !.reopens = w.reopens + 1]
  BY FreshWrite DEF ReopenedRow, AttemptRow
<1>4. SubmittedRow(w, w, d) =
        [w EXCEPT !.draft = d, !.status = "SUBMITTED", !.submitted = TRUE]
  BY FreshWrite DEF SubmittedRow, AttemptRow
<1>5. \A st : Seen([w EXCEPT !.draft = d, !.status = st]) =
              SeenAs(st, d, w.incidents, w.reopens)
  BY DEF Seen, AttemptRow
<1>6. \A st, i : Seen([w EXCEPT !.draft = d, !.status = st, !.incidents = i]) =
                 SeenAs(st, d, i, w.reopens)
  BY DEF Seen, AttemptRow
<1>7. \A st, i : Seen([w EXCEPT !.status = st, !.reopens = i]) =
                 SeenAs(st, w.draft, w.incidents, i)
  BY DEF Seen, AttemptRow
<1>8. \A st : Seen([w EXCEPT !.draft = d, !.status = st, !.submitted = TRUE]) =
              SeenAs(st, d, w.incidents, w.reopens)
  BY DEF Seen, AttemptRow
<1>9. Seen(SavedRow(w, w, d)) = SeenAs("ACTIVE", d, w.incidents, w.reopens)
  BY <1>1, <1>5
<1>10. Seen(LockedRow(w, w, d)) = SeenAs("LOCKED", d, w.incidents + 1, w.reopens)
  BY <1>2, <1>6
<1>11. Seen(ReopenedRow(w, w)) = SeenAs("ACTIVE", w.draft, w.incidents, w.reopens + 1)
  BY <1>3, <1>7
<1>12. Seen(SubmittedRow(w, w, d)) = SeenAs("SUBMITTED", d, w.incidents, w.reopens)
  BY <1>4, <1>8
<1> QED
  BY <1>9, <1>10, <1>11, <1>12

\* What is seen when the row of attempt k becomes another one.
LEMMA RowChanges ==
  ASSUME DecidedInv, NEW k \in AttemptIds, NEW row,
         attempts' = [attempts EXCEPT ![k] = row]
  PROVE  /\ k \in 1..MaxAttempts
         /\ lives[k] = Seen(attempts[k])
         /\ lives' = [lives EXCEPT ![k] = Seen(row)]
<1> DEFINE n == Len(attempts)
<1>1. n \in Nat /\ AttemptIds = 1..n /\ attempts \in Seq(AttemptRow)
  BY AttemptsAreRows DEF DecidedInv, MarkInv, TypeInv, TablesTypeOK
<1>2. n <= MaxAttempts /\ MaxAttempts \in Nat
  BY TablesAssumption DEF DecidedInv, RowsFit
<1>3. k \in 1..MaxAttempts
  BY <1>1, <1>2
<1>4. AttemptIds' = AttemptIds
  BY DEF AttemptIds
<1>5. \A j \in AttemptIds : attempts'[j] = IF j = k THEN row ELSE attempts[j]
  BY <1>1
<1>6. \A j \in 1..MaxAttempts : SeenOf(j)' = IF j = k THEN Seen(row) ELSE SeenOf(j)
  BY <1>4, <1>5 DEF SeenOf, Seen, SeenAs
<1>7. lives' = [j \in 1..MaxAttempts |-> SeenOf(j)'] /\ lives = [j \in 1..MaxAttempts |-> SeenOf(j)]
  BY DEF lives
<1>8. lives[k] = Seen(attempts[k])
  BY <1>3, <1>7 DEF SeenOf, Seen, SeenAs
<1>9. lives' = [lives EXCEPT ![k] = Seen(row)]
  BY <1>6, <1>7
<1> QED
  BY <1>3, <1>8, <1>9

\* An attempt is created.
LEMMA InsertLives ==
  ASSUME DecidedInv, NEW r \in Requests, InsertAttempt(r)
  PROVE  Life!Next
<1> DEFINE n == Len(attempts)
           k == n + 1
           new == NewAttempt(reqs[r].asg, reqs[r].stamp)
<1>1. n \in Nat /\ AttemptIds = 1..n /\ attempts \in Seq(AttemptRow) /\ MaxAttempts \in Nat
  BY AttemptsAreRows, TablesAssumption DEF DecidedInv, MarkInv, TypeInv, TablesTypeOK
<1>2. attempts' = Append(attempts, new) /\ n < MaxAttempts
  BY DEF InsertAttempt
<1>3. Seen(new) = SeenAs("ACTIVE", NoDraft, 0, 0)
  BY DEF Seen, NewAttempt
<1> HIDE DEF new
<1>4. /\ Len(attempts') = k /\ DOMAIN attempts' = 1..k /\ attempts'[k] = new
      /\ \A j \in 1..n : attempts'[j] = attempts[j]
  BY <1>1, <1>2
<1>5. k \in 1..MaxAttempts /\ k \notin AttemptIds /\ AttemptIds' = AttemptIds \cup {k}
  BY <1>1, <1>2, <1>4 DEF AttemptIds
<1>6. \A j \in 1..MaxAttempts : SeenOf(j)' = IF j = k THEN Seen(new) ELSE SeenOf(j)
  BY <1>1, <1>4, <1>5 DEF SeenOf, Seen, SeenAs
<1>7. lives' = [j \in 1..MaxAttempts |-> SeenOf(j)'] /\ lives = [j \in 1..MaxAttempts |-> SeenOf(j)]
  BY DEF lives
<1>8. lives' = [lives EXCEPT ![k] = Seen(new)]
  BY <1>5, <1>6, <1>7
<1>9. lives[k] = SeenAs("NONE", NoDraft, 0, 0)
  BY <1>5, <1>7 DEF SeenOf, SeenAs
<1> HIDE DEF k
<1>10. /\ lives[k].status = "NONE"
       /\ [lives[k] EXCEPT !.status = "ACTIVE"] = SeenAs("ACTIVE", NoDraft, 0, 0)
  BY <1>9 DEF SeenAs
<1>11. Life!Create(k)
  BY <1>3, <1>8, <1>10 DEF Life!Create, Life!Becomes
<1> QED
  BY <1>5, <1>11 DEF Life!Next, Life!Step

\* A save of an up-to-date handler is a step of the lifecycle.
LEMMA RowSaveLives ==
  ASSUME DecidedInv, NEW r \in Requests, RowSave(r), ~ Stale(r)
  PROVE  Life!Next
<1> DEFINE k == reqs[r].att
           d == reqs[r].draft
           w == attempts[k]
<1>1. /\ reqs[r].pc \in SavesAttempt /\ Decided(reqs[r])
      /\ HandlerOK(reqs[r], Len(attempts))
  BY DEF DecidedInv, MarkInv, TypeInv, HandlersOK, RowSave, ReviveAttempt, SaveDraftSave,
         LockSave, ReopenSave, At, SavesAttempt
<1>2. k \in AttemptIds /\ w \in AttemptRow
  BY <1>1, AttemptsAreRows DEF DecidedInv, MarkInv, TypeInv, HandlerOK
<1>3. reqs[r].row = w
  BY <1>1 DEF Stale, HandlerOK
<1>4. w.status \in {"ACTIVE", "LOCKED", "SUBMITTED"}
  BY <1>2 DEF AttemptRow, Statuses
<1>5. ASSUME NEW row, SaveRow(r, row)
      PROVE  /\ k \in 1..MaxAttempts
             /\ lives[k] = SeenAs(w.status, w.draft, w.incidents, w.reopens)
             /\ lives' = [lives EXCEPT ![k] = Seen(row)]
  BY <1>2, <1>5, RowChanges DEF SaveRow, Seen
<1>6. ~ ReviveAttempt(r)
  BY <1>1 DEF Stale, Decided, ReviveAttempt, At
<1>7. CASE SaveDraftSave(r)
  <2>1. SaveRow(r, SavedRow(w, w, d)) /\ w.status = "ACTIVE" /\ d \in Answers
    BY <1>1, <1>3, <1>7 DEF SaveDraftSave, Stored, Decided, At
  <2>2. lives' = [lives EXCEPT ![k] = SeenAs("ACTIVE", d, w.incidents, w.reopens)]
    BY <1>2, <1>5, <2>1, FreshRows
  <2>3. /\ lives[k].status = "ACTIVE" /\ k \in 1..MaxAttempts
        /\ [lives[k] EXCEPT !.draft = d] = SeenAs("ACTIVE", d, w.incidents, w.reopens)
    BY <1>5, <2>1 DEF SeenAs
  <2>4. Life!Save(k, d)
    BY <2>2, <2>3 DEF Life!Save, Life!Becomes
  <2> QED
    BY <2>1, <2>3, <2>4 DEF Life!Next, Life!Step
<1>8. CASE LockSave(r)
  <2>1. SaveRow(r, LockedRow(w, w, d)) /\ w.status # "SUBMITTED" /\ d \in Answers
    BY <1>1, <1>3, <1>8 DEF LockSave, Stored, Decided, At
  <2>2. lives' = [lives EXCEPT ![k] = SeenAs("LOCKED", d, w.incidents + 1, w.reopens)]
    BY <1>2, <1>5, <2>1, FreshRows
  <2>3. lives[k].status \in {"ACTIVE", "LOCKED"} /\ k \in 1..MaxAttempts
    BY <1>4, <1>5, <2>1 DEF SeenAs
  <2>4. LifeLock(lives[k], d) = SeenAs("LOCKED", d, w.incidents + 1, w.reopens)
    BY <1>5, <2>1, LifeRows
  <2>5. Life!Lock(k, d)
    BY <2>2, <2>3, <2>4 DEF Life!Lock, Life!Becomes, LifeLock
  <2> QED
    BY <2>1, <2>3, <2>5 DEF Life!Next, Life!Step
<1>9. CASE ReopenSave(r)
  <2>1. SaveRow(r, ReopenedRow(w, w)) /\ w.status # "SUBMITTED"
    BY <1>1, <1>3, <1>9 DEF ReopenSave, Stored, Decided, At
  <2>2. lives' = [lives EXCEPT ![k] = SeenAs("ACTIVE", w.draft, w.incidents, w.reopens + 1)]
    BY <1>2, <1>5, <2>1, FreshRows
  <2>3. lives[k].status \in {"ACTIVE", "LOCKED"} /\ k \in 1..MaxAttempts
    BY <1>4, <1>5, <2>1 DEF SeenAs
  <2>4. LifeReopen(lives[k]) = SeenAs("ACTIVE", w.draft, w.incidents, w.reopens + 1)
    <3>1. lives[k] = SeenAs(w.status, w.draft, w.incidents, w.reopens)
      BY <1>5, <2>1
    <3>2. LifeReopen(SeenAs(w.status, w.draft, w.incidents, w.reopens)) =
            SeenAs("ACTIVE", w.draft, w.incidents, w.reopens + 1)
      BY LifeReopens
    <3> QED
      BY <3>1, <3>2
  <2>5. Life!Reopen(k)
    BY <2>2, <2>3, <2>4 DEF Life!Reopen, Life!Becomes, LifeReopen
  <2> QED
    BY <2>3, <2>5 DEF Life!Next, Life!Step
<1> QED
  BY <1>6, <1>7, <1>8, <1>9 DEF RowSave

\* So is the save of a submission whose attempt is up to date.
LEMMA SubmitSaveLives ==
  ASSUME DecidedInv, NEW r \in Requests, SubmitSave(r), reqs[r].att # 0, ~ Stale(r)
  PROVE  Life!Next
<1> DEFINE k == reqs[r].att
           d == reqs[r].draft
           w == attempts[k]
<1>1. reqs[r].pc = "submit:save" /\ Decided(reqs[r]) /\ HandlerOK(reqs[r], Len(attempts))
  BY DEF DecidedInv, MarkInv, TypeInv, HandlersOK, SubmitSave, At
<1>2. k \in AttemptIds /\ w \in AttemptRow
  BY <1>1, AttemptsAreRows DEF DecidedInv, MarkInv, TypeInv, HandlerOK
<1>3. reqs[r].row = w /\ w.status = "ACTIVE" /\ d \in Answers
  BY <1>1 DEF Stale, Decided, MaySubmit
<1>4. attempts' = [attempts EXCEPT ![k] = SubmittedRow(w, w, d)]
  BY <1>3 DEF SubmitSave
<1>5. /\ k \in 1..MaxAttempts
      /\ lives[k] = SeenAs("ACTIVE", w.draft, w.incidents, w.reopens)
      /\ lives' = [lives EXCEPT ![k] = SeenAs("SUBMITTED", d, w.incidents, w.reopens)]
  <2> DEFINE row == SubmittedRow(w, w, d)
  <2>1. Seen(row) = SeenAs("SUBMITTED", d, w.incidents, w.reopens)
    BY <1>2, FreshRows
  <2>2. attempts' = [attempts EXCEPT ![k] = row]
    BY <1>4
  <2> HIDE DEF row
  <2>3. /\ k \in 1..MaxAttempts /\ lives[k] = Seen(w)
        /\ lives' = [lives EXCEPT ![k] = Seen(row)]
    BY <1>2, <2>2, RowChanges
  <2> QED
    BY <1>3, <2>1, <2>3 DEF Seen
<1>6. lives[k].status = "ACTIVE"
  BY <1>5 DEF SeenAs
<1>7. LifeSubmit(lives[k], d) = SeenAs("SUBMITTED", d, w.incidents, w.reopens)
  BY <1>5, LifeRows
<1>8. Life!Submit(k, d)
  BY <1>5, <1>6, <1>7 DEF Life!Submit, Life!Becomes, LifeSubmit
<1> QED
  BY <1>3, <1>5, <1>8 DEF Life!Next, Life!Step

(***************************************************************************)
(* A save, stale or not, changes one attempt and ends or moves its         *)
(* handler.                                                                *)
(***************************************************************************)
LEMMA OneRowSaved ==
  ASSUME DecidedInv, NEW r \in Requests, RowSave(r) \/ (SubmitSave(r) /\ reqs[r].att # 0)
  PROVE  /\ reqs'[r] # reqs[r]
         /\ \A k \in 1..MaxAttempts : k # reqs[r].att => lives'[k] = lives[k]
<1>1. reqs \in [Requests -> Request] /\ HandlerOK(reqs[r], Len(attempts))
  BY DEF DecidedInv, MarkInv, TypeInv, HandlersOK
<1>2. PICK row : attempts' = [attempts EXCEPT ![reqs[r].att] = row]
  BY DEF RowSave, ReviveAttempt, SaveDraftSave, LockSave, ReopenSave, SaveRow, SubmitSave
<1>3. reqs[r].att \in AttemptIds
  BY <1>1, AttemptsAreRows
     DEF DecidedInv, MarkInv, TypeInv, HandlerOK, RowSave, ReviveAttempt, SaveDraftSave,
         LockSave, ReopenSave, At, SavesAttempt
<1>4. lives' = [lives EXCEPT ![reqs[r].att] = Seen(row)]
  BY <1>2, <1>3, RowChanges
<1>5. \A k \in 1..MaxAttempts : k # reqs[r].att => lives'[k] = lives[k]
  BY <1>4 DEF lives
<1>6. CASE RowSave(r)
  <2>1. reqs[r].pc \in SavesAttempt /\ reqs'[r] = Idle
    BY <1>1, <1>6 DEF RowSave, ReviveAttempt, SaveDraftSave, LockSave, ReopenSave, SaveRow,
                      Return, At, SavesAttempt
  <2> QED
    BY <1>5, <2>1 DEF Idle, SavesAttempt
<1>7. CASE SubmitSave(r)
  <2>1. reqs[r].pc = "submit:save" /\ reqs' = [reqs EXCEPT ![r].pc = "submit:ids"]
    BY <1>7 DEF SubmitSave, At, Goto
  <2>2. reqs'[r].pc = "submit:ids"
    BY <1>1, <2>1 DEF Request
  <2> QED
    BY <1>5, <2>1, <2>2
<1> QED
  BY <1>6, <1>7

LEMMA NextLives ==
  ASSUME DecidedInv, [Next]_vars
  PROVE  \/ [Life!Next]_lives
         \/ \E r \in Requests :
               /\ Stale(r) /\ reqs'[r] # reqs[r]
               /\ \A k \in 1..MaxAttempts : k # reqs[r].att => lives'[k] = lives[k]
<1>1. CASE UNCHANGED attempts
  <2>1. UNCHANGED lives
    BY <1>1 DEF lives, SeenOf, AttemptIds
  <2> QED
    BY <2>1
<1>2. ASSUME NEW r \in Requests, SubmitSave(r), reqs[r].att = 0
      PROVE  UNCHANGED attempts
  BY <1>2 DEF SubmitSave
<1> QED
  BY <1>1, <1>2, StepKinds, InsertLives, RowSaveLives, SubmitSaveLives, OneRowSaved

(***************************************************************************)
(* Whatever number of requests overlap, an attempt leaves its lifecycle    *)
(* only by the save of a request that is stale, and that save changes no   *)
(* other attempt.                                                          *)
(***************************************************************************)
THEOREM LifecycleUnlessStaleHolds == Spec => LifecycleUnlessStale
BY InitDecided, NextDecidedInv, NextLives, PTL DEF Spec, LifecycleUnlessStale

----------------------------------------------------------------------------
(***************************************************************************)
(* One request at a time.  What a handler carries to its save is then what *)
(* the tables hold, and the revival of GetCurrent is never reached.        *)
(***************************************************************************)
UpToDate(q) ==
  /\ q.pc \in SavesAttempt \/ (q.pc \in MaySubmit /\ q.att # 0) => q.row = attempts[q.att]
  /\ q.pc = "current:find" => q.has = HasSubmit(q.asg)
  /\ q.pc # "revive"

SerialInv == DecidedInv /\ \A r \in Requests : UpToDate(reqs[r])

\* The handler that changes the attempts or the submit rows is done with them.
LEMMA WriterIsDone ==
  ASSUME DecidedInv, [Next]_vars
  PROVE  \/ UNCHANGED << attempts, submits >>
         \/ \E r \in Requests : reqs'[r].pc \in {"idle", "submit:ids"}
<1>1. reqs \in [Requests -> Request]
  BY DEF DecidedInv, MarkInv, TypeInv, HandlersOK
<1>2. ASSUME NEW r \in Requests, RowSave(r) \/ InsertAttempt(r)
      PROVE  reqs'[r].pc = "idle"
  <2>1. reqs'[r] = Idle
    BY <1>1, <1>2 DEF RowSave, ReviveAttempt, SaveDraftSave, LockSave, ReopenSave, SaveRow,
                      InsertAttempt, Return
  <2> QED
    BY <2>1 DEF Idle
<1>3. ASSUME NEW r \in Requests, SubmitSave(r)
      PROVE  reqs'[r].pc = "submit:ids"
  <2>1. reqs' = [reqs EXCEPT ![r].pc = "submit:ids"]
    BY <1>3 DEF SubmitSave, Goto
  <2> QED
    BY <1>1, <2>1 DEF Request
<1> QED
  BY <1>2, <1>3, StepKinds

LEMMA NextUpToDate ==
  ASSUME \A q, r \in Requests : q = r, SerialInv, [Next]_vars, NEW p \in Requests
  PROVE  UpToDate(reqs[p])'
<1> DEFINE old == reqs[p]
           new == reqs'[p]
<1>0. DecidedInv /\ TypeInv /\ UpToDate(old)
  BY DEF SerialInv, DecidedInv, MarkInv
<1>1. CASE new.pc \notin Carrying
  BY <1>1, CarryingPcs DEF UpToDate, SavesAttempt, MaySubmit
<1>2. CASE UNCHANGED << attempts, submits >> /\ new = old
  BY <1>0, <1>2 DEF UpToDate, HasSubmit, SubmitsOf
<1>3. CASE UNCHANGED << attempts, submits >> /\ new.pc \in Carrying /\ DecidesNow(old, new)
  <2>1. attempts' = attempts /\ \A a : HasSubmit(a)' <=> HasSubmit(a)
    BY <1>3 DEF HasSubmit, SubmitsOf
  <2>2. new.pc # "revive"
    <3> SUFFICES ASSUME new.pc = "revive" PROVE FALSE
      OBVIOUS
    <3>1. /\ LoadsNow(new) /\ attempts[new.att].asg = new.asg
          /\ NeedsRevival(new.row, new.has)
          /\ old.pc = "current:find" /\ old.asg = new.asg /\ old.has = new.has
      BY <1>3 DEF DecidesNow
    <3>2. HasSubmit(new.asg)
      BY <1>0, <3>1, SubmittedHasSubmit DEF LoadsNow, NeedsRevival
    <3> QED
      BY <1>0, <3>1, <3>2 DEF UpToDate, NeedsRevival
  <2>3. new.pc = "current:find" => new.has = HasSubmit(new.asg)
    BY <1>3 DEF DecidesNow
  <2>4. new.pc \in SavesAttempt => new.row = attempts[new.att]
    BY <1>0, <1>3, <2>2 DEF DecidesNow, LoadsNow, CarriesOn, UpToDate, SavesAttempt
  <2>5. new.pc \in MaySubmit /\ new.att # 0 => new.row = attempts[new.att]
    BY <1>0, <1>3 DEF DecidesNow, LoadsNow, CarriesOn, UpToDate, MaySubmit
  <2> QED
    BY <2>1, <2>2, <2>3, <2>4, <2>5 DEF UpToDate
<1>4. CASE \E r \in Requests : reqs'[r].pc \in {"idle", "submit:ids"}
  BY <1>1, <1>4, CarryingPcs
<1> QED
  BY <1>0, <1>1, <1>2, <1>3, <1>4, WriterIsDone, NextDecides DEF Decides

LEMMA InitSerial == Init => SerialInv
<1>1. Init => \A r \in Requests : UpToDate(reqs[r])
  BY DEF Init, Idle, UpToDate, SavesAttempt, MaySubmit
<1> QED
  BY <1>1, InitDecided DEF SerialInv

LEMMA NextSerial ==
  ASSUME \A q, r \in Requests : q = r
  PROVE  SerialInv /\ [Next]_vars => SerialInv'
<1> SUFFICES ASSUME SerialInv, [Next]_vars PROVE SerialInv'
  OBVIOUS
<1>1. DecidedInv'
  BY NextDecidedInv DEF SerialInv
<1> QED
  BY <1>1, NextUpToDate DEF SerialInv

LEMMA SerialLives ==
  ASSUME SerialInv, [Next]_vars
  PROVE  [Life!Next]_lives
<1>0. DecidedInv
  BY DEF SerialInv
<1>1. CASE UNCHANGED attempts
  BY <1>1 DEF lives, SeenOf, AttemptIds
<1>2. ASSUME NEW r \in Requests, SubmitSave(r), reqs[r].att = 0
      PROVE  UNCHANGED attempts
  BY <1>2 DEF SubmitSave
<1>3. ASSUME NEW r \in Requests, RowSave(r) \/ (SubmitSave(r) /\ reqs[r].att # 0)
      PROVE  ~ Stale(r)
  BY <1>3 DEF SerialInv, UpToDate, Stale, RowSave, ReviveAttempt, SaveDraftSave, LockSave,
              ReopenSave, SubmitSave, At, SavesAttempt, MaySubmit
<1> QED
  BY <1>0, <1>1, <1>2, <1>3, StepKinds, InsertLives, RowSaveLives, SubmitSaveLives

LEMMA InitLives == Init => Life!Init
BY DEF Init, TablesInit, lives, SeenOf, AttemptIds, Life!Init, Life!NotCreated

(***************************************************************************)
(* When every request runs to its end (or dies) before the next one        *)
(* arrives, the endpoints implement AttemptLifecycle, for any number of    *)
(* students and attempts and wherever a request dies.                      *)
(***************************************************************************)
THEOREM SerialRequestsLiveLifecycle ==
  ASSUME \A q, r \in Requests : q = r
  PROVE  Spec => Lifecycle
<1>1. SerialInv /\ [Next]_vars => SerialInv'
  BY NextSerial
<1>2. SerialInv /\ [Next]_vars => [Life!Next]_lives
  BY SerialLives
<1> QED
  BY <1>1, <1>2, InitSerial, InitLives, PTL DEF Spec, Lifecycle, Life!Spec

\* No step of the lifecycle leaves the status SUBMITTED.
LEMMA SubmittedIsFinal ==
  ASSUME Life!Next, NEW k \in 1..MaxAttempts, lives[k].status = "SUBMITTED"
  PROVE  lives'[k] = lives[k]
<1>1. PICK j \in 1..MaxAttempts : Life!Step(j)
  BY DEF Life!Next
<1>2. \E row : lives' = [lives EXCEPT ![j] = row]
  BY <1>1 DEF Life!Step, Life!Create, Life!Save, Life!Lock, Life!Reopen, Life!Submit,
              Life!Becomes
<1>3. lives[j].status \in {"NONE", "ACTIVE", "LOCKED"}
  BY <1>1 DEF Life!Step, Life!Create, Life!Save, Life!Lock, Life!Reopen, Life!Submit
<1> QED
  BY <1>2, <1>3 DEF lives

(***************************************************************************)
(* "Submitted attempts cannot be reopened" is true of requests that do not *)
(* overlap (and only of them: see the run submitted_reopened).              *)
(***************************************************************************)
THEOREM SerialSubmittedIsFinal ==
  ASSUME \A q, r \in Requests : q = r
  PROVE  Spec => SubmittedNotReopened
<1>1. SerialInv /\ [Next]_vars => SerialInv'
  BY NextSerial
<1>2. ASSUME SerialInv, [Next]_vars
      PROVE  \A k \in AttemptIds :
                attempts[k].status = "SUBMITTED" => attempts'[k].status # "ACTIVE"
  <2> SUFFICES ASSUME NEW k \in AttemptIds, attempts[k].status = "SUBMITTED"
               PROVE  attempts'[k].status # "ACTIVE"
    OBVIOUS
  <2>1. DecidedInv /\ k \in AttemptIds'
    BY <1>2, TablesGrow DEF SerialInv, DecidedInv, MarkInv
  <2>2. k \in 1..MaxAttempts
    BY <2>1, AttemptsAreRows, TablesAssumption
       DEF DecidedInv, MarkInv, TypeInv, RowsFit
  <2>3. lives[k].status = attempts[k].status /\ lives'[k].status = attempts'[k].status
    BY <2>1, <2>2 DEF lives, SeenOf
  <2>4. [Life!Next]_lives
    BY <1>2, SerialLives
  <2>5. lives'[k] = lives[k]
    BY <2>2, <2>3, <2>4, SubmittedIsFinal
  <2> QED
    BY <2>3, <2>5
<1> QED
  BY <1>1, <1>2, InitSerial, PTL DEF Spec, SubmittedNotReopened

=============================================================================
