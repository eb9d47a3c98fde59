-------------------------- MODULE StudentPage_proofs --------------------------
(***************************************************************************)
(* Theorems about the student's page, for any scenario: whatever the       *)
(* student, the teacher and the clock may do, with any contents, any       *)
(* number of openings and reopenings, broken connections and lost calls.   *)
(***************************************************************************)
EXTENDS StudentPage, FiniteSetTheorems, TLAPS

----------------------------------------------------------------------------
(***************************************************************************)
(* Types of the operators.                                                 *)
(***************************************************************************)
\* The forms of a component.
LEMMA PageOperators ==
  ASSUME NEW p \in Page
  PROVE  /\ Mounted(p) \in Page
         /\ \A view \in {"closed", "away"} : Unmounted(p, view) \in Page
         /\ SaveSettled(p) \in Page
<1>1. Mounted(p) \in Page
  <2> DEFINE seen == [status |-> "NONE", locked |-> FALSE, busy |-> FALSE]
  <2>1. seen \in [status : Statuses, locked : BOOLEAN, busy : BOOLEAN]
    BY DEF Statuses
  <2>2. Blank \in Contents /\ NoDraft \in Drafts
    BY PageAssumption DEF Drafts
  <2> DEFINE q1 == [p EXCEPT !.seen = seen]
             q2 == [q1 EXCEPT !.view = "open", !.rows = Blank, !.queued = NoDraft]
             q3 == [q2 EXCEPT !.hydrated = FALSE, !.dirty = TRUE, !.fresh = TRUE]
             q4 == [q3 EXCEPT !.optimistic = FALSE, !.timer = FALSE, !.blocking = FALSE]
             q5 == [q4 EXCEPT !.hub = "none", !.armed = "no", !.missed = FALSE]
  <2>3. q1 \in Page
    <3> HIDE DEF seen
    <3> QED
      BY <2>1 DEF Page
  <2> HIDE DEF q1
  <2>4. q2 \in Page
    BY <2>2, <2>3 DEF Page
  <2> HIDE DEF q2
  <2>5. q3 \in Page
    BY <2>4 DEF Page
  <2> HIDE DEF q3
  <2>6. q4 \in Page
    BY <2>5 DEF Page
  <2> HIDE DEF q4
  <2>7. q5 \in Page
    BY <2>6 DEF Page
  <2>8. Mounted(p) = q5
    BY DEF Mounted, q1, q2, q3, q4, Page
  <2> QED
    BY <2>7, <2>8
<1>2. \A view \in {"closed", "away"} : Unmounted(p, view) \in Page
  BY DEF Page, Unmounted, Drafts
<1>3. SaveSettled(p) \in Page
  BY DEF Page, SaveSettled
<1> QED
  BY <1>1, <1>2, <1>3

LEMMA GivenType ==
  ASSUME NEW p \in Page, NEW c \in Call
  PROVE  Given(p, c) \in Page
<1> DEFINE o == c.op = "lock" /\ c.row.status = "SUBMITTED" /\ row.status # "SUBMITTED"
           g == [p EXCEPT !.data = c.row, !.current = c.current, !.invalid = FALSE]
           q == [p EXCEPT !.data = c.row, !.current = c.current, !.invalid = FALSE, !.overruled = o]
<1>1. q \in Page
  <2>1. g \in Page
    BY DEF Page, Call
  <2>2. \A b \in BOOLEAN : [g EXCEPT !.overruled = b] \in Page
    <3> HIDE DEF g
    <3> QED
      BY <2>1 DEF Page
  <2>3. q = [g EXCEPT !.overruled = o]
    <3> HIDE DEF o
    <3> QED
      BY DEF Page
  <2>4. o \in BOOLEAN
    OBVIOUS
  <2> HIDE DEF o, g, q
  <2> QED
    BY <2>2, <2>3, <2>4
<1>2. \A d, m \in BOOLEAN : [q EXCEPT !.dirty = d, !.fresh = TRUE, !.missed = m] \in Page
  <2> HIDE DEF q
  <2> QED
    BY <1>1 DEF Page
<1>3. q.dirty \in BOOLEAN /\ q.missed \in BOOLEAN
  BY <1>1 DEF Page
<1> QED
  BY <1>1, <1>2, <1>3 DEF Given

LEMMA RenderedType ==
  ASSUME NEW p \in Page, NEW busy \in BOOLEAN
  PROVE  Rendered(p, busy) \in Page
<1> DEFINE again == HydratedRows(p) # p.rows \/ (UnlocksOptimism(p) /\ p.optimistic)
           seen == [status |-> p.data.status, locked |-> AttemptLocked(p), busy |-> busy]
           o == p.optimistic /\ ~ UnlocksOptimism(p)
           h == p.hydrated \/ Hydrates(p)
           t == p.timer \/ Enqueues(p)
           qu == IF Enqueues(p) THEN p.rows ELSE p.queued
<1>1. AttemptLocked(p) \in BOOLEAN /\ again \in BOOLEAN /\ o \in BOOLEAN /\ h \in BOOLEAN
      /\ t \in BOOLEAN /\ qu \in Drafts
  BY DEF AttemptLocked, UnlocksOptimism, Hydrates, Enqueues, Page, Drafts
<1>2. seen \in [status : Statuses, locked : BOOLEAN, busy : BOOLEAN]
  BY <1>1 DEF Page, Row
<1>3. HydratedRows(p) \in Contents
  BY DEF HydratedRows, Page, Row, Drafts
<1>4. ArmedBy(p, busy) \in {"no", "yes", "fired"}
  BY DEF ArmedBy
<1> DEFINE q1 == [p EXCEPT !.seen = seen]
           q2 == [q1 EXCEPT !.optimistic = o, !.hydrated = h]
           q3 == [q2 EXCEPT !.rows = HydratedRows(p), !.queued = qu]
           q4 == [q3 EXCEPT !.timer = t, !.armed = ArmedBy(p, busy)]
           q5 == [q4 EXCEPT !.dirty = again, !.fresh = again]
<1>5. Rendered(p, busy) = q5
  BY DEF Rendered
<1> HIDE DEF again, seen, o, h, t, qu
<1>6. q1 \in Page
  BY <1>2 DEF Page
<1> HIDE DEF q1
<1>7. q2 \in Page
  BY <1>1, <1>6 DEF Page
<1> HIDE DEF q2
<1>8. q3 \in Page
  BY <1>1, <1>3, <1>7 DEF Page
<1> HIDE DEF q3
<1>9. q4 \in Page
  BY <1>1, <1>4, <1>8 DEF Page
<1> HIDE DEF q4
<1>10. q5 \in Page
  BY <1>1, <1>9 DEF Page
<1> QED
  BY <1>5, <1>10

\* The calls that the page sends.
LEMMA NewCallType ==
  ASSUME NEW op \in {"get", "save", "lock", "beacon", "submit", "blind"},
         NEW to \in {"page", "cache", "nobody"}, NEW d \in Drafts
  PROVE  NewCall(op, to, d) \in Call
BY DEF NewCall, Call, NoRow, Row, Drafts, Statuses

LEMMA CallTypes ==
  /\ GetCall \in Call
  /\ \A d \in Drafts : SaveCall(d) \in Call /\ LockCall(d) \in Call /\ BeaconCall(d) \in Call
  /\ \A p \in Page, auto \in BOOLEAN : SubmitCall(p, auto) \in Call
<1>1. NoDraft \in Drafts /\ \A p \in Page : p.rows \in Drafts
  BY DEF Drafts, Page
<1>2. GetCall \in Call
  BY <1>1, NewCallType DEF GetCall
<1>3. \A d \in Drafts : SaveCall(d) \in Call /\ LockCall(d) \in Call /\ BeaconCall(d) \in Call
  BY NewCallType DEF SaveCall, LockCall, BeaconCall
<1>4. ASSUME NEW p \in Page, NEW auto \in BOOLEAN PROVE SubmitCall(p, auto) \in Call
  <2> DEFINE c == NewCall(IF p.data = NoRow THEN "blind" ELSE "submit", "page", p.rows)
  <2>1. c \in Call
    BY <1>1, NewCallType
  <2>2. [c EXCEPT !.auto = auto] \in Call
    <3> HIDE DEF c
    <3> QED
      BY <2>1 DEF Call
  <2> QED
    BY <2>2 DEF SubmitCall
<1> QED
  BY <1>2, <1>3, <1>4

LEMMA AnswerTypes ==
  ASSUME NEW c \in Call
  PROVE  /\ After(c) \subseteq Call
         /\ \A p \in {page} : page \in Page => Orphan(c) \subseteq Call
         /\ \A r \in Row : [c EXCEPT !.at = "read", !.row = r] \in Call
         /\ \A at \in {"answered", "refused"}, r \in Row, k \in BOOLEAN :
              [c EXCEPT !.at = at, !.row = r, !.draft = NoDraft, !.current = k] \in Call
         /\ \A k \in BOOLEAN : [c EXCEPT !.current = k] \in Call
<1>1. After(c) \subseteq Call
  <2>1. NewCall("save", "nobody", c.next) \in Call
    BY NewCallType DEF Call
  <2>2. [NewCall("save", "nobody", c.next) EXCEPT !.next = NoDraft] \in Call
    BY <2>1 DEF Call, Drafts
  <2> QED
    BY <2>2 DEF After
<1>2. ASSUME page \in Page PROVE Orphan(c) \subseteq Call
  <2>1. [c EXCEPT !.to = "cache"] \in Call
    BY DEF Call
  <2>2. \A d \in Drafts : [c EXCEPT !.to = "nobody", !.next = d] \in Call
    BY DEF Call
  <2>3. page.queued \in Drafts /\ c.next \in Drafts
    BY <1>2 DEF Page, Call
  <2>4. [c EXCEPT !.to = "nobody", !.next = IF c.op = "save" /\ ~ page.timer THEN page.queued ELSE c.next] \in Call
    BY <2>2, <2>3
  <2>5. After([c EXCEPT !.to = "nobody", !.next = IF c.op = "save" /\ ~ page.timer THEN page.queued ELSE c.next]) \subseteq Call
    <3> DEFINE left == [c EXCEPT !.to = "nobody", !.next = IF c.op = "save" /\ ~ page.timer THEN page.queued ELSE c.next]
    <3>1. left.next \in Drafts
      BY <2>4 DEF Call
    <3>2. NewCall("save", "nobody", left.next) \in Call
      <4> HIDE DEF left
      <4> QED
        BY <3>1, NewCallType
    <3>3. [NewCall("save", "nobody", left.next) EXCEPT !.next = NoDraft] \in Call
      <4> HIDE DEF left
      <4> QED
        BY <3>2 DEF Call, Drafts
    <3> HIDE DEF left
    <3>4. After(left) \subseteq Call
      BY <3>3 DEF After
    <3> QED
      BY <3>4 DEF left
  <2> QED
    BY <2>1, <2>4, <2>5 DEF Orphan
<1>3. /\ \A r \in Row : [c EXCEPT !.at = "read", !.row = r] \in Call
      /\ \A at \in {"answered", "refused"}, r \in Row, k \in BOOLEAN :
           [c EXCEPT !.at = at, !.row = r, !.draft = NoDraft, !.current = k] \in Call
      /\ \A k \in BOOLEAN : [c EXCEPT !.current = k] \in Call
  BY DEF Call, Drafts
<1> QED
  BY <1>1, <1>2, <1>3

\* What the forms of a component leave alone, and what they set.
LEMMA GivenFields ==
  ASSUME NEW p \in Page, NEW c \in Call
  PROVE  /\ Given(p, c).view = p.view /\ Given(p, c).opens = p.opens /\ Given(p, c).rows = p.rows /\ Given(p, c).seen = p.seen
         /\ Given(p, c).optimistic = p.optimistic /\ Given(p, c).queued = p.queued /\ Given(p, c).timer = p.timer
         /\ Given(p, c).armed = p.armed /\ Given(p, c).blocking = p.blocking
         /\ Given(p, c).data = c.row /\ Given(p, c).current = c.current /\ Given(p, c).invalid = FALSE
         /\ p.view = "open" =>
              /\ Given(p, c).fresh = TRUE
              /\ Given(p, c).dirty = (p.dirty \/ c.row # p.data \/ ~ (c.current /\ p.current))
              /\ Given(p, c).missed = (p.missed \/ (p.data.status # p.seen.status
                                            /\ c.row.status = p.seen.status))
<1> DEFINE q == Given(p, c)
<1>1. /\ q.view = p.view /\ q.opens = p.opens /\ q.rows = p.rows /\ q.seen = p.seen
      /\ q.queued = p.queued /\ q.armed = p.armed
      /\ q.data = c.row /\ q.current = c.current /\ q.invalid = FALSE
  BY DEF Given, Page
<1>2. q.optimistic = p.optimistic
  BY DEF Given, Page
<1>3. q.timer = p.timer /\ q.blocking = p.blocking
  BY DEF Given, Page
<1>4. p.view = "open" =>
        /\ q.fresh = TRUE
        /\ q.dirty = (p.dirty \/ c.row # p.data \/ ~ (c.current /\ p.current))
        /\ q.missed = (p.missed \/ (p.data.status # p.seen.status /\ c.row.status = p.seen.status))
  BY DEF Given, Page
<1> QED
  BY <1>1, <1>2, <1>3, <1>4

LEMMA GivenOpens ==
  ASSUME NEW p \in Page, NEW c \in Call
  PROVE  /\ Given(p, c) \in Page /\ Given(p, c).opens = p.opens
         /\ Given(p, c).data = c.row /\ Given(p, c).view = p.view
<1>1. Given(p, c) \in Page
  BY GivenType
<1>2. Given(p, c).opens = p.opens /\ Given(p, c).data = c.row /\ Given(p, c).view = p.view
  BY DEF Given, Page
<1> QED
  BY <1>1, <1>2

LEMMA UnmountedFields ==
  ASSUME NEW p \in Page, NEW view \in {"closed", "away"}
  PROVE  /\ Unmounted(p, view).view = view /\ Unmounted(p, view).opens = p.opens /\ Unmounted(p, view).rows = p.rows /\ Unmounted(p, view).data = p.data
         /\ Unmounted(p, view).current = p.current /\ Unmounted(p, view).invalid = p.invalid /\ Unmounted(p, view).armed = p.armed
BY DEF Unmounted, Page

LEMMA OpensType == ASSUME NEW p \in Page, NEW n \in Nat PROVE [p EXCEPT !.opens = n] \in Page
BY DEF Page

LEMMA MountedFields ==
  ASSUME NEW p \in Page, NEW q, q = [Mounted(p) EXCEPT !.opens = @ + 1]
  PROVE  /\ q \in Page
         /\ q.view = "open" /\ q.opens = p.opens + 1 /\ q.data = p.data
         /\ q.current = p.current /\ q.invalid = p.invalid /\ q.armed = "no"
         /\ q.dirty = TRUE /\ q.fresh = TRUE /\ q.optimistic = FALSE
<1>1. Mounted(p) \in Page
  BY PageOperators
<1>2. /\ Mounted(p).view = "open" /\ Mounted(p).opens = p.opens /\ Mounted(p).data = p.data
      /\ Mounted(p).current = p.current /\ Mounted(p).invalid = p.invalid
      /\ Mounted(p).armed = "no" /\ Mounted(p).dirty = TRUE /\ Mounted(p).fresh = TRUE
      /\ Mounted(p).optimistic = FALSE
  BY DEF Mounted, Page
<1> DEFINE m == Mounted(p)
<1>3. m \in Page /\ m.opens = p.opens /\ m.opens + 1 \in Nat
  BY <1>1, <1>2 DEF Page
<1> HIDE DEF m
<1>4. q = [m EXCEPT !.opens = m.opens + 1]
  BY DEF m
<1>5. q \in Page
  <2>1. \A n \in Nat : [m EXCEPT !.opens = n] \in Page
    BY <1>3, OpensType
  <2> QED
    BY <1>3, <1>4, <2>1, Zenon
<1>6. q.opens = m.opens + 1 /\ \A f \in DOMAIN m \ {"opens"} : q[f] = m[f]
  BY <1>3, <1>4 DEF Page
<1>7. /\ q.view = m.view /\ q.data = m.data /\ q.current = m.current /\ q.invalid = m.invalid
      /\ q.armed = m.armed
  BY <1>3, <1>6 DEF Page
<1>8. q.dirty = m.dirty
  BY <1>3, <1>6 DEF Page
<1>9. q.fresh = m.fresh
  BY <1>3, <1>6 DEF Page
<1>10. q.optimistic = m.optimistic
  BY <1>3, <1>6 DEF Page
<1> QED
  BY <1>2, <1>3, <1>5, <1>6, <1>7, <1>8, <1>9, <1>10 DEF m

LEMMA RenderedFields ==
  ASSUME NEW p \in Page, NEW busy \in BOOLEAN, NEW q, q = Rendered(p, busy)
  PROVE  /\ q.view = p.view /\ q.opens = p.opens /\ q.data = p.data /\ q.current = p.current
         /\ q.invalid = p.invalid /\ q.blocking = p.blocking /\ q.missed = p.missed
         /\ q.seen.status = p.data.status /\ q.seen.locked = AttemptLocked(p)
         /\ q.optimistic = (p.optimistic /\ ~ UnlocksOptimism(p))
         /\ q.rows = HydratedRows(p)
         /\ q.queued = IF Enqueues(p) THEN p.rows ELSE p.queued
         /\ q.timer = (p.timer \/ Enqueues(p))
         /\ q.armed = ArmedBy(p, busy)
         /\ q.dirty = (HydratedRows(p) # p.rows \/ (UnlocksOptimism(p) /\ p.optimistic))
         /\ q.fresh = q.dirty
BY DEF Rendered, Page

\* Sets of calls.
LEMMA CallSets ==
  ASSUME NEW cs \in SUBSET Call
  PROVE  /\ \A c \in Call, at \in {"answered", "refused"}, r \in Row, k \in BOOLEAN :
              Answered(c, cs, at, r, k) \subseteq Call
         /\ Outdated(cs) \subseteq Call
         /\ Refetch(cs) \subseteq Call
         /\ page \in Page => UNION {Orphan(c) : c \in cs} \subseteq Call
<1>1. ASSUME NEW c \in Call, NEW at \in {"answered", "refused"}, NEW r \in Row, NEW k \in BOOLEAN
      PROVE  Answered(c, cs, at, r, k) \subseteq Call
  <2>1. [c EXCEPT !.at = at, !.row = r, !.draft = NoDraft, !.current = k] \in Call
        /\ After(c) \subseteq Call
    BY AnswerTypes
  <2> QED
    BY <2>1 DEF Answered
<1>2. Outdated(cs) \subseteq Call
  BY AnswerTypes DEF Outdated
<1>3. Refetch(cs) \subseteq Call
  BY CallTypes DEF Refetch
<1>4. page \in Page => UNION {Orphan(c) : c \in cs} \subseteq Call
  BY AnswerTypes
<1> QED
  BY <1>1, <1>2, <1>3, <1>4

----------------------------------------------------------------------------
(***************************************************************************)
(* Types.                                                                  *)
(***************************************************************************)
TypeInv ==
  /\ scenario \in Scenarios
  /\ row \in Row /\ submits \in Nat /\ window \in {"open", "closing", "over"}
  /\ reopens \in 0..scenario.reopens
  /\ calls \in SUBSET Call
  /\ news \in BOOLEAN /\ behind \in BOOLEAN
  /\ page \in Page /\ page.opens <= scenario.opens

LEMMA InitTypes == Init => TypeInv
<1> SUFFICES ASSUME Init PROVE TypeInv
  OBVIOUS
<1>1. row \in Row
  BY DEF Init, NoRow, Row, Drafts, Statuses
<1>2. scenario.reopens \in Nat /\ scenario.opens \in Nat
  BY PageAssumption DEF Init, Scenario
<1>3. page \in Page /\ page.opens = 0 /\ 0 \in 0..scenario.reopens
  <2>1. Blank \in Contents /\ NoDraft \in Drafts /\ NoRow \in Row
    BY PageAssumption DEF Drafts, NoRow, Row, Statuses
  <2>2. [status |-> "NONE", locked |-> FALSE, busy |-> FALSE]
          \in [status : Statuses, locked : BOOLEAN, busy : BOOLEAN]
    BY DEF Statuses
  <2>3. page.opens = 0
    BY DEF Init
  <2>4. page \in Page
    BY <2>1, <2>2 DEF Init, Page
  <2> QED
    BY <1>2, <2>3, <2>4
<1>4. /\ scenario \in Scenarios /\ submits = 0 /\ window = "open" /\ reopens = 0
      /\ calls = {} /\ news = FALSE /\ behind = FALSE
  BY DEF Init
<1>5. calls \in SUBSET Call /\ page.opens <= scenario.opens
  BY <1>2, <1>3, <1>4
<1>6. reopens \in 0..scenario.reopens
  BY <1>2, <1>4
<1> QED
  BY <1>1, <1>3, <1>4, <1>5, <1>6 DEF TypeInv

LEMMA SavedTypes ==
  ASSUME TypeInv, NEW c \in calls, NEW r \in Row, Saved(c, r)
  PROVE  calls' \in SUBSET Call /\ page' \in Page /\ page'.opens = page.opens
<1>1. calls \in SUBSET Call /\ c \in Call /\ page \in Page
  BY DEF TypeInv
<1>2. Outdated(calls) \cup {c} \in SUBSET Call
  BY <1>1, CallSets
<1>3. (r # NoRow) \in BOOLEAN
  OBVIOUS
<1>4. calls' \in SUBSET Call
  BY <1>1, <1>2, <1>3, CallSets DEF Saved
<1>5. page' \in Page /\ page'.opens = page.opens
  BY <1>1 DEF Saved, Page
<1> QED
  BY <1>4, <1>5

LEMMA ServerTypes ==
  ASSUME TypeInv, NEW c \in calls, ServerStep(c)
  PROVE  TypeInv'
<1>1. calls \in SUBSET Call /\ c \in Call /\ page \in Page /\ row \in Row /\ NoRow \in Row
      /\ submits + 1 \in Nat
  BY PageAssumption DEF TypeInv, NoRow, Row, Drafts, Statuses
<1>2. c.draft \in Drafts /\ c.row \in Row /\ c.current \in BOOLEAN
  BY <1>1 DEF Call
<1>3. /\ \A at \in {"answered", "refused"}, r \in Row, k \in BOOLEAN :
           Answered(c, calls, at, r, k) \subseteq Call
      /\ (calls \ {c}) \cup {[c EXCEPT !.at = "read", !.row = row]} \subseteq Call
  BY <1>1, CallSets, AnswerTypes
<1>4. CASE RefuseGet(c)
  BY <1>1, <1>3, <1>4 DEF RefuseGet, Refuse, TypeInv, server
<1>5. CASE LoadSave(c) \/ LoadLock(c) \/ LoadSubmit(c)
  BY <1>1, <1>3, <1>5 DEF LoadSave, LoadLock, LoadSubmit, Refuse, Loaded, TypeInv, server
<1>6. CASE ServeGet(c)
  <2>1. row' \in Row
    BY <1>1, <1>6 DEF ServeGet, Row, NoRow, Statuses, Drafts
  <2>2. calls' = Answered(c, calls, "answered", row', TRUE)
    BY <1>6 DEF ServeGet
  <2>3. behind' \in BOOLEAN
    BY <1>6 DEF ServeGet, TypeInv
  <2> QED
    BY <1>1, <1>3, <1>6, <2>1, <2>2, <2>3 DEF ServeGet, TypeInv
<1>7. CASE StoreSave(c) \/ StoreLock(c)
  <2>1. row' \in Row
    <3>1. \A new \in Drafts : Write(row.draft, c.row.draft, new) \in Drafts
      BY <1>1 DEF Write, Row
    <3>2. \A new \in Statuses : Write(row.status, c.row.status, new) \in Statuses
      BY <1>1 DEF Write, Row
    <3>3. \A d \in Drafts, s \in Statuses : [row EXCEPT !.draft = d, !.status = s] \in Row
      BY <1>1 DEF Row
    <3>4. /\ \/ row' = [row EXCEPT !.draft = Write(row.draft, c.row.draft, c.draft),
                                   !.status = Write(row.status, c.row.status, "ACTIVE")]
             \/ row' = [row EXCEPT !.draft = Write(row.draft, c.row.draft, c.draft),
                                   !.status = Write(row.status, c.row.status, "LOCKED")]
          /\ "ACTIVE" \in Statuses /\ "LOCKED" \in Statuses
      BY <1>7 DEF StoreSave, StoreLock, Statuses
    <3> QED
      BY <1>2, <3>1, <3>2, <3>3, <3>4
  <2>2. [status |-> "LOCKED", draft |-> c.draft] \in Row
    BY <1>2 DEF Row, Statuses
  <2>3. calls' \in SUBSET Call /\ page' \in Page /\ page'.opens = page.opens
    BY <1>1, <1>7, <2>2, SavedTypes DEF StoreSave, StoreLock
  <2>4. news' \in BOOLEAN /\ behind' \in BOOLEAN
    BY <1>7 DEF StoreSave, StoreLock, Publish, Heard, TypeInv
  <2> QED
    BY <1>7, <2>1, <2>3, <2>4 DEF StoreSave, StoreLock, TypeInv
<1>8. CASE StoreSubmit(c)
  <2>1. row' \in Row
    BY <1>1, <1>2, <1>8 DEF StoreSubmit, Row, Write, Statuses
  <2>2. calls' \in SUBSET Call /\ page' \in Page /\ page'.opens = page.opens
    BY <1>1, <1>8, SavedTypes DEF StoreSubmit
  <2>3. behind' \in BOOLEAN
    BY <1>8 DEF StoreSubmit, TypeInv
  <2> QED
    BY <1>1, <1>8, <2>1, <2>2, <2>3 DEF StoreSubmit, TypeInv
<1> QED
  BY <1>4, <1>5, <1>6, <1>7, <1>8 DEF ServerStep

LEMMA OptimisticType ==
  ASSUME NEW p \in Page
  PROVE  /\ [p EXCEPT !.optimistic = TRUE, !.dirty = TRUE] \in Page
         /\ Optimistic(p) \in Page /\ Optimistic(p).opens = p.opens /\ Optimistic(p).view = p.view
<1> DEFINE q == [p EXCEPT !.optimistic = TRUE, !.dirty = TRUE]
<1>1. q \in Page /\ q.opens = p.opens /\ q.view = p.view
  BY DEF Page
<1> HIDE DEF q
<1>2. Rendered(q, TRUE) \in Page
  BY <1>1, RenderedType
<1>3. Rendered(q, TRUE).opens = p.opens /\ Rendered(q, TRUE).view = p.view
  BY <1>1, RenderedFields
<1> QED
  BY <1>1, <1>2, <1>3 DEF Optimistic, q

\* What a lock of the page shows at once, with the navigation it may hold.
LEMMA OptimisticFields ==
  ASSUME NEW p \in Page, NEW q, q = Optimistic(p) \/ q = [Optimistic(p) EXCEPT !.blocking = TRUE]
  PROVE  /\ q \in Page /\ q.opens = p.opens /\ q.view = p.view
         /\ q.data = p.data /\ q.overruled = p.overruled
<1> DEFINE o == [p EXCEPT !.optimistic = TRUE, !.dirty = TRUE]
           r == Optimistic(p)
<1>1. o \in Page /\ o.data = p.data /\ o.overruled = p.overruled
  BY OptimisticType DEF Page
<1>2. r \in Page /\ r.opens = p.opens /\ r.view = p.view
  BY OptimisticType
<1>3. r.data = o.data /\ r.overruled = o.overruled
  <2> HIDE DEF o
  <2>1. Rendered(o, TRUE).data = o.data
    BY <1>1, RenderedFields
  <2>2. Rendered(o, TRUE).overruled = o.overruled
    BY <1>1 DEF Rendered, Page
  <2> QED
    BY <2>1, <2>2 DEF Optimistic, o
<1>4. q = r \/ q = [r EXCEPT !.blocking = TRUE]
  OBVIOUS
<1> HIDE DEF o, r
<1>5. q \in Page /\ q.opens = r.opens /\ q.view = r.view
  BY <1>2, <1>4 DEF Page
<1>6. q.data = r.data /\ q.overruled = r.overruled
  BY <1>2, <1>4 DEF Page
<1> QED
  BY <1>1, <1>2, <1>3, <1>5, <1>6

\* The answer of a submit of an earlier visit, held by the page: it locks, and
\* whatever answer it waits for is asked for again.
LEMMA HeldSubmit ==
  ASSUME TypeInv, NEW c \in calls, SubmitAnswerHeld(c)
  PROVE  /\ c.op \in SubmitOps /\ c.to = "cache" /\ c.at = "answered"
         /\ page.view = "open" /\ Editable(page)
         /\ \/ page' = page
            \/ /\ page' = [Optimistic(page) EXCEPT !.blocking = TRUE]
               /\ LockCall(page.rows) \in calls'
         /\ page' \in Page /\ page'.opens = page.opens /\ page'.view = page.view
         /\ page'.data = page.data /\ page'.overruled = page.overruled
         /\ calls' \in SUBSET Call
         /\ \/ calls' = Refetch(calls \ {c})
            \/ calls' = Refetch(calls \ {c}) \cup {LockCall(page.rows)}
         /\ \A d \in calls' : d \in calls \ {c} \/ d = GetCall \/ d = LockCall(page.rows)
         /\ \A b \in calls \ {c} : b.op # "get" => b \in calls'
         /\ UNCHANGED << server, news >> /\ behind' = (behind \/ TooEarly)
<1>1. calls \in SUBSET Call /\ page \in Page /\ page.rows \in Drafts
  BY DEF TypeInv, Page, Drafts
<1>2. /\ c.op \in SubmitOps /\ c.to = "cache" /\ c.at = "answered"
      /\ page.view = "open" /\ Editable(page)
      /\ UNCHANGED << server, news >> /\ behind' = (behind \/ TooEarly)
  BY DEF SubmitAnswerHeld, Open, Held, Blocks
<1>3. \/ page' = page
      \/ /\ page' = [Optimistic(page) EXCEPT !.blocking = TRUE]
         /\ LockCall(page.rows) \in calls'
  BY DEF SubmitAnswerHeld, Locking
<1>4. /\ page' \in Page /\ page'.opens = page.opens /\ page'.view = page.view
      /\ page'.data = page.data /\ page'.overruled = page.overruled
  BY <1>1, <1>3, OptimisticFields
<1>5. \/ calls' = Refetch(calls \ {c})
      \/ calls' = Refetch(calls \ {c}) \cup {LockCall(page.rows)}
  BY DEF SubmitAnswerHeld, Locking
<1>6. \A d \in calls' : d \in calls \ {c} \/ d = GetCall \/ d = LockCall(page.rows)
  BY <1>5 DEF Refetch
<1>7. \A b \in calls \ {c} : b.op # "get" => b \in calls'
  BY <1>5 DEF Refetch, Mine
<1>8. calls' \in SUBSET Call
  BY <1>1, <1>6, CallTypes
<1> QED
  BY <1>2, <1>3, <1>4, <1>5, <1>6, <1>7, <1>8

LEMMA AnswerStepTypes ==
  ASSUME TypeInv, NEW c \in calls, AnswerStep(c)
  PROVE  TypeInv'
<1>1. calls \in SUBSET Call /\ c \in Call /\ page \in Page /\ calls \ {c} \in SUBSET Call
      /\ news \in BOOLEAN /\ behind \in BOOLEAN
  BY DEF TypeInv
<1>2. Given(page, c) \in Page /\ Given(page, c).opens = page.opens
  BY <1>1, GivenOpens
<1>3. CASE GetAnswer(c) \/ LockAnswer(c)
  BY <1>1, <1>2, <1>3 DEF GetAnswer, LockAnswer, Ends, TypeInv, server
<1>4. CASE GetRefused(c)
  BY <1>1, <1>4 DEF GetRefused, Ends, TypeInv, server
<1>5. CASE SaveDone(c)
  <2>1. SaveSettled(page) \in Page /\ SaveSettled(page).opens = page.opens
    BY <1>1, PageOperators DEF SaveSettled, Page
  <2> QED
    BY <1>1, <1>5, <2>1 DEF SaveDone, Ends, TypeInv, server
<1>6. CASE LockAnswerLeaves(c)
  <2> DEFINE q == Unmounted(page, "away")
  <2>1. q \in Page /\ q.opens = page.opens
    BY <1>1, PageOperators, UnmountedFields
  <2>2. Given(q, c) \in Page /\ Given(q, c).opens = q.opens
    <3> HIDE DEF q
    <3> QED
      BY <1>1, <2>1, GivenOpens
  <2>3. page' \in Page /\ page'.opens = page.opens
    <3>1. page' = Given(q, c) \/ page' = q
      BY <1>6 DEF LockAnswerLeaves
    <3> QED
      BY <2>1, <2>2, <3>1
  <2>4. calls' \in SUBSET Call /\ news' \in BOOLEAN /\ behind' \in BOOLEAN
    BY <1>1, <1>6, CallSets DEF LockAnswerLeaves
  <2> QED
    BY <1>6, <2>3, <2>4 DEF LockAnswerLeaves, TypeInv, server
<1>7. CASE LockRefused(c)
  <2>1. page' \in Page /\ page'.opens = page.opens
    BY <1>1, <1>7 DEF LockRefused, Page
  <2> QED
    BY <1>1, <1>7, <2>1 DEF LockRefused, Ends, TypeInv, server
<1>8. CASE SubmitAnswer(c)
  <2>1. calls' \in SUBSET Call
    <3>1. Refetch(calls \ {c}) \in SUBSET Call
      BY <1>1, CallSets
    <3>2. CASE Open
      BY <1>1, <1>8, <3>1, <3>2, CallSets DEF SubmitAnswer, Away
    <3>3. CASE ~ Open
      BY <1>1, <1>8, <3>3 DEF SubmitAnswer, Ends
    <3> QED
      BY <3>2, <3>3
  <2>2. page' \in Page /\ page'.opens = page.opens
    <3>1. Unmounted(page, "away") \in Page /\ Unmounted(page, "away").opens = page.opens
      BY <1>1, PageOperators, UnmountedFields
    <3>2. [page EXCEPT !.invalid = TRUE] \in Page /\ [page EXCEPT !.invalid = TRUE].opens = page.opens
      BY <1>1 DEF Page
    <3>3. page' = Unmounted(page, "away") \/ page' = [page EXCEPT !.invalid = TRUE]
      BY <1>8 DEF SubmitAnswer, Away
    <3> QED
      BY <3>1, <3>2, <3>3
  <2>3. news' \in BOOLEAN /\ behind' \in BOOLEAN
    BY <1>1, <1>8 DEF SubmitAnswer, Away, TooEarly
  <2> QED
    BY <1>8, <2>1, <2>2, <2>3 DEF SubmitAnswer, Away, TypeInv, server
<1>9. CASE SubmitRefused(c)
  <2>1. page' \in Page /\ page'.opens = page.opens
    BY <1>1, <1>9 DEF SubmitRefused, Page, Open
  <2> QED
    BY <1>1, <1>9, <2>1 DEF SubmitRefused, Ends, TypeInv, server
<1>10. CASE SubmitAnswerHeld(c)
  <2>1. behind' \in BOOLEAN
    BY <1>1, <1>10, HeldSubmit DEF TooEarly
  <2> QED
    BY <1>1, <1>10, <2>1, HeldSubmit DEF TypeInv, server
<1> QED
  BY <1>3, <1>4, <1>5, <1>6, <1>7, <1>8, <1>9, <1>10 DEF AnswerStep

LEMMA ClientTypes ==
  ASSUME TypeInv, ClientStep
  PROVE  TypeInv'
<1>1. calls \in SUBSET Call /\ page \in Page /\ news \in BOOLEAN /\ behind \in BOOLEAN
  BY DEF TypeInv
<1>2. Submitting \in BOOLEAN /\ \A auto \in BOOLEAN : SubmitCall(page, auto) \in Call
  BY <1>1, CallTypes DEF Submitting
<1>3. CASE Deliver \/ Poll
  <2>1. Refetch(calls) \in SUBSET Call /\ GetCall \in Call
    BY <1>1, CallSets, CallTypes
  <2>2. behind' \in BOOLEAN
    BY <1>1, <1>3 DEF Deliver, Poll, TooEarly
  <2> QED
    BY <1>1, <1>3, <2>1, <2>2 DEF Deliver, Poll, TypeInv, server
<1>4. CASE Subscribe
  <2>1. page' \in Page /\ page'.opens = page.opens
    BY <1>1, <1>4 DEF Subscribe, Page
  <2> QED
    BY <1>4, <2>1 DEF Subscribe, TypeInv, server
<1>5. CASE Render
  <2>1. Rendered(page, Submitting) \in Page /\ Rendered(page, Submitting).opens = page.opens
    BY <1>1, <1>2, RenderedType, RenderedFields
  <2> QED
    BY <1>5, <2>1 DEF Render, TypeInv, server
<1>6. CASE Timer
  <2>1. page' \in Page /\ page'.opens = page.opens
    <3>1. /\ [page EXCEPT !.timer = FALSE] \in Page
          /\ [page EXCEPT !.timer = FALSE, !.queued = NoDraft] \in Page
          /\ [page EXCEPT !.timer = FALSE].opens = page.opens
          /\ [page EXCEPT !.timer = FALSE, !.queued = NoDraft].opens = page.opens
      BY <1>1 DEF Page, Drafts
    <3>2. \/ page' = [page EXCEPT !.timer = FALSE]
          \/ page' = [page EXCEPT !.timer = FALSE, !.queued = NoDraft]
      BY <1>6 DEF Timer, Flush
    <3> QED
      BY <3>1, <3>2
  <2>2. calls' \in SUBSET Call
    <3>1. SaveCall(page.queued) \in Call
      BY <1>1, CallTypes DEF Page
    <3> QED
      BY <1>1, <1>6, <3>1 DEF Timer, Flush
  <2> QED
    BY <1>6, <2>1, <2>2 DEF Timer, TypeInv, server
<1>7. CASE AutoSubmit
  <2>1. page' \in Page /\ page'.opens = page.opens
    BY <1>1, <1>7 DEF AutoSubmit, Page
  <2>2. calls' \in SUBSET Call
    BY <1>1, <1>2, <1>7 DEF AutoSubmit
  <2> QED
    BY <1>7, <2>1, <2>2 DEF AutoSubmit, TypeInv, server
<1> QED
  BY <1>3, <1>4, <1>5, <1>6, <1>7 DEF ClientStep

\* An edit, a lock and its navigation are rendered at once.
LEMMA EditedType ==
  ASSUME NEW p \in Page, NEW c \in Contents
  PROVE  /\ [p EXCEPT !.rows = c, !.dirty = TRUE] \in Page
         /\ Edited(p, c) \in Page /\ Edited(p, c).opens = p.opens /\ Edited(p, c).view = p.view
<1> DEFINE q == [p EXCEPT !.rows = c, !.dirty = TRUE]
<1>1. q \in Page /\ q.opens = p.opens /\ q.view = p.view
  BY DEF Page
<1>2. Submitting \in BOOLEAN
  BY DEF Submitting
<1> HIDE DEF q
<1>3. Rendered(q, Submitting) \in Page /\ Rendered(q, Submitting).opens = p.opens
      /\ Rendered(q, Submitting).view = p.view
  BY <1>1, <1>2, RenderedType, RenderedFields
<1> QED
  BY <1>1, <1>3 DEF Edited, q

LEMMA StudentTypes ==
  ASSUME TypeInv, StudentStep
  PROVE  TypeInv'
<1>1. calls \in SUBSET Call /\ page \in Page /\ news \in BOOLEAN /\ behind \in BOOLEAN
      /\ page.rows \in Drafts /\ NoRow \in Row
  BY PageAssumption DEF TypeInv, Page, NoRow, Row, Drafts, Statuses
<1>2. /\ \A auto \in BOOLEAN : SubmitCall(page, auto) \in Call
      /\ GetCall \in Call /\ LockCall(page.rows) \in Call /\ BeaconCall(page.rows) \in Call
  BY <1>1, CallTypes
<1>3. scenario.contents \subseteq Contents /\ Blank \in Contents
  BY PageAssumption DEF TypeInv, Scenario
<1>4. ASSUME NEW c \in scenario.contents, Type(c) PROVE TypeInv'
  <2>1. Edited(page, c) \in Page /\ Edited(page, c).opens = page.opens
    BY <1>1, <1>3, EditedType
  <2> QED
    BY <1>4, <2>1 DEF Type, TypeInv, server
<1>5. CASE ResetForm
  <2>1. Edited(page, Blank) \in Page /\ Edited(page, Blank).opens = page.opens
    BY <1>1, <1>3, EditedType
  <2> QED
    BY <1>5, <2>1 DEF ResetForm, TypeInv, server
<1>6. CASE LockNow \/ NavigateBlocked
  <2> DEFINE o == Optimistic(page)
  <2>1. o \in Page /\ o.opens = page.opens
    BY <1>1, OptimisticType
  <2>2. [o EXCEPT !.blocking = TRUE] \in Page /\ [o EXCEPT !.blocking = TRUE].opens = o.opens
    <3> HIDE DEF o
    <3> QED
      BY <2>1 DEF Page
  <2>3. page' = o \/ page' = [o EXCEPT !.blocking = TRUE]
    BY <1>6 DEF LockNow, NavigateBlocked
  <2> HIDE DEF o
  <2>4. page' \in Page /\ page'.opens = page.opens
    BY <2>1, <2>2, <2>3
  <2>5. calls' \in SUBSET Call
    BY <1>1, <1>2, <1>6 DEF LockNow, NavigateBlocked, Locking
  <2> QED
    BY <1>6, <2>4, <2>5 DEF LockNow, NavigateBlocked, TypeInv, server
<1>7. CASE Navigate
  <2>1. Unmounted(page, "away") \in Page /\ Unmounted(page, "away").opens = page.opens
    BY <1>1, PageOperators, UnmountedFields
  <2>2. UNION {Orphan(c) : c \in calls} \in SUBSET Call
    BY <1>1, CallSets
  <2> QED
    BY <1>1, <1>7, <2>1, <2>2 DEF Navigate, Away, TypeInv, server
<1>8. CASE Close
  <2> DEFINE q == Unmounted(page, "closed")
  <2>1. q \in Page /\ q.opens = page.opens
    BY <1>1, PageOperators, UnmountedFields
  <2>2. page' \in Page /\ page'.opens = page.opens
    <3>1. page' = [q EXCEPT !.data = NoRow]
      BY <1>8 DEF Close
    <3> HIDE DEF q
    <3> QED
      BY <1>1, <2>1, <3>1 DEF Page
  <2>3. calls' \in SUBSET Call
    <3>1. \A c \in Call : [c EXCEPT !.to = "nobody"] \in Call
      BY DEF Call
    <3> QED
      BY <1>1, <1>2, <1>8, <3>1 DEF Close
  <2> QED
    BY <1>1, <1>8, <2>2, <2>3 DEF Close, TypeInv, server
<1>9. CASE OpenPage \/ Enter
  <2> DEFINE q == [Mounted(page) EXCEPT !.opens = @ + 1]
  <2>1. q \in Page /\ q.opens = page.opens + 1
    BY <1>1, MountedFields
  <2>2. page' = q /\ page.opens < scenario.opens
    BY <1>9 DEF OpenPage, Enter
  <2> HIDE DEF q
  <2>3. page.opens \in Nat /\ scenario.opens \in Nat
    BY <1>1, PageAssumption DEF Page, TypeInv, Scenario
  <2>4. page' \in Page /\ page'.opens <= scenario.opens
    BY <2>1, <2>2, <2>3
  <2>5. calls' \in SUBSET Call
    BY <1>1, <1>2, <1>9 DEF OpenPage, Enter
  <2> QED
    BY <1>9, <2>4, <2>5 DEF OpenPage, Enter, TypeInv, server
<1>10. CASE ConfirmSubmit
  <2>1. page' \in Page /\ page'.opens = page.opens
    BY <1>1, <1>10 DEF ConfirmSubmit, Page
  <2> QED
    BY <1>1, <1>2, <1>10, <2>1 DEF ConfirmSubmit, TypeInv, server
<1> QED
  BY <1>4, <1>5, <1>6, <1>7, <1>8, <1>9, <1>10 DEF StudentStep

LEMMA NextTypes == TypeInv /\ [Next]_vars => TypeInv'
<1> SUFFICES ASSUME TypeInv, [Next]_vars PROVE TypeInv'
  OBVIOUS
<1>1. calls \in SUBSET Call /\ page \in Page /\ NoRow \in Row /\ news \in BOOLEAN /\ behind \in BOOLEAN
  BY PageAssumption DEF TypeInv, NoRow, Row, Drafts, Statuses
<1>2. ASSUME NEW c \in calls, Lose(c) PROVE TypeInv'
  <2>1. Answered(c, calls, "refused", NoRow, FALSE) \subseteq Call
    BY <1>1, CallSets
  <2> QED
    BY <1>2, <2>1 DEF Lose, TypeInv, server
<1>3. CASE Reopen
  <2>1. row' \in Row
    BY <1>3 DEF Reopen, TypeInv, Row, Statuses
  <2>2. page' \in Page /\ page'.opens = page.opens
    BY <1>1, <1>3 DEF Reopen, Page
  <2>3. calls' \in SUBSET Call
    BY <1>1, <1>3, CallSets DEF Reopen
  <2>4. reopens' \in 0..scenario.reopens
    BY <1>3, PageAssumption DEF Reopen, TypeInv, Scenario
  <2>5. news' \in BOOLEAN /\ behind' \in BOOLEAN
    BY <1>1, <1>3 DEF Reopen, Publish, Heard
  <2> QED
    BY <1>3, <2>1, <2>2, <2>3, <2>4, <2>5 DEF Reopen, TypeInv
<1>4. CASE Tick
  BY <1>4 DEF Tick, TypeInv
<1>5. CASE DropHub
  <2>1. page' \in Page /\ page'.opens = page.opens
    BY <1>1, <1>5 DEF DropHub, Page
  <2> QED
    BY <1>1, <1>5, <2>1 DEF DropHub, TypeInv, server
<1>6. CASE UNCHANGED vars
  BY <1>6 DEF vars, TypeInv
<1> QED
  BY <1>2, <1>3, <1>4, <1>5, <1>6, ServerTypes, AnswerStepTypes, ClientTypes, StudentTypes DEF Next

----------------------------------------------------------------------------
(***************************************************************************)
(* What becomes of the calls in a step: each stays what it is (but for who *)
(* waits for it, what follows it and whether its answer is current), or is *)
(* handled further; others are new.                                        *)
(***************************************************************************)
New(d) == d \in Call /\ d.at = "sent" /\ d.row = NoRow /\ d.current = FALSE

Kept(c, d) ==
  /\ d.op = c.op /\ d.at = c.at /\ d.row = c.row /\ d.auto = c.auto /\ d.draft = c.draft
  /\ d.to = "page" => c.to = "page"
  /\ d.current => c.current

Handled(c, d) ==
  /\ d.op = c.op /\ d.to = c.to /\ d.auto = c.auto
  /\ \/ /\ d.at = "read" /\ c.at = "sent" /\ d.row = row /\ (d.op = "submit" => row.status = "ACTIVE")
        /\ d.current => c.current
     \/ d.at = "refused" /\ d.row = NoRow /\ d.current = FALSE
     \/ d.at = "answered" /\ d.op = "get" /\ d.row = row' /\ row'.status # "NONE"
     \/ d.at = "answered" /\ d.op \in {"lock", "beacon"} /\ d.row = row /\ row.status = "SUBMITTED"
     \/ d.at = "answered" /\ d.op \in {"lock", "beacon"} /\ d.row.status = "LOCKED" /\ StoreLock(c)
     \/ d.at = "answered" /\ d.op \in {"save", "submit", "blind"} /\ d.row = NoRow /\ c.at = "read"

\* The calls that the page sends.
LEMMA SentCalls ==
  /\ New(GetCall) /\ GetCall.op = "get" /\ GetCall.to = "page"
  /\ \A x \in Drafts :
        /\ New(SaveCall(x)) /\ SaveCall(x).op = "save" /\ SaveCall(x).to = "page"
        /\ SaveCall(x).draft = x
        /\ New(LockCall(x)) /\ LockCall(x).op = "lock" /\ LockCall(x).to = "page"
        /\ New(BeaconCall(x)) /\ BeaconCall(x).op = "beacon" /\ BeaconCall(x).to = "nobody"
  /\ \A p \in Page, auto \in BOOLEAN :
        /\ New(SubmitCall(p, auto)) /\ SubmitCall(p, auto).op \in SubmitOps
        /\ SubmitCall(p, auto).to = "page" /\ SubmitCall(p, auto).auto = auto
<1>1. NoDraft \in Drafts /\ \A p \in Page : p.rows \in Drafts
  BY DEF Drafts, Page
<1>2. New(GetCall) /\ GetCall.op = "get" /\ GetCall.to = "page"
  BY <1>1, CallTypes DEF GetCall, New, NewCall
<1>3. ASSUME NEW x \in Drafts
      PROVE  /\ New(SaveCall(x)) /\ SaveCall(x).op = "save" /\ SaveCall(x).to = "page"
             /\ SaveCall(x).draft = x
             /\ New(LockCall(x)) /\ LockCall(x).op = "lock" /\ LockCall(x).to = "page"
             /\ New(BeaconCall(x)) /\ BeaconCall(x).op = "beacon" /\ BeaconCall(x).to = "nobody"
  BY CallTypes DEF SaveCall, LockCall, BeaconCall, New, NewCall
<1>4. ASSUME NEW p \in Page, NEW auto \in BOOLEAN
      PROVE  /\ New(SubmitCall(p, auto)) /\ SubmitCall(p, auto).op \in SubmitOps
             /\ SubmitCall(p, auto).to = "page" /\ SubmitCall(p, auto).auto = auto
  <2> DEFINE c == NewCall(IF p.data = NoRow THEN "blind" ELSE "submit", "page", p.rows)
  <2>1. c \in Call /\ c.at = "sent" /\ c.row = NoRow /\ c.to = "page" /\ c.op \in SubmitOps
    BY <1>1, NewCallType DEF NewCall, SubmitOps
  <2>4. c.current = FALSE
    BY DEF NewCall
  <2> HIDE DEF c
  <2>5. [c EXCEPT !.auto = auto].current = FALSE
    BY <2>1, <2>4 DEF Call
  <2>2. /\ [c EXCEPT !.auto = auto].at = "sent" /\ [c EXCEPT !.auto = auto].row = NoRow
        /\ [c EXCEPT !.auto = auto].to = "page" /\ [c EXCEPT !.auto = auto].op \in SubmitOps
        /\ [c EXCEPT !.auto = auto].auto = auto
    BY <2>1 DEF Call
  <2>3. SubmitCall(p, auto) = [c EXCEPT !.auto = auto] /\ SubmitCall(p, auto) \in Call
    BY CallTypes DEF SubmitCall, c
  <2> QED
    BY <2>2, <2>3, <2>5 DEF New
<1> QED
  BY <1>2, <1>3, <1>4

\* The save that a departed page had queued.
LEMMA AfterCalls ==
  ASSUME NEW c \in Call, NEW d \in After(c)
  PROVE  New(d) /\ d.op = "save" /\ d.to = "nobody"
<1>1. c.next \in Drafts
  BY DEF Call
<1> DEFINE n == NewCall("save", "nobody", c.next)
<1>2. New(n) /\ n.op = "save" /\ n.to = "nobody"
  BY <1>1, NewCallType DEF New, NewCall
<1>3. d = [n EXCEPT !.next = NoDraft] /\ NoDraft \in Drafts
  BY DEF After, Drafts
<1> HIDE DEF n
<1> QED
  BY <1>2, <1>3 DEF New, Call

LEMMA AnsweredCalls ==
  ASSUME NEW c \in Call, NEW cs, NEW at \in {"answered", "refused"}, NEW r \in Row,
         NEW k, NEW d \in Answered(c, cs, at, r, k)
  PROVE  \/ d \in cs \ {c}
         \/ New(d) /\ d.op = "save" /\ d.to = "nobody"
         \/ /\ d.op = c.op /\ d.to = c.to /\ d.to # "nobody" /\ d.auto = c.auto
            /\ d.at = at /\ d.row = r /\ d.current = k
<1> DEFINE e == [c EXCEPT !.at = at, !.row = r, !.draft = NoDraft, !.current = k]
<1>2. e.op = c.op /\ e.to = c.to /\ e.auto = c.auto /\ e.at = at /\ e.row = r /\ e.current = k
  BY DEF Call
<1>3. d \in cs \ {c} \/ d \in After(c) \/ (c.to # "nobody" /\ d = e)
  BY DEF Answered
<1> HIDE DEF e
<1> QED
  BY <1>2, <1>3, AfterCalls

LEMMA OutdatedCalls ==
  ASSUME NEW cs \in SUBSET Call, NEW d \in Outdated(cs)
  PROVE  \E c \in cs : /\ Kept(c, d) /\ d.to = c.to /\ d.next = c.next /\ d.current = FALSE
                       /\ d = [c EXCEPT !.current = FALSE]
<1>1. PICK c \in cs : d = [c EXCEPT !.current = FALSE]
  BY DEF Outdated
<1> QED
  BY <1>1 DEF Call, Kept

\* What a page that is left leaves behind of a call.
LEMMA OrphanCalls ==
  ASSUME NEW c \in Call, page \in Page, NEW d \in Orphan(c)
  PROVE  \/ New(d) /\ d.op = "save" /\ d.to = "nobody"
         \/ /\ d \in Call /\ Kept(c, d)
            /\ \/ d = c /\ (c.to # "page" \/ c.op = "get")
               \/ c.to = "page" /\ c.op \in {"lock"} \cup SubmitOps /\ d.to = "cache"
               \/ /\ c.to = "page" /\ c.op \notin {"get", "lock"} \cup SubmitOps
                  /\ d.to = "nobody" /\ d.at \in {"sent", "read"}
<1> DEFINE left == [c EXCEPT !.to = "nobody", !.next = IF c.op = "save" /\ ~ page.timer THEN page.queued ELSE @]
           cache == [c EXCEPT !.to = "cache"]
<1>1. left \in Call /\ Kept(c, left) /\ left.to = "nobody"
  <2>1. page.queued \in Drafts
    BY DEF Page
  <2> QED
    BY <2>1 DEF Call, Kept
<1>2. cache \in Call /\ Kept(c, cache) /\ cache.to = "cache"
  BY DEF Call, Kept
<1>3. Kept(c, c)
  BY DEF Kept
<1>4. \/ d = c /\ (c.to # "page" \/ c.op = "get")
      \/ c.to = "page" /\ c.op \in {"lock"} \cup SubmitOps /\ d = cache
      \/ c.to = "page" /\ c.op \notin {"get", "lock"} \cup SubmitOps /\ c.at \in {"sent", "read"} /\ d = left
      \/ d \in After(left)
  BY DEF Orphan
<1> HIDE DEF left, cache
<1> QED
  BY <1>1, <1>2, <1>3, <1>4, AfterCalls DEF Kept

LEMMA ServerMoves ==
  ASSUME TypeInv, NEW c \in calls, ServerStep(c) \/ Lose(c), NEW d \in calls'
  PROVE  New(d) \/ \E b \in calls : Kept(b, d) \/ Handled(b, d)
<1>1. calls \in SUBSET Call /\ c \in Call /\ row \in Row /\ NoRow \in Row /\ c.draft \in Drafts
  BY PageAssumption DEF TypeInv, NoRow, Row, Drafts, Statuses, Call
<1>2. \A b \in calls : Kept(b, b)
  BY DEF Kept
<1>3. ASSUME calls' = Answered(c, calls, "refused", NoRow, FALSE)
      PROVE  New(d) \/ \E b \in calls : Kept(b, d) \/ Handled(b, d)
  <2> DEFINE k == FALSE
  <2>1. d \in Answered(c, calls, "refused", NoRow, k)
    BY <1>3
  <2> HIDE DEF k
  <2>2. \/ d \in calls \/ New(d)
        \/ /\ d.op = c.op /\ d.to = c.to /\ d.auto = c.auto /\ d.at = "refused" /\ d.row = NoRow
           /\ d.current = k
    BY <1>1, <2>1, AnsweredCalls
  <2> QED
    BY <1>2, <2>2 DEF Handled, k
<1>4. ASSUME Loaded(c), c.at = "sent", c.op = "submit" => row.status = "ACTIVE"
      PROVE  \E b \in calls : Kept(b, d) \/ Handled(b, d)
  <2> DEFINE e == [c EXCEPT !.at = "read", !.row = row]
  <2>1. e.op = c.op /\ e.to = c.to /\ e.auto = c.auto /\ e.at = "read" /\ e.row = row
    BY <1>1 DEF Call
  <2>2. d \in calls \/ d = e
    BY <1>4 DEF Loaded
  <2>3. e.current = c.current
    BY <1>1 DEF Call
  <2> HIDE DEF e
  <2>4. Handled(c, e)
    BY <1>4, <2>1, <2>3 DEF Handled
  <2> QED
    BY <1>2, <2>2, <2>4
<1>5. CASE Lose(c)
  BY <1>3, <1>5 DEF Lose
<1>6. CASE RefuseGet(c)
  BY <1>3, <1>6 DEF RefuseGet, Refuse
<1>7. CASE LoadSave(c)
  BY <1>3, <1>4, <1>7 DEF LoadSave, Refuse, Reaches
<1>8. CASE LoadSubmit(c)
  BY <1>3, <1>4, <1>8 DEF LoadSubmit, Refuse
<1>9. CASE LoadLock(c)
  <2>1. CASE row.status = "SUBMITTED"
    <3>1. calls' = Answered(c, calls, "answered", row, TRUE) /\ c.op \in {"lock", "beacon"}
      BY <1>9, <2>1 DEF LoadLock
    <3> DEFINE k == TRUE
    <3>2. d \in Answered(c, calls, "answered", row, k)
      BY <3>1
    <3> HIDE DEF k
    <3>3. \/ d \in calls \/ New(d)
          \/ d.op = c.op /\ d.to = c.to /\ d.auto = c.auto /\ d.at = "answered" /\ d.row = row
      BY <1>1, <3>2, AnsweredCalls
    <3> QED
      BY <1>2, <2>1, <3>1, <3>3 DEF Handled
  <2>2. CASE row.status # "SUBMITTED"
    BY <1>4, <1>9, <2>2 DEF LoadLock
  <2> QED
    BY <2>1, <2>2
<1>10. CASE ServeGet(c)
  <2>1. row' \in Row /\ row'.status # "NONE"
    BY <1>1, <1>10 DEF ServeGet, Row, NoRow, Statuses, Drafts
  <2>2. calls' = Answered(c, calls, "answered", row', TRUE) /\ c.op = "get"
    BY <1>10 DEF ServeGet, Reaches
  <2> DEFINE k == TRUE
  <2>3. d \in Answered(c, calls, "answered", row', k)
    BY <2>2
  <2> HIDE DEF k
  <2>4. \/ d \in calls \/ New(d)
        \/ d.op = c.op /\ d.to = c.to /\ d.auto = c.auto /\ d.at = "answered" /\ d.row = row'
    BY <1>1, <2>1, <2>3, AnsweredCalls
  <2> QED
    BY <1>2, <2>1, <2>2, <2>4 DEF Handled
<1>11. ASSUME NEW r \in Row, Saved(c, r), c.at = "read",
              \/ c.op \in {"save", "submit", "blind"} /\ r = NoRow
              \/ c.op \in {"lock", "beacon"} /\ r.status = "LOCKED" /\ StoreLock(c)
       PROVE  New(d) \/ \E b \in calls : Kept(b, d) \/ Handled(b, d)
  <2>1. calls' = Answered(c, Outdated(calls) \cup {c}, "answered", r, r # NoRow) /\ (r # NoRow) \in BOOLEAN
    BY <1>11 DEF Saved
  <2>2. CASE d \in Outdated(calls)
    BY <1>1, <2>2, OutdatedCalls
  <2>3. CASE d \notin Outdated(calls)
    <3>1. \/ New(d)
          \/ d.op = c.op /\ d.to = c.to /\ d.auto = c.auto /\ d.at = "answered" /\ d.row = r
      <4> DEFINE k == r # NoRow
      <4>1. k \in BOOLEAN /\ d \in Answered(c, Outdated(calls) \cup {c}, "answered", r, k)
        BY <2>1
      <4> HIDE DEF k
      <4> QED
        BY <1>1, <2>3, <4>1, AnsweredCalls
    <3> QED
      BY <1>11, <3>1 DEF Handled
  <2> QED
    BY <2>2, <2>3
<1>12. CASE StoreSave(c) \/ StoreSubmit(c)
  BY <1>1, <1>11, <1>12 DEF StoreSave, StoreSubmit, SubmitOps
<1>13. CASE StoreLock(c)
  <2>1. [status |-> "LOCKED", draft |-> c.draft] \in Row
    BY <1>1 DEF Row, Statuses
  <2> QED
    BY <1>11, <1>13, <2>1 DEF StoreLock
<1> QED
  BY <1>3, <1>5, <1>6, <1>7, <1>8, <1>9, <1>10, <1>12, <1>13 DEF ServerStep

LEMMA CallsMove ==
  ASSUME TypeInv, [Next]_vars, NEW d \in calls'
  PROVE  New(d) \/ \E b \in calls : Kept(b, d) \/ Handled(b, d)
<1>1. calls \in SUBSET Call /\ page \in Page /\ page.rows \in Drafts /\ page.queued \in Drafts
  BY DEF TypeInv, Page, Drafts
<1>2. \A b \in calls : Kept(b, b)
  BY DEF Kept
<1>3. New(GetCall) /\ New(LockCall(page.rows)) /\ New(BeaconCall(page.rows)) /\ New(SaveCall(page.queued))
      /\ \A auto \in BOOLEAN : New(SubmitCall(page, auto))
  BY <1>1, SentCalls
<1>4. ASSUME NEW cs \in SUBSET (calls \cup {GetCall}), d \in UNION {Orphan(b) : b \in cs}
      PROVE  New(d) \/ \E b \in calls : Kept(b, d)
  <2>1. PICK b \in cs : d \in Orphan(b)
    BY <1>4
  <2>2. New(d) \/ (d \in Call /\ Kept(b, d))
    BY <1>1, <1>3, <2>1, OrphanCalls DEF New
  <2>3. CASE b = GetCall
    <3>1. d \in Call /\ Kept(b, d) => New(d)
      BY <1>3, <2>3 DEF Kept, New
    <3> QED
      BY <2>2, <3>1
  <2>4. CASE b \in calls
    BY <2>2, <2>4
  <2> QED
    BY <2>3, <2>4
<1>5. ASSUME NEW c \in calls, AnswerStep(c) PROVE New(d) \/ \E b \in calls : Kept(b, d)
  <2>1. CASE LockAnswerLeaves(c)
    BY <1>4, <2>1 DEF LockAnswerLeaves
  <2>2. CASE SubmitAnswer(c) /\ Open
    <3>1. Refetch(calls \ {c}) \in SUBSET (calls \cup {GetCall})
      BY DEF Refetch
    <3> QED
      BY <1>4, <2>2, <3>1 DEF SubmitAnswer, Away
  <2>3. CASE SubmitAnswerHeld(c)
    BY <1>2, <1>3, <2>3, HeldSubmit
  <2>4. CASE ~ LockAnswerLeaves(c) /\ ~ (SubmitAnswer(c) /\ Open) /\ ~ SubmitAnswerHeld(c)
    BY <1>2, <1>5, <2>4 DEF AnswerStep, GetAnswer, GetRefused, SaveDone, LockAnswer, LockRefused,
         SubmitAnswer, SubmitRefused, Ends
  <2> QED
    BY <2>1, <2>2, <2>3, <2>4
<1>6. CASE ClientStep
  BY <1>1, <1>2, <1>3, <1>6 DEF ClientStep, Deliver, Poll, Subscribe, Render, Timer, Flush, AutoSubmit, Refetch
<1>7. CASE StudentStep
  <2>1. CASE Navigate
    BY <1>4, <2>1 DEF Navigate, Away
  <2>2. CASE Close
    <3>1. \A c \in calls : Kept(c, [c EXCEPT !.to = "nobody"])
      BY <1>1 DEF Call, Kept
    <3> QED
      BY <1>3, <2>2, <3>1 DEF Close
  <2>3. CASE ~ Navigate /\ ~ Close
    BY <1>2, <1>3, <1>7, <2>3 DEF StudentStep, Type, ResetForm, LockNow, Locking, NavigateBlocked,
         OpenPage, Enter, ConfirmSubmit
  <2> QED
    BY <2>1, <2>2, <2>3
<1>8. CASE Reopen
  BY <1>1, <1>8, OutdatedCalls DEF Reopen
<1>9. CASE Tick \/ DropHub \/ UNCHANGED vars
  BY <1>2, <1>9 DEF Tick, DropHub, vars
<1> QED
  BY <1>5, <1>6, <1>7, <1>8, <1>9, ServerMoves DEF Next

\* What is cached comes from the answer of a get or a lock.
LEMMA DataMoves ==
  ASSUME TypeInv, [Next]_vars
  PROVE  \/ page'.data = page.data
         \/ page'.data = NoRow /\ Close
         \/ \E c \in calls : /\ GetAnswer(c) \/ (c.op = "lock" /\ (LockAnswer(c) \/ LockAnswerLeaves(c)))
                            /\ c.op \in {"get", "lock"} /\ c.at = "answered" /\ page'.data = c.row
<1>1. calls \in SUBSET Call /\ page \in Page /\ page.rows \in Contents /\ Submitting \in BOOLEAN
  BY DEF TypeInv, Page, Submitting
<1>2. ASSUME NEW c \in calls, ServerStep(c) PROVE page'.data = page.data
  BY <1>1, <1>2 DEF ServerStep, ServeGet, RefuseGet, LoadSave, StoreSave, LoadLock, StoreLock,
       LoadSubmit, StoreSubmit, Refuse, Loaded, Saved, Page
<1>3. ASSUME NEW c \in calls, GetAnswer(c) \/ LockAnswer(c)
      PROVE  /\ GetAnswer(c) \/ (c.op = "lock" /\ LockAnswer(c))
             /\ c.op \in {"get", "lock"} /\ c.at = "answered" /\ page'.data = c.row
  <2>1. page' = Given(page, c) /\ c \in Call
    BY <1>1, <1>3 DEF GetAnswer, LockAnswer
  <2>2. page'.data = c.row
    BY <1>1, <2>1, GivenOpens
  <2> QED
    BY <1>3, <2>2 DEF GetAnswer, LockAnswer
<1>4. ASSUME NEW c \in calls, LockAnswerLeaves(c)
      PROVE  \/ page'.data = page.data
             \/ c.op = "lock" /\ c.at = "answered" /\ page'.data = c.row
  <2> DEFINE q == Unmounted(page, "away")
  <2>1. q \in Page /\ q.data = page.data /\ c \in Call
    BY <1>1, PageOperators, UnmountedFields
  <2>2. page' = q \/ (page' = Given(q, c) /\ c.op = "lock" /\ c.at = "answered")
    BY <1>4 DEF LockAnswerLeaves
  <2> HIDE DEF q
  <2> QED
    BY <2>1, <2>2, GivenOpens
<1>5. Unmounted(page, "away").data = page.data
  BY <1>1, UnmountedFields
<1>6. ASSUME NEW c \in calls, GetRefused(c) \/ SaveDone(c) \/ LockRefused(c) \/ SubmitAnswer(c) \/ SubmitRefused(c)
      PROVE  page'.data = page.data
  BY <1>1, <1>5, <1>6 DEF GetRefused, SaveDone, LockRefused, SubmitAnswer, SubmitRefused, Away, SaveSettled, Page
<1>10. ASSUME NEW c \in calls, SubmitAnswerHeld(c) PROVE page'.data = page.data
  BY <1>10, HeldSubmit
<1>7. CASE ClientStep
  <2>1. Rendered(page, Submitting).data = page.data
    BY <1>1, RenderedFields
  <2> QED
    BY <1>1, <1>7, <2>1 DEF ClientStep, Deliver, Poll, Subscribe, Render, Timer, Flush, AutoSubmit, Page
<1>8. CASE StudentStep
  <2>1. ASSUME NEW c \in Contents PROVE Edited(page, c).data = page.data
    <3> DEFINE q == [page EXCEPT !.rows = c, !.dirty = TRUE]
    <3>1. q \in Page /\ q.data = page.data
      BY <1>1, EditedType DEF Page
    <3> HIDE DEF q
    <3>2. Rendered(q, Submitting).data = page.data
      BY <1>1, <3>1, RenderedFields
    <3> QED
      BY <3>2 DEF Edited, q
  <2>3. scenario.contents \subseteq Contents /\ Blank \in Contents
    BY PageAssumption DEF TypeInv, Scenario
  <2>4. CASE (\E c \in scenario.contents : Type(c)) \/ ResetForm
    BY <2>1, <2>3, <2>4 DEF Type, ResetForm
  <2>5. CASE LockNow \/ NavigateBlocked
    BY <1>1, <2>5, OptimisticFields DEF LockNow, NavigateBlocked
  <2>6. CASE Navigate
    BY <1>5, <2>6 DEF Navigate, Away
  <2>7. CASE Close
    <3>1. Unmounted(page, "closed") \in Page
      BY <1>1, PageOperators
    <3> QED
      BY <2>7, <3>1 DEF Close, Page
  <2>8. CASE OpenPage \/ Enter
    <3>1. page' = [Mounted(page) EXCEPT !.opens = @ + 1]
      BY <2>8 DEF OpenPage, Enter
    <3> QED
      BY <1>1, <3>1, MountedFields
  <2>9. CASE ConfirmSubmit
    BY <1>1, <2>9 DEF ConfirmSubmit, Page
  <2> QED
    BY <1>8, <2>4, <2>5, <2>6, <2>7, <2>8, <2>9 DEF StudentStep
<1>9. CASE Reopen \/ Tick \/ DropHub \/ UNCHANGED vars \/ \E c \in calls : Lose(c)
  BY <1>1, <1>9 DEF Reopen, Tick, DropHub, vars, Lose, Page
<1> QED
  BY <1>2, <1>3, <1>4, <1>6, <1>7, <1>8, <1>9, <1>10 DEF Next, AnswerStep

\* What the page's operators do to overruled: nothing, but for an answer.
LEMMA OverruledFields ==
  ASSUME NEW p \in Page
  PROVE  /\ \A busy \in BOOLEAN : Rendered(p, busy).overruled = p.overruled
         /\ \A view \in {"closed", "away"} : Unmounted(p, view).overruled = p.overruled
         /\ [Mounted(p) EXCEPT !.opens = @ + 1].overruled = p.overruled
         /\ \A c \in Call : Given(p, c).overruled = (c.op = "lock" /\ c.row.status = "SUBMITTED"
                                                       /\ row.status # "SUBMITTED")
<1>1. \A busy \in BOOLEAN : Rendered(p, busy).overruled = p.overruled
  BY DEF Rendered, Page
<1>2. \A view \in {"closed", "away"} : Unmounted(p, view).overruled = p.overruled
  BY DEF Unmounted, Page
<1>3. [Mounted(p) EXCEPT !.opens = @ + 1].overruled = p.overruled
  <2>1. Mounted(p) \in Page
    BY PageOperators
  <2>2. Mounted(p).overruled = p.overruled
    BY DEF Mounted, Page
  <2> QED
    BY <2>1, <2>2 DEF Page
<1>4. \A c \in Call : Given(p, c).overruled = (c.op = "lock" /\ c.row.status = "SUBMITTED"
                                                 /\ row.status # "SUBMITTED")
  BY DEF Given, Page
<1> QED
  BY <1>1, <1>2, <1>3, <1>4

\* What a lock puts into the cache.
LEMMA LockGives ==
  ASSUME TypeInv, NEW c \in calls, c.op = "lock", c.at = "answered", LockAnswer(c) \/ LockAnswerLeaves(c)
  PROVE  /\ row' = row /\ page'.data = c.row
         /\ c.row.status = "SUBMITTED" /\ row.status # "SUBMITTED" => page'.overruled
<1>1. page \in Page /\ c \in Call /\ Unmounted(page, "away") \in Page
  BY PageOperators DEF TypeInv
<1>2. PICK p \in Page : page' = Given(p, c)
  BY <1>1 DEF LockAnswer, LockAnswerLeaves
<1>3. row' = row
  BY DEF LockAnswer, LockAnswerLeaves, server
<1>4. page'.data = c.row
  BY <1>1, <1>2, GivenOpens
<1>5. Given(p, c).overruled = (c.op = "lock" /\ c.row.status = "SUBMITTED" /\ row.status # "SUBMITTED")
  BY <1>1, OverruledFields
<1> QED
  BY <1>2, <1>3, <1>4, <1>5

\* The page stays overruled until it is given another answer.
LEMMA OverruledStays ==
  ASSUME TypeInv, [Next]_vars, page.overruled
  PROVE  \/ page'.overruled \/ Close
         \/ \E c \in calls : \/ GetAnswer(c) \/ LockAnswer(c)
                             \/ LockAnswerLeaves(c) /\ c.at = "answered"
<1>1. calls \in SUBSET Call /\ page \in Page /\ Submitting \in BOOLEAN
  BY DEF TypeInv, Submitting
<1>2. ASSUME NEW p, p = page \/ p = [page EXCEPT !.current = FALSE] \/ p = [page EXCEPT !.hub = "subscribed"]
                    \/ p = [page EXCEPT !.hub = "dropped"] \/ p = [page EXCEPT !.fresh = TRUE]
                    \/ p = [page EXCEPT !.fresh = Open] \/ p = SaveSettled(page)
                    \/ p = [page EXCEPT !.invalid = TRUE]
                    \/ p = [page EXCEPT !.timer = FALSE, !.queued = NoDraft]
                    \/ p = [page EXCEPT !.timer = FALSE] \/ p = [page EXCEPT !.armed = "fired", !.fresh = TRUE]
                    \/ p = [page EXCEPT !.optimistic = FALSE, !.fresh = TRUE, !.dirty = TRUE]
      PROVE  p.overruled
  BY <1>1, <1>2 DEF Page, SaveSettled
<1>3. ASSUME NEW c \in calls, ServerStep(c) \/ Lose(c) PROVE page'.overruled
  <2>1. page' = page \/ page' = [page EXCEPT !.current = FALSE]
    BY <1>3 DEF ServerStep, Lose, ServeGet, RefuseGet, LoadSave, StoreSave, LoadLock, StoreLock,
         LoadSubmit, StoreSubmit, Refuse, Loaded, Saved
  <2> QED
    BY <1>2, <2>1
<1>4. Unmounted(page, "away").overruled
  BY <1>1, OverruledFields
<1>5. ASSUME NEW c \in calls, AnswerStep(c), ~ GetAnswer(c), ~ LockAnswer(c),
             ~ (LockAnswerLeaves(c) /\ c.at = "answered")
      PROVE  page'.overruled
  <2>1. CASE LockAnswerLeaves(c) \/ (SubmitAnswer(c) /\ Open)
    BY <1>4, <1>5, <2>1 DEF LockAnswerLeaves, SubmitAnswer, Away
  <2>2. CASE SubmitAnswerHeld(c)
    BY <2>2, HeldSubmit
  <2>3. CASE ~ (LockAnswerLeaves(c) \/ (SubmitAnswer(c) /\ Open) \/ SubmitAnswerHeld(c))
    <3>1. \/ page' = page \/ page' = SaveSettled(page) \/ page' = [page EXCEPT !.invalid = TRUE]
          \/ page' = [page EXCEPT !.fresh = Open]
          \/ page' = [page EXCEPT !.optimistic = FALSE, !.fresh = TRUE, !.dirty = TRUE]
      BY <1>5, <2>3 DEF AnswerStep, GetRefused, SaveDone, LockRefused, SubmitAnswer, SubmitRefused
    <3> QED
      BY <1>2, <3>1
  <2> QED
    BY <2>1, <2>2, <2>3
<1>6. CASE ClientStep
  <2>1. Rendered(page, Submitting).overruled
    BY <1>1, OverruledFields
  <2>2. \/ page' = Rendered(page, Submitting) \/ page' = page \/ page' = [page EXCEPT !.hub = "subscribed"]
        \/ page' = [page EXCEPT !.timer = FALSE, !.queued = NoDraft] \/ page' = [page EXCEPT !.timer = FALSE]
        \/ page' = [page EXCEPT !.armed = "fired", !.fresh = TRUE]
    BY <1>6 DEF ClientStep, Deliver, Poll, Subscribe, Render, Timer, Flush, AutoSubmit
  <2> QED
    BY <1>2, <2>1, <2>2
<1>7. CASE StudentStep /\ ~ Close
  <2>1. ASSUME NEW c \in Contents PROVE Edited(page, c).overruled
    <3> DEFINE q == [page EXCEPT !.rows = c, !.dirty = TRUE]
    <3>1. q \in Page /\ q.overruled
      BY <1>1, EditedType DEF Page
    <3> HIDE DEF q
    <3>2. Rendered(q, Submitting).overruled
      BY <1>1, <3>1, OverruledFields
    <3> QED
      BY <3>2 DEF Edited, q
  <2>4. scenario.contents \subseteq Contents /\ Blank \in Contents
    BY PageAssumption DEF TypeInv, Scenario
  <2>5. [Mounted(page) EXCEPT !.opens = @ + 1].overruled
    BY <1>1, OverruledFields
  <2>6. CASE (\E c \in scenario.contents : Type(c)) \/ ResetForm
    BY <2>1, <2>4, <2>6 DEF Type, ResetForm
  <2>7. CASE LockNow \/ NavigateBlocked
    BY <1>1, <2>7, OptimisticFields DEF LockNow, NavigateBlocked
  <2>8. CASE Navigate
    BY <1>4, <2>8 DEF Navigate, Away
  <2>9. CASE OpenPage \/ Enter
    BY <2>5, <2>9 DEF OpenPage, Enter
  <2>10. CASE ConfirmSubmit
    BY <1>2, <2>10 DEF ConfirmSubmit
  <2> QED
    BY <1>7, <2>6, <2>7, <2>8, <2>9, <2>10 DEF StudentStep
<1>8. CASE Reopen \/ Tick \/ DropHub \/ UNCHANGED vars
  BY <1>2, <1>8 DEF Reopen, Tick, DropHub, vars
<1> QED
  BY <1>3, <1>5, <1>6, <1>7, <1>8 DEF Next

----------------------------------------------------------------------------
(***************************************************************************)
(* What calls and the cache hold of the attempt.                           *)
(***************************************************************************)
\* A row with a status is that of an attempt that exists; a submitted one is
\* not without a submit row.
RowKnown(r) ==
  /\ r.status # "NONE" => row.status # "NONE"
  /\ r.status = "SUBMITTED" => submits > 0

RowsInv ==
  /\ RowKnown(row) /\ RowKnown(page.data)
  /\ \A c \in calls :
       /\ RowKnown(c.row)
       /\ c.op = "get" /\ c.at = "answered" => c.row.status # "NONE"
       /\ c.op = "lock" /\ c.at = "answered" => c.row.status \in {"LOCKED", "SUBMITTED"}
       /\ c.op = "submit" /\ c.at = "read" => c.row.status = "ACTIVE"

\* The attempt stays, so do submit rows; a submitted attempt has one.
LEMMA RowGrows ==
  ASSUME TypeInv, RowsInv, [Next]_vars
  PROVE  /\ row.status # "NONE" => row'.status # "NONE"
         /\ submits' >= submits
         /\ row'.status = "SUBMITTED" => submits' > 0
         /\ \A c \in calls : StoreLock(c) => row'.status # "NONE"
<1>1. row \in Row /\ submits \in Nat
  BY DEF TypeInv
<1>2. ASSUME NEW c \in calls, StoreSave(c)
      PROVE  row'.status \in {row.status, "ACTIVE"} /\ submits' = submits
  BY <1>1, <1>2 DEF StoreSave, Row, Write
<1>3. ASSUME NEW c \in calls, StoreLock(c)
      PROVE  /\ row'.status \in {row.status, "LOCKED"} /\ submits' = submits
             /\ row'.status # "NONE"
  <2>1. c.row.status = "LOCKED" => row.status # "NONE"
    BY DEF RowsInv, RowKnown
  <2>2. row'.status = Write(row.status, c.row.status, "LOCKED") /\ submits' = submits
    BY <1>1, <1>3 DEF StoreLock, Row
  <2> QED
    BY <2>1, <2>2 DEF Write
<1>4. ASSUME NEW c \in calls, StoreSubmit(c)
      PROVE  row'.status \in {row.status, "SUBMITTED"} /\ submits' = submits + 1
  BY <1>1, <1>4 DEF StoreSubmit, Row, Write
<1>5. ASSUME NEW c \in calls, ServeGet(c)
      PROVE  row'.status \in {row.status, "ACTIVE"} /\ submits' = submits
  BY <1>1, <1>5 DEF ServeGet, NoRow
<1>6. ASSUME NEW c \in calls, \/ RefuseGet(c) \/ LoadSave(c) \/ LoadLock(c) \/ LoadSubmit(c)
                              \/ AnswerStep(c) \/ Lose(c)
      PROVE  row' = row /\ submits' = submits
  BY <1>6 DEF RefuseGet, LoadSave, LoadLock, LoadSubmit, Refuse, Loaded, AnswerStep, Lose, server,
       GetAnswer, GetRefused, SaveDone, LockAnswer, LockAnswerLeaves, LockRefused, SubmitAnswer,
       SubmitAnswerHeld, SubmitRefused, Away
<1>7. CASE ClientStep \/ StudentStep \/ Tick \/ DropHub \/ UNCHANGED vars
  <2>1. row' = row /\ submits' = submits
    BY <1>7 DEF ClientStep, StudentStep, Tick, DropHub, vars, server, Deliver, Poll, Subscribe, Render,
         Timer, AutoSubmit, Type, ResetForm, LockNow, NavigateBlocked, Navigate, Away, Close, OpenPage,
         Enter, ConfirmSubmit
  <2>2. \A c \in calls : StoreLock(c) => row'.status # "NONE"
    BY <1>3
  <2> QED
    BY <1>1, <2>1, <2>2 DEF RowsInv, RowKnown
<1>8. CASE Reopen
  BY <1>1, <1>3, <1>8 DEF Reopen, Row
<1> DEFINE Grows == /\ row.status # "NONE" => row'.status # "NONE"
                    /\ submits' >= submits
                    /\ row'.status = "SUBMITTED" => submits' > 0
<1>9. row.status = "SUBMITTED" => submits > 0
  BY DEF RowsInv, RowKnown
<1>10. ASSUME NEW c \in calls, ServerStep(c) \/ AnswerStep(c) \/ Lose(c) PROVE Grows
  BY <1>1, <1>2, <1>3, <1>4, <1>5, <1>6, <1>9, <1>10 DEF ServerStep
<1> QED
  BY <1>3, <1>7, <1>8, <1>10 DEF Next

LEMMA NextRows == TypeInv /\ RowsInv /\ [Next]_vars => RowsInv'
<1> SUFFICES ASSUME TypeInv, RowsInv, [Next]_vars PROVE RowsInv'
  OBVIOUS
<1>1. submits \in Nat /\ submits' \in Nat
  BY NextTypes DEF TypeInv
<1> DEFINE Known(r) == /\ r.status # "NONE" => row'.status # "NONE"
                       /\ r.status = "SUBMITTED" => submits' > 0
<1>2. ASSUME NEW r, RowKnown(r) PROVE Known(r)
  BY <1>1, <1>2, RowGrows DEF RowKnown
<1>3. Known(row') /\ Known(NoRow) /\ Known(row)
  BY <1>2, RowGrows DEF RowsInv, NoRow
<1>4. Known(page'.data)
  BY <1>2, <1>3, DataMoves DEF RowsInv
<1>5. ASSUME NEW d \in calls'
      PROVE  /\ Known(d.row)
             /\ d.op = "get" /\ d.at = "answered" => d.row.status # "NONE"
             /\ d.op = "lock" /\ d.at = "answered" => d.row.status \in {"LOCKED", "SUBMITTED"}
             /\ d.op = "submit" /\ d.at = "read" => d.row.status = "ACTIVE"
  <2>1. CASE New(d)
    BY <1>3, <2>1 DEF New
  <2>2. ASSUME NEW b \in calls, Kept(b, d) PROVE d.row = b.row /\ d.op = b.op /\ d.at = b.at
    BY <2>2 DEF Kept
  <2>3. ASSUME NEW b \in calls, Handled(b, d)
        PROVE  /\ Known(d.row)
               /\ d.op = "get" /\ d.at = "answered" => d.row.status # "NONE"
               /\ d.op = "lock" /\ d.at = "answered" => d.row.status \in {"LOCKED", "SUBMITTED"}
               /\ d.op = "submit" /\ d.at = "read" => d.row.status = "ACTIVE"
    BY <1>3, <2>3, RowGrows DEF Handled
  <2> QED
    BY <1>2, <2>1, <2>2, <2>3, CallsMove DEF RowsInv
<1> QED
  BY <1>3, <1>4, <1>5 DEF RowsInv, RowKnown

----------------------------------------------------------------------------
(***************************************************************************)
(* What becomes of an open page in a step: it is rendered, given an        *)
(* answer, told that its lock was refused, mounted, left, or what it shows *)
(* stays.                                                                  *)
(***************************************************************************)
\* The page is rendered from p, the page of now with an edit or a lock.
Renders(p) ==
  /\ p \in Page /\ p.view = page.view /\ p.data = page.data /\ p.current = page.current
  /\ p.seen = page.seen /\ p.missed = page.missed /\ p.queued = page.queued
  /\ p.timer = page.timer /\ p.invalid = page.invalid
  /\ page'.view = p.view /\ page'.data = p.data /\ page'.current = p.current
  /\ page'.missed = p.missed /\ page'.invalid = p.invalid
  /\ page'.seen.status = p.data.status /\ page'.seen.locked = AttemptLocked(p)
  /\ page'.optimistic = (p.optimistic /\ ~ UnlocksOptimism(p))
  /\ page'.rows = HydratedRows(p)
  /\ page'.queued = IF Enqueues(p) THEN p.rows ELSE p.queued
  /\ page'.timer = (p.timer \/ Enqueues(p))
  /\ page'.dirty = (HydratedRows(p) # p.rows \/ (UnlocksOptimism(p) /\ p.optimistic))
  /\ page'.fresh = page'.dirty

\* What the page shows, and means to do, stays; so does its queue, but that a
\* settled save sets the timer and the timer empties it.
Steady ==
  /\ page'.view = page.view /\ page'.rows = page.rows /\ page'.data = page.data
  /\ page'.seen = page.seen /\ page'.dirty = page.dirty /\ page'.optimistic = page.optimistic
  /\ page'.missed = page.missed
  /\ page'.fresh = page.fresh \/ page'.fresh = TRUE
  /\ page'.current = page.current \/ page'.current = FALSE
  /\ \/ page'.queued = page.queued /\ (page'.timer = page.timer \/ (page.queued # NoDraft => page'.timer))
     \/ Timer

\* The page sends a lock, and has rendered it when the step is over.
LockSends ==
  /\ LockCall(page.rows) \in calls'
  /\ page' = Optimistic(page) \/ page' = [Optimistic(page) EXCEPT !.blocking = TRUE]

LEMMA RenderMoves ==
  ASSUME TypeInv
  PROVE  /\ Render => Renders(page)
         /\ ResetForm \/ (\E c \in scenario.contents : Type(c)) =>
              \E p \in Page : Renders(p) /\ p.optimistic = page.optimistic /\ p.dirty = TRUE
         /\ LockSends =>
              \E p \in Page : Renders(p) /\ p.optimistic = TRUE /\ p.dirty = TRUE
<1>1. page \in Page /\ Submitting \in BOOLEAN
  BY DEF TypeInv, Submitting
<1>2. ASSUME Render PROVE Renders(page)
  <2>1. page' = Rendered(page, Submitting)
    BY <1>2 DEF Render
  <2> QED
    BY <1>1, <2>1, RenderedFields DEF Renders
<1>3. ASSUME NEW c \in Contents, page' = Edited(page, c)
      PROVE  \E p \in Page : Renders(p) /\ p.optimistic = page.optimistic /\ p.dirty = TRUE
  <2> DEFINE p == [page EXCEPT !.rows = c, !.dirty = TRUE]
  <2>1. p \in Page
    BY <1>1, EditedType
  <2>2. /\ p.view = page.view /\ p.data = page.data /\ p.current = page.current
        /\ p.seen = page.seen /\ p.queued = page.queued
    BY <1>1 DEF Page
  <2>3. p.missed = page.missed
    BY <1>1 DEF Page
  <2>4. p.timer = page.timer /\ p.dirty = TRUE
    BY <1>1 DEF Page
  <2>5. p.optimistic = page.optimistic /\ p.invalid = page.invalid
    BY <1>1 DEF Page
  <2>6. page' = Rendered(p, Submitting)
    BY <1>3 DEF Edited
  <2> HIDE DEF p
  <2>7. Renders(p)
    BY <1>1, <2>1, <2>2, <2>3, <2>4, <2>5, <2>6, RenderedFields DEF Renders
  <2> QED
    BY <2>1, <2>4, <2>5, <2>7
<1>4. ASSUME LockSends
      PROVE  \E p \in Page : Renders(p) /\ p.optimistic = TRUE /\ p.dirty = TRUE
  <2> DEFINE p == [page EXCEPT !.optimistic = TRUE, !.dirty = TRUE]
             busy == TRUE
             q == Rendered(p, busy)
  <2>1. p \in Page
    BY <1>1, OptimisticType
  <2>2. /\ p.view = page.view /\ p.data = page.data /\ p.current = page.current
        /\ p.seen = page.seen /\ p.queued = page.queued
    BY <1>1 DEF Page
  <2>3. p.missed = page.missed
    BY <1>1 DEF Page
  <2>4. p.timer = page.timer /\ p.dirty = TRUE
    BY <1>1 DEF Page
  <2>5. p.optimistic = TRUE /\ p.invalid = page.invalid
    BY <1>1 DEF Page
  <2>6. page' = q \/ page' = [q EXCEPT !.blocking = TRUE]
    BY <1>4 DEF LockSends, Optimistic
  <2> HIDE DEF p, busy
  <2>7. q \in Page
    BY <2>1, RenderedType DEF busy
  <2> HIDE DEF q
  <2>8. /\ page'.view = q.view /\ page'.data = q.data /\ page'.current = q.current
        /\ page'.seen = q.seen /\ page'.queued = q.queued /\ page'.rows = q.rows
    BY <2>6, <2>7 DEF Page
  <2>9. page'.missed = q.missed /\ page'.timer = q.timer
    BY <2>6, <2>7 DEF Page
  <2>10. page'.dirty = q.dirty /\ page'.fresh = q.fresh
    BY <2>6, <2>7 DEF Page
  <2>11. page'.optimistic = q.optimistic /\ page'.invalid = q.invalid
    BY <2>6, <2>7 DEF Page
  <2>12. Renders(p)
    <3>1. q = Rendered(p, busy) /\ busy \in BOOLEAN
      BY DEF q, busy
    <3> QED
      BY <2>1, <2>2, <2>3, <2>4, <2>5, <2>8, <2>9, <2>10, <2>11, <3>1, RenderedFields DEF Renders
  <2> QED
    BY <2>1, <2>4, <2>5, <2>12
<1>5. scenario.contents \subseteq Contents /\ Blank \in Contents
  BY PageAssumption DEF TypeInv, Scenario
<1> QED
  BY <1>2, <1>3, <1>4, <1>5 DEF Type, ResetForm

LEMMA PageMoves ==
  ASSUME TypeInv, [Next]_vars, page'.view = "open"
  PROVE  \/ Steady
         \/ \E c \in calls : (GetAnswer(c) \/ LockAnswer(c)) /\ page' = Given(page, c)
         \/ \E c \in calls : LockRefused(c) /\ c.to = "page"
         \/ OpenPage \/ Enter \/ Render
         \/ ResetForm \/ \E c \in scenario.contents : Type(c)
         \/ LockSends
<1>1. calls \in SUBSET Call /\ page \in Page
  BY DEF TypeInv
<1>2. ASSUME NEW p, p = page \/ p = [page EXCEPT !.current = FALSE] \/ p = [page EXCEPT !.hub = "subscribed"]
                    \/ p = [page EXCEPT !.hub = "dropped"] \/ p = [page EXCEPT !.fresh = TRUE]
                    \/ p = SaveSettled(page) \/ p = [page EXCEPT !.invalid = TRUE]
                    \/ p = [page EXCEPT !.armed = "fired", !.fresh = TRUE],
             page' = p
      PROVE  Steady
  <2>1. p.view = page.view /\ p.rows = page.rows /\ p.data = page.data /\ p.seen = page.seen
    BY <1>1, <1>2 DEF Page, SaveSettled
  <2>2. p.dirty = page.dirty
    BY <1>1, <1>2 DEF Page, SaveSettled
  <2>3. p.optimistic = page.optimistic
    BY <1>1, <1>2 DEF Page, SaveSettled
  <2>4. p.missed = page.missed
    BY <1>1, <1>2 DEF Page, SaveSettled
  <2>5. p.fresh = page.fresh \/ p.fresh = TRUE
    BY <1>1, <1>2 DEF Page, SaveSettled
  <2>6. p.current = page.current \/ p.current = FALSE
    BY <1>1, <1>2 DEF Page, SaveSettled
  <2>7. p.queued = page.queued
    BY <1>1, <1>2 DEF Page, SaveSettled
  <2>8. p.timer = page.timer \/ (page.queued # NoDraft => p.timer)
    <3>1. CASE p = SaveSettled(page)
      <4>1. page.queued # NoDraft => p.timer
        BY <1>1, <3>1 DEF Page, SaveSettled
      <4> QED
        BY <4>1
    <3>2. CASE p # SaveSettled(page)
      <4>1. p.timer = page.timer
        BY <1>1, <1>2, <3>2 DEF Page
      <4> QED
        BY <4>1
    <3> QED
      BY <3>1, <3>2
  <2> QED
    BY <1>2, <2>1, <2>2, <2>3, <2>4, <2>5, <2>6, <2>7, <2>8 DEF Steady
<1>11. ASSUME Timer PROVE Steady
  <2>1. PICK p : page' = p /\ (p = [page EXCEPT !.timer = FALSE] \/ p = [page EXCEPT !.timer = FALSE, !.queued = NoDraft])
    BY <1>11 DEF Timer, Flush
  <2>2. p.view = page.view /\ p.rows = page.rows /\ p.data = page.data /\ p.seen = page.seen
    BY <1>1, <2>1 DEF Page
  <2>3. p.dirty = page.dirty /\ p.fresh = page.fresh
    BY <1>1, <2>1 DEF Page
  <2>4. p.optimistic = page.optimistic /\ p.current = page.current
    BY <1>1, <2>1 DEF Page
  <2>5. p.missed = page.missed
    BY <1>1, <2>1 DEF Page
  <2> QED
    BY <1>11, <2>1, <2>2, <2>3, <2>4, <2>5 DEF Steady
<1>3. ASSUME NEW c \in calls, ServerStep(c) \/ Lose(c) PROVE Steady
  BY <1>2, <1>3 DEF ServerStep, ServeGet, RefuseGet, LoadSave, StoreSave, LoadLock, StoreLock,
       LoadSubmit, StoreSubmit, Refuse, Loaded, Saved, Lose
<1>4. \A view \in {"closed", "away"} : Unmounted(page, view).view = view
  BY <1>1, UnmountedFields
<1>5. ASSUME NEW c \in calls, AnswerStep(c), ~ LockAnswerLeaves(c),
             ~ (GetAnswer(c) \/ LockAnswer(c)), ~ (LockRefused(c) /\ c.to = "page")
      PROVE  Steady \/ LockSends
  <2>1. CASE GetRefused(c) \/ SaveDone(c) \/ LockRefused(c)
    BY <1>2, <1>5, <2>1 DEF GetRefused, SaveDone, LockRefused
  <2>2. CASE SubmitAnswer(c)
    BY <1>2, <1>4, <2>2 DEF SubmitAnswer, Away
  <2>3. CASE SubmitRefused(c)
    <3>1. page.view = "open"
      BY <1>1, <2>3 DEF SubmitRefused, Page
    <3> QED
      BY <1>2, <2>3, <3>1 DEF SubmitRefused, Open
  <2>4. CASE SubmitAnswerHeld(c)
    BY <1>2, <2>4, HeldSubmit DEF LockSends
  <2> QED
    BY <1>5, <2>1, <2>2, <2>3, <2>4 DEF AnswerStep
<1>6. ASSUME NEW c \in calls, LockAnswerLeaves(c) PROVE FALSE
  <2> DEFINE q == Unmounted(page, "away")
  <2>1. q \in Page /\ q.view = "away" /\ c \in Call
    BY <1>1, <1>4, PageOperators
  <2>2. page' = q \/ page' = Given(q, c)
    BY <1>6 DEF LockAnswerLeaves
  <2> HIDE DEF q
  <2> QED
    BY <2>1, <2>2, GivenOpens
<1>7. CASE ClientStep
  BY <1>2, <1>7, <1>11 DEF ClientStep, Deliver, Poll, Subscribe, AutoSubmit
<1>8. ASSUME StudentStep, ~ (OpenPage \/ Enter \/ ResetForm \/ LockNow \/ NavigateBlocked),
             ~ \E c \in scenario.contents : Type(c)
      PROVE  Steady
  <2>1. CASE Navigate
    BY <1>4, <2>1 DEF Navigate, Away
  <2>2. CASE Close
    <3> DEFINE q == Unmounted(page, "closed")
    <3>1. q \in Page /\ q.view = "closed" /\ page' = [q EXCEPT !.data = NoRow]
      BY <1>1, <1>4, <2>2, PageOperators DEF Close
    <3> HIDE DEF q
    <3> QED
      BY <3>1 DEF Page
  <2>3. CASE ConfirmSubmit
    BY <1>2, <2>3 DEF ConfirmSubmit
  <2> QED
    BY <1>8, <2>1, <2>2, <2>3 DEF StudentStep
<1>9. CASE Reopen \/ Tick \/ DropHub \/ UNCHANGED vars
  BY <1>2, <1>9 DEF Reopen, Tick, DropHub, vars
<1>10. ASSUME NEW c \in calls, GetAnswer(c) \/ LockAnswer(c) PROVE page' = Given(page, c)
  BY <1>10 DEF GetAnswer, LockAnswer
<1>12. ASSUME LockNow \/ NavigateBlocked PROVE LockSends
  BY <1>12 DEF LockNow, NavigateBlocked, Locking, LockSends
<1> QED
  BY <1>3, <1>5, <1>6, <1>7, <1>8, <1>9, <1>10, <1>12 DEF Next

\* A call that the page waits for is waited for until its answer comes: by the
\* open page, a get also by one that was left.
LEMMA AwaitedStays ==
  ASSUME TypeInv, [Next]_vars, NEW c \in calls, c.to = "page", ~ AnswerStep(c),
         page'.view = "open" \/ (c.op = "get" /\ ~ Close)
  PROVE  \E d \in calls' : d.op = c.op /\ d.to = "page"
<1>1. calls \in SUBSET Call /\ page \in Page
  BY DEF TypeInv
<1>2. GetCall.op = "get" /\ GetCall.to = "page"
  BY SentCalls
<1>3. ASSUME NEW b \in calls, NEW cs, NEW at, NEW r, NEW k, c \in cs, calls' = Answered(b, cs, at, r, k)
      PROVE  \E d \in calls' : d.op = c.op /\ d.to = "page"
  <2> DEFINE e == [b EXCEPT !.at = at, !.row = r, !.draft = NoDraft, !.current = k]
  <2>1. e.op = b.op /\ e.to = b.to
    BY <1>1 DEF Call
  <2>2. c # b => c \in calls'
    BY <1>3 DEF Answered
  <2>3. c = b => e \in calls'
    BY <1>3 DEF Answered
  <2> HIDE DEF e
  <2> QED
    BY <2>1, <2>2, <2>3
<1>4. ASSUME NEW b \in calls, Loaded(b) PROVE \E d \in calls' : d.op = c.op /\ d.to = "page"
  <2> DEFINE e == [b EXCEPT !.at = "read", !.row = row]
  <2>1. e.op = b.op /\ e.to = b.to
    BY <1>1 DEF Call
  <2>2. c # b => c \in calls'
    BY <1>4 DEF Loaded
  <2>3. e \in calls'
    BY <1>4 DEF Loaded
  <2> HIDE DEF e
  <2> QED
    BY <2>1, <2>2, <2>3
<1>5. ASSUME NEW cs, Outdated(calls) \subseteq cs
      PROVE  \E d \in cs : d.op = c.op /\ d.to = "page"
  <2>1. [c EXCEPT !.current = FALSE] \in cs
    BY <1>5 DEF Outdated
  <2>2. [c EXCEPT !.current = FALSE].op = c.op /\ [c EXCEPT !.current = FALSE].to = c.to
    BY <1>1 DEF Call
  <2> QED
    BY <2>1, <2>2
<1>6. ASSUME NEW b \in calls, NEW r, Saved(b, r)
      PROVE  \E d \in calls' : d.op = c.op /\ d.to = "page"
  <2> DEFINE k == r # NoRow
             e == [b EXCEPT !.at = "answered", !.row = r, !.draft = NoDraft, !.current = k]
             o == [c EXCEPT !.current = FALSE]
  <2>1. calls' = Answered(b, Outdated(calls) \cup {b}, "answered", r, k) /\ o \in Outdated(calls)
    BY <1>6 DEF Saved, Outdated
  <2>2. e.op = b.op /\ e.to = b.to /\ o.op = c.op /\ o.to = c.to
    BY <1>1 DEF Call
  <2>3. o # b => o \in calls'
    BY <2>1 DEF Answered
  <2>4. b.to # "nobody" => e \in calls'
    BY <2>1 DEF Answered
  <2> HIDE DEF e, o, k
  <2> QED
    BY <2>2, <2>3, <2>4
<1>7. ASSUME NEW b \in calls, ServerStep(b) \/ Lose(b)
      PROVE  \E d \in calls' : d.op = c.op /\ d.to = "page"
  <2>1. CASE ServeGet(b)
    BY <1>3, <2>1 DEF ServeGet
  <2>2. CASE RefuseGet(b) \/ Lose(b)
    BY <1>3, <2>2 DEF RefuseGet, Lose, Refuse
  <2>3. CASE LoadSave(b) \/ LoadSubmit(b)
    BY <1>3, <1>4, <2>3 DEF LoadSave, LoadSubmit, Refuse
  <2>4. CASE LoadLock(b)
    BY <1>3, <1>4, <2>4 DEF LoadLock
  <2>5. CASE StoreSave(b) \/ StoreLock(b) \/ StoreSubmit(b)
    BY <1>6, <2>5 DEF StoreSave, StoreLock, StoreSubmit
  <2> QED
    BY <1>7, <2>1, <2>2, <2>3, <2>4, <2>5 DEF ServerStep
<1>8. ASSUME NEW cs, c \in cs, calls' = Refetch(cs) PROVE \E d \in calls' : d.op = c.op /\ d.to = "page"
  <2>1. CASE c.op = "get"
    BY <1>2, <1>8, <2>1 DEF Refetch
  <2>2. CASE c.op # "get"
    BY <1>8, <2>2 DEF Refetch, Mine
  <2> QED
    BY <2>1, <2>2
<1>9. \A view \in {"closed", "away"} : Unmounted(page, view) \in Page /\ Unmounted(page, view).view = view
  BY <1>1, UnmountedFields, PageOperators
<1>14. ASSUME c.op = "get", NEW cs, c \in cs PROVE c \in UNION {Orphan(b) : b \in cs}
  BY <1>14 DEF Orphan
<1>15. ASSUME NEW cs, Away(cs, TRUE) \/ Away(cs, FALSE) \/ Away(cs, TooEarly), page'.view = "open" PROVE FALSE
  BY <1>9, <1>15 DEF Away
<1>10. ASSUME NEW b \in calls, AnswerStep(b) PROVE \E d \in calls' : d.op = c.op /\ d.to = "page"
  <2>1. b # c
    BY <1>10
  <2>2. CASE LockAnswerLeaves(b)
    <3> DEFINE q == Unmounted(page, "away")
    <3>1. q \in Page /\ q.view = "away" /\ b \in Call
      BY <1>1, <1>9
    <3>2. page' = q \/ page' = Given(q, b)
      BY <2>2 DEF LockAnswerLeaves
    <3> HIDE DEF q
    <3>3. c.op = "get"
      BY <3>1, <3>2, GivenOpens
    <3> QED
      BY <1>14, <2>1, <2>2, <3>3 DEF LockAnswerLeaves
  <2>3. CASE SubmitAnswer(b) /\ Open
    <3>1. Away(Refetch(calls \ {b}), TooEarly)
      BY <2>3 DEF SubmitAnswer
    <3>2. c.op = "get"
      BY <1>15, <3>1
    <3>3. \E d \in Refetch(calls \ {b}) : d.op = "get" /\ d.to = "page"
      BY <1>2, <2>1, <3>2 DEF Refetch
    <3>4. PICK d \in Refetch(calls \ {b}) : d.op = "get" /\ d.to = "page"
      BY <3>3
    <3>5. d \in UNION {Orphan(e) : e \in Refetch(calls \ {b})}
      BY <3>4 DEF Orphan
    <3> QED
      BY <3>1, <3>2, <3>4, <3>5 DEF Away
  <2>4. CASE SubmitAnswerHeld(b)
    <3>1. CASE c.op # "get"
      <4>1. \A d \in calls \ {b} : d.op # "get" => d \in calls'
        BY <2>4, HeldSubmit
      <4> QED
        BY <2>1, <3>1, <4>1
    <3>2. CASE c.op = "get"
      <4>1. \E d \in Refetch(calls \ {b}) : d.op = "get" /\ d.to = "page"
        BY <1>2, <2>1, <3>2 DEF Refetch
      <4>2. Refetch(calls \ {b}) \subseteq calls'
        BY <2>4, HeldSubmit
      <4> QED
        BY <3>2, <4>1, <4>2
    <3> QED
      BY <3>1, <3>2
  <2>5. CASE ~ LockAnswerLeaves(b) /\ ~ (SubmitAnswer(b) /\ Open) /\ ~ SubmitAnswerHeld(b)
    BY <1>10, <2>1, <2>5 DEF AnswerStep, GetAnswer, GetRefused, SaveDone, LockAnswer, LockRefused,
         SubmitAnswer, SubmitRefused, Ends
  <2> QED
    BY <2>2, <2>3, <2>4, <2>5
<1>11. CASE ClientStep
  <2>1. CASE Deliver
    BY <1>8, <2>1 DEF Deliver
  <2>2. CASE ~ Deliver
    BY <1>11, <2>2 DEF ClientStep, Poll, Subscribe, Render, Timer, Flush, AutoSubmit
  <2> QED
    BY <2>1, <2>2
<1>12. CASE StudentStep
  <2>1. CASE Navigate
    <3>1. Away(calls, FALSE)
      BY <2>1 DEF Navigate
    <3>2. c.op = "get"
      BY <1>15, <3>1
    <3> QED
      BY <1>14, <3>1, <3>2 DEF Away
  <2>2. ~ Close
    <3> DEFINE q == Unmounted(page, "closed")
    <3>1. q \in Page /\ q.view = "closed"
      BY <1>9
    <3>2. Close => page' = [q EXCEPT !.data = NoRow]
      BY DEF Close
    <3> HIDE DEF q
    <3> QED
      BY <3>1, <3>2 DEF Page
  <2>3. ASSUME ~ Navigate PROVE c \in calls'
    BY <1>12, <2>2, <2>3 DEF StudentStep, Type, ResetForm, LockNow, Locking, NavigateBlocked, OpenPage,
         Enter, ConfirmSubmit
  <2> QED
    BY <2>1, <2>3
<1>13. CASE Reopen \/ Tick \/ DropHub \/ UNCHANGED vars
  BY <1>5, <1>13 DEF Reopen, Tick, DropHub, vars
<1> QED
  BY <1>7, <1>10, <1>11, <1>12, <1>13 DEF Next

----------------------------------------------------------------------------
(***************************************************************************)
(* The closures of the last render know what is cached, unless another     *)
(* render is due; so does the autosave effect.                             *)
(***************************************************************************)
SeenInv ==
  Open =>
    /\ page.dirty => page.fresh
    /\ ~ page.fresh => page.seen.status = page.data.status /\ page.seen.locked = AttemptLocked(page)

LEMMA NextSeen == TypeInv /\ SeenInv /\ [Next]_vars => SeenInv'
<1> SUFFICES ASSUME TypeInv, SeenInv, [Next]_vars, page'.view = "open"
             PROVE  /\ page'.dirty => page'.fresh
                    /\ ~ page'.fresh => /\ page'.seen.status = page'.data.status
                                        /\ page'.seen.locked = AttemptLocked(page')
  BY DEF SeenInv, Open, AttemptLocked
<1>1. calls \in SUBSET Call /\ page \in Page /\ page' \in Page
  BY NextTypes DEF TypeInv
<1>2. CASE Steady
  <2>1. page.view = "open"
    BY <1>2 DEF Steady
  <2>2. AttemptLocked(page') = AttemptLocked(page)
    BY <1>2 DEF Steady, AttemptLocked
  <2> QED
    BY <1>1, <1>2, <2>1, <2>2 DEF Steady, SeenInv, Open
<1>3. CASE \E c \in calls : page' = Given(page, c)
  <2>1. PICK c \in calls : page' = Given(page, c)
    BY <1>3
  <2>2. c \in Call /\ page.view = "open"
    BY <1>1, <2>1, GivenOpens
  <2>3. page'.fresh
    BY <1>1, <2>1, <2>2, GivenFields
  <2> QED
    BY <2>3
<1>4. CASE \E c \in calls : LockRefused(c) /\ c.to = "page"
  <2>1. page'.fresh = TRUE
    BY <1>1, <1>4 DEF LockRefused, Page
  <2> QED
    BY <2>1
<1>5. CASE OpenPage \/ Enter
  <2>1. page'.fresh = TRUE
    BY <1>1, <1>5, MountedFields DEF OpenPage, Enter
  <2> QED
    BY <2>1
<1>6. ASSUME NEW p \in Page, Renders(p)
      PROVE  /\ page'.dirty => page'.fresh
             /\ ~ page'.fresh => /\ page'.seen.status = page'.data.status
                                 /\ page'.seen.locked = AttemptLocked(page')
  <2>1. page'.dirty => page'.fresh
    BY <1>6 DEF Renders
  <2>2. page'.seen.status = page'.data.status
    BY <1>6 DEF Renders
  <2>3. ~ page'.fresh => (page'.optimistic <=> p.optimistic)
    BY <1>6 DEF Renders
  <2>4. ~ page'.fresh => page'.seen.locked = AttemptLocked(page')
    BY <1>1, <1>6, <2>3 DEF Renders, AttemptLocked, Page
  <2> QED
    BY <2>1, <2>2, <2>4
<1> QED
  BY <1>1, <1>2, <1>3, <1>4, <1>5, <1>6, PageMoves, RenderMoves

(***************************************************************************)
(* An optimistic lock over an active attempt: its call is under way, or    *)
(* the render that ends it is due, or the change of the status was missed. *)
(***************************************************************************)
OptimismInv ==
  Open /\ page.optimistic /\ page.data.status = "ACTIVE" =>
    \/ page.missed \/ Mine("lock") # {}
    \/ page.fresh /\ page.seen.status # "ACTIVE"

LEMMA NextOptimism == TypeInv /\ RowsInv /\ OptimismInv /\ [Next]_vars => OptimismInv'
<1> DEFINE Locks == \E d \in calls' : d.op = "lock" /\ d.to = "page"
           Goal == \/ page'.missed \/ Locks
                   \/ page'.fresh /\ page'.seen.status # "ACTIVE"
<1> SUFFICES ASSUME TypeInv, RowsInv, OptimismInv, [Next]_vars,
                    page'.view = "open", page'.optimistic, page'.data.status = "ACTIVE"
             PROVE  Goal
  BY DEF OptimismInv, Open, Mine
<1>1. calls \in SUBSET Call /\ page \in Page
  BY DEF TypeInv
<1>2. ASSUME NEW c \in calls, c \in Mine("lock"), ~ AnswerStep(c) PROVE Locks
  BY <1>2, AwaitedStays DEF Mine
<1>3. ASSUME Steady PROVE Goal
  <2>1. Open /\ page.optimistic /\ page.data.status = "ACTIVE"
    BY <1>3 DEF Steady, Open
  <2>2. CASE page.missed \/ (page.fresh /\ page.seen.status # "ACTIVE")
    BY <1>1, <1>3, <2>2 DEF Steady
  <2>3. ASSUME NEW c \in Mine("lock") PROVE Goal
    <3>1. c \in calls /\ c.op = "lock" /\ c.to = "page"
      BY DEF Mine
    <3>2. CASE ~ AnswerStep(c)
      BY <1>2, <3>1, <3>2
    <3>3. CASE AnswerStep(c)
      <4>1. LockAnswer(c) \/ LockAnswerLeaves(c) \/ LockRefused(c)
        BY <3>1, <3>3 DEF AnswerStep, GetAnswer, GetRefused, SaveDone, SubmitAnswer, SubmitAnswerHeld,
             SubmitRefused, SubmitOps
      <4>2. ~ LockRefused(c)
        BY <1>1, <1>3, <2>1, <3>1 DEF LockRefused, Steady, Page
      <4>3. ~ LockAnswer(c)
        <5>1. LockAnswer(c) => page'.data = c.row /\ c.row.status # "ACTIVE"
          BY <1>1, <3>1, GivenOpens DEF LockAnswer, RowsInv
        <5> QED
          BY <5>1
      <4>4. ~ LockAnswerLeaves(c)
        <5> DEFINE q == Unmounted(page, "away")
        <5>1. q \in Page /\ q.view = "away" /\ c \in Call
          BY <1>1, <3>1, PageOperators, UnmountedFields
        <5>2. LockAnswerLeaves(c) => page' = q \/ page' = Given(q, c)
          BY DEF LockAnswerLeaves
        <5> HIDE DEF q
        <5>3. Given(q, c).view = "away"
          BY <5>1, GivenOpens
        <5> QED
          BY <5>1, <5>2, <5>3
      <4> QED
        BY <4>1, <4>2, <4>3, <4>4
    <3> QED
      BY <3>2, <3>3
  <2> QED
    BY <2>1, <2>2, <2>3 DEF OptimismInv
<1>4. ASSUME NEW c \in calls, GetAnswer(c), page' = Given(page, c) PROVE Goal
  <2>0. c \in Call /\ page.view = "open" /\ c.row.status = "ACTIVE"
    BY <1>1, <1>4, GivenOpens
  <2>1. page'.fresh /\ page'.seen = page.seen /\ page.optimistic
    <3>1. Given(page, c).fresh = TRUE /\ Given(page, c).seen = page.seen
      BY <1>1, <2>0, GivenFields
    <3>2. Given(page, c).optimistic = page.optimistic
      BY <1>1, <2>0, GivenFields
    <3>3. Given(page, c).optimistic
      BY <1>4
    <3> QED
      BY <1>4, <3>1, <3>2, <3>3
  <2>2. page'.missed = (page.missed \/ (page.data.status # page.seen.status
                                          /\ c.row.status = page.seen.status))
    <3>1. Given(page, c).missed = (page.missed \/ (page.data.status # page.seen.status
                                                     /\ c.row.status = page.seen.status))
      BY <1>1, <2>0, GivenFields
    <3> QED
      BY <1>4, <3>1
  <2>3. CASE page.seen.status # "ACTIVE" \/ page.data.status # "ACTIVE"
    BY <2>0, <2>1, <2>2, <2>3
  <2>4. CASE page.seen.status = "ACTIVE" /\ page.data.status = "ACTIVE"
    <3>1. page.missed \/ Mine("lock") # {}
      BY <2>0, <2>1, <2>4 DEF OptimismInv, Open
    <3>2. ASSUME NEW d \in Mine("lock") PROVE Locks
      <4>1. d \in calls /\ d.op = "lock" /\ d # c /\ d.to = "page"
        BY <1>4 DEF Mine, GetAnswer
      <4>2. d \in calls'
        BY <1>4, <4>1 DEF GetAnswer, Ends
      <4> QED
        BY <4>1, <4>2
    <3> QED
      BY <2>2, <3>1, <3>2
  <2> QED
    BY <2>3, <2>4
<1>5. ASSUME NEW c \in calls, LockAnswer(c), page' = Given(page, c) PROVE FALSE
  BY <1>1, <1>5, GivenOpens DEF LockAnswer, RowsInv
<1>6. ASSUME NEW c \in calls, LockRefused(c), c.to = "page" PROVE FALSE
  BY <1>1, <1>6 DEF LockRefused, Page
<1>7. ASSUME OpenPage \/ Enter PROVE FALSE
  BY <1>1, <1>7, MountedFields DEF OpenPage, Enter
<1>8. ASSUME LockSends PROVE Goal
  <2>1. LockCall(page.rows) \in calls'
    BY <1>8 DEF LockSends
  <2>2. page.rows \in Drafts
    BY <1>1 DEF Page, Drafts
  <2> QED
    BY <2>1, <2>2, SentCalls
<1>9. ASSUME NEW p \in Page, Renders(p), p.optimistic = page.optimistic, calls' = calls PROVE Goal
  <2>1. page.view = "open" /\ page.optimistic /\ page.data.status = "ACTIVE"
        /\ page.data.status = page.seen.status /\ page'.missed = page.missed
    BY <1>1, <1>9 DEF Renders, UnlocksOptimism
  <2>2. page.missed \/ Mine("lock") # {}
    BY <2>1 DEF OptimismInv, Open
  <2> QED
    BY <1>9, <2>1, <2>2 DEF Mine
<1>10. ASSUME Render \/ ResetForm \/ \E c \in scenario.contents : Type(c) PROVE Goal
  <2>1. calls' = calls
    BY <1>10 DEF Render, ResetForm, Type
  <2> QED
    BY <1>1, <1>9, <1>10, <2>1, RenderMoves
<1> QED
  BY <1>3, <1>4, <1>5, <1>6, <1>7, <1>8, <1>10, PageMoves

----------------------------------------------------------------------------
(***************************************************************************)
(* Who waits for calls: an open page for any, a page that was left only    *)
(* for a get, and one get at a time; nothing is due of a page that is not  *)
(* open.                                                                   *)
(***************************************************************************)
WhereInv ==
  /\ \A c \in calls : c.to = "page" => Open \/ (page.view = "away" /\ c.op = "get")
  /\ ~ Open => ~ news /\ ~ page.timer
  /\ \A g, h \in Mine("get") : g = h

\* Leaving keeps the gets, and the page waits for nothing else.
LEMMA LeftCalls ==
  ASSUME page \in Page, NEW cs \in SUBSET Call, NEW d \in UNION {Orphan(c) : c \in cs}
  PROVE  /\ d.to = "page" => d.op = "get" /\ d \in cs
         /\ d.op = "get" => d \in cs
<1>1. PICK c \in cs : d \in Orphan(c)
  OBVIOUS
<1>2. c \in Call
  OBVIOUS
<1> QED
  BY <1>1, <1>2, OrphanCalls DEF Kept, SubmitOps

LEMMA ClosedCalls ==
  ASSUME TypeInv, Close, NEW d \in calls'
  PROVE  d.to = "nobody"
<1>1. calls \in SUBSET Call /\ page.rows \in Drafts
  BY DEF TypeInv, Page, Drafts
<1>2. \A c \in calls : [c EXCEPT !.to = "nobody"].to = "nobody"
  BY <1>1 DEF Call
<1>3. BeaconCall(page.rows).to = "nobody"
  BY <1>1, SentCalls
<1> QED
  BY <1>2, <1>3 DEF Close

\* A page that is not open: it has been left, or it was so before.
LEMMA NotOpenMoves ==
  ASSUME TypeInv, WhereInv, [Next]_vars, page'.view # "open"
  PROVE  \/ /\ Close
            /\ page'.view = "closed" /\ ~ news' /\ ~ page'.timer
         \/ /\ page'.view = "away" /\ ~ news' /\ ~ page'.timer
            /\ \E cs \in SUBSET (calls \cup {GetCall}) : calls' = UNION {Orphan(c) : c \in cs}
            /\ Navigate \/ \E c \in calls : LockAnswerLeaves(c) \/ SubmitAnswer(c)
         \/ /\ page'.view = page.view /\ ~ news' /\ ~ page'.timer
            /\ \A d \in calls' : d.to = "page" => \E c \in calls : c.to = "page" /\ c.op = d.op
<1>1. calls \in SUBSET Call /\ page \in Page
  BY DEF TypeInv
<1>2. ASSUME NEW view \in {"closed", "away"}
      PROVE  Unmounted(page, view) \in Page /\ Unmounted(page, view).view = view /\ ~ Unmounted(page, view).timer
  <2>1. ~ Unmounted(page, view).timer
    BY <1>1 DEF Unmounted, Page
  <2> QED
    BY <1>1, <2>1, PageOperators, UnmountedFields
<1> DEFINE Left == /\ page'.view = "away" /\ ~ news' /\ ~ page'.timer
                   /\ \E cs \in SUBSET (calls \cup {GetCall}) : calls' = UNION {Orphan(c) : c \in cs}
                   /\ Navigate \/ \E c \in calls : LockAnswerLeaves(c) \/ SubmitAnswer(c)
           Stays == /\ page'.view = page.view /\ ~ news' /\ ~ page'.timer
                    /\ \A d \in calls' : d.to = "page" => \E c \in calls : c.to = "page" /\ c.op = d.op
<1>3. CASE Close
  <2> DEFINE q == Unmounted(page, "closed")
  <2>1. q \in Page /\ q.view = "closed" /\ ~ q.timer /\ page' = [q EXCEPT !.data = NoRow] /\ ~ news'
    BY <1>2, <1>3 DEF Close
  <2> HIDE DEF q
  <2>2. page'.view = "closed" /\ page'.timer = q.timer
    BY <2>1 DEF Page
  <2> QED
    BY <1>3, <2>1, <2>2
<1>4. CASE Navigate
  <2>1. Left
    BY <1>2, <1>4 DEF Navigate, Away
  <2> QED
    BY <2>1
<1>5. ASSUME NEW c \in calls, LockAnswerLeaves(c) PROVE Left
  <2> DEFINE q == Unmounted(page, "away")
  <2>1. q \in Page /\ q.view = "away" /\ ~ q.timer /\ c \in Call
    BY <1>1, <1>2
  <2>2. page' = q \/ page' = Given(q, c)
    BY <1>5 DEF LockAnswerLeaves
  <2> HIDE DEF q
  <2>3. page'.view = "away"
    BY <2>1, <2>2, GivenOpens
  <2>4. ~ page'.timer
    <3>1. Given(q, c).timer = q.timer
      BY <2>1, GivenFields
    <3> QED
      BY <2>1, <2>2, <3>1
  <2> QED
    BY <1>5, <2>3, <2>4 DEF LockAnswerLeaves
<1>6. ASSUME NEW c \in calls, SubmitAnswer(c), Open PROVE Left
  <2>1. Refetch(calls \ {c}) \in SUBSET (calls \cup {GetCall})
    BY DEF Refetch
  <2> QED
    BY <1>2, <1>6, <2>1 DEF SubmitAnswer, Away
<1>7. ASSUME ~ Open, ~ news, ~ page.timer, page'.view = page.view, page'.timer = page.timer \/ ~ page'.timer,
             ~ news',
             \A d \in calls' : d.to = "page" => \E c \in calls : c.to = "page" /\ c.op = d.op
      PROVE  Stays
  BY <1>7
<1>8. ASSUME NEW c \in calls, ServerStep(c) \/ Lose(c) PROVE Stays
  <2>1. page'.view = page.view
    BY <1>1, <1>8 DEF ServerStep, Lose, ServeGet, RefuseGet, LoadSave, StoreSave, LoadLock, StoreLock,
         LoadSubmit, StoreSubmit, Refuse, Loaded, Saved, Page
  <2>2. page'.timer = page.timer
    BY <1>1, <1>8 DEF ServerStep, Lose, ServeGet, RefuseGet, LoadSave, StoreSave, LoadLock, StoreLock,
         LoadSubmit, StoreSubmit, Refuse, Loaded, Saved, Page
  <2>3. ~ Open /\ ~ news /\ ~ page.timer
    BY <2>1 DEF WhereInv, Open
  <2>4. ~ news'
    BY <1>8, <2>3 DEF ServerStep, Lose, ServeGet, RefuseGet, LoadSave, StoreSave, LoadLock, StoreLock,
         LoadSubmit, StoreSubmit, Refuse, Loaded, Publish, Heard
  <2>5. ASSUME NEW d \in calls', d.to = "page" PROVE \E b \in calls : b.to = "page" /\ b.op = d.op
    <3> DEFINE From(b) == b \in calls /\ b.op = d.op /\ b.to = d.to
    <3>1. ASSUME NEW cs, NEW at \in {"answered", "refused"}, NEW r \in Row, NEW k,
                 calls' = Answered(c, cs, at, r, k)
          PROVE  d \in cs \/ From(c)
      <4>1. d \in Answered(c, cs, at, r, k) /\ c \in Call
        BY <1>1, <3>1
      <4>2. \/ d \in cs \ {c}
            \/ d.to = "nobody"
            \/ d.op = c.op /\ d.to = c.to
        BY <4>1, AnsweredCalls
      <4> QED
        BY <2>5, <4>2
    <3>2. row \in Row /\ NoRow \in Row
      BY PageAssumption DEF TypeInv, NoRow, Row, Drafts, Statuses
    <3>3. ASSUME Loaded(c) PROVE d \in calls \/ From(c)
      <4> DEFINE e == [c EXCEPT !.at = "read", !.row = row]
      <4>1. e.op = c.op /\ e.to = c.to /\ (d \in calls \/ d = e)
        BY <1>1, <3>3 DEF Loaded, Call
      <4> HIDE DEF e
      <4> QED
        BY <4>1
    <3>4. ASSUME NEW r \in Row, Saved(c, r) PROVE \E b \in calls : From(b)
      <4> DEFINE k == r # NoRow
      <4>1. calls' = Answered(c, Outdated(calls) \cup {c}, "answered", r, k)
        BY <3>4 DEF Saved
      <4> HIDE DEF k
      <4>2. d \in Outdated(calls) \/ From(c)
        BY <3>1, <4>1
      <4> QED
        BY <1>1, <4>2, OutdatedCalls DEF Kept
    <3>5. [status |-> "LOCKED", draft |-> c.draft] \in Row /\ row' \in Row
      BY <1>1, NextTypes DEF Row, Statuses, Call, TypeInv
    <3> DEFINE t == TRUE
               f == FALSE
    <3>6. \/ calls' = Answered(c, calls, "refused", NoRow, f)
          \/ calls' = Answered(c, calls, "answered", row, t)
          \/ calls' = Answered(c, calls, "answered", row', t)
          \/ Loaded(c) \/ Saved(c, NoRow) \/ Saved(c, [status |-> "LOCKED", draft |-> c.draft])
      BY <1>8 DEF ServerStep, Lose, ServeGet, RefuseGet, LoadSave, StoreSave, LoadLock, StoreLock,
           LoadSubmit, StoreSubmit, Refuse
    <3> HIDE DEF t, f
    <3>7. \E b \in calls : From(b)
      BY <3>1, <3>2, <3>3, <3>4, <3>5, <3>6
    <3> QED
      BY <2>5, <3>7
  <2> QED
    BY <1>7, <2>1, <2>2, <2>3, <2>4, <2>5
<1>13. ASSUME NEW c \in calls, SubmitAnswerHeld(c) PROVE FALSE
  BY <1>13, HeldSubmit
<1>9. ASSUME NEW c \in calls, AnswerStep(c), ~ LockAnswerLeaves(c), ~ (SubmitAnswer(c) /\ Open) PROVE Stays
  <2>1. page'.view = page.view /\ calls' \subseteq calls /\ news' = news
    <3>1. c \in Call
      BY <1>1
    <3>2. Given(page, c).view = page.view
      BY <1>1, <3>1, GivenOpens
    <3> QED
      BY <1>1, <1>9, <1>13, <3>2 DEF AnswerStep, GetAnswer, GetRefused, SaveDone, LockAnswer, LockRefused,
           SubmitAnswer, SubmitRefused, Ends, SaveSettled, Page
  <2>2. ~ Open /\ ~ news /\ ~ page.timer
    BY <2>1 DEF WhereInv, Open
  <2>3. ~ SaveDone(c)
    BY <2>2 DEF WhereInv, SaveDone
  <2>4. page'.timer = page.timer
    <3>1. c \in Call
      BY <1>1
    <3>2. Given(page, c).timer = page.timer
      BY <1>1, <3>1, GivenFields
    <3> QED
      BY <1>1, <1>9, <1>13, <2>3, <3>2 DEF AnswerStep, GetAnswer, GetRefused, LockAnswer, LockRefused,
           SubmitAnswer, SubmitRefused, Page
  <2> QED
    BY <1>7, <2>1, <2>2, <2>4
<1>10. CASE Reopen
  <2>1. page'.view = page.view
    BY <1>1, <1>10 DEF Reopen, Page
  <2>2. page'.timer = page.timer
    BY <1>1, <1>10 DEF Reopen, Page
  <2>3. ~ Open /\ ~ news /\ ~ page.timer
    BY <2>1 DEF WhereInv, Open
  <2>4. ~ news'
    BY <1>10, <2>3 DEF Reopen, Publish, Heard
  <2>5. ASSUME NEW d \in calls' PROVE \E b \in calls : b.to = d.to /\ b.op = d.op
    <3>1. d \in Outdated(calls)
      BY <1>10 DEF Reopen
    <3> QED
      BY <1>1, <3>1, OutdatedCalls DEF Kept
  <2>6. \A d \in calls' : d.to = "page" => \E b \in calls : b.to = "page" /\ b.op = d.op
    BY <2>5
  <2> QED
    BY <1>7, <2>1, <2>2, <2>3, <2>4, <2>6
<1>11. CASE Tick \/ UNCHANGED vars
  BY <1>11 DEF Tick, vars, WhereInv, Open
<1>12. ASSUME DropHub \/ ClientStep \/ (StudentStep /\ ~ Navigate /\ ~ Close) PROVE FALSE
  <2>1. ~ Open
    <3>1. CASE Open
      <4>1. Submitting \in BOOLEAN
        BY DEF Submitting
      <4>2. Rendered(page, Submitting).view = page.view
        BY <1>1, <4>1, RenderedFields
      <4>3. ASSUME NEW c \in Contents PROVE Edited(page, c).view = page.view
        BY <1>1, EditedType
      <4>4. Optimistic(page) \in Page /\ Optimistic(page).view = page.view
        BY <1>1, OptimisticType
      <4>5. [Optimistic(page) EXCEPT !.blocking = TRUE].view = page.view
        BY <4>4 DEF Page
      <4>6. scenario.contents \subseteq Contents /\ Blank \in Contents
        BY PageAssumption DEF TypeInv, Scenario
      <4>7. ~ (OpenPage \/ Enter)
        BY <3>1 DEF OpenPage, Enter, Open
      <4>8. ASSUME DropHub \/ ClientStep PROVE page'.view = "open"
        BY <1>1, <3>1, <4>2, <4>8 DEF DropHub, ClientStep, Deliver, Poll, Subscribe, Render, Timer, Flush,
             AutoSubmit, Page, Open
      <4>9. ASSUME StudentStep /\ ~ Navigate /\ ~ Close PROVE page'.view = "open"
        <5>1. ConfirmSubmit => page'.view = page.view
          BY <1>1 DEF ConfirmSubmit, Page
        <5>2. (\E c \in scenario.contents : Type(c)) \/ ResetForm => page'.view = page.view
          BY <4>3, <4>6 DEF Type, ResetForm
        <5>3. LockNow \/ NavigateBlocked => page'.view = page.view
          BY <4>4, <4>5 DEF LockNow, NavigateBlocked
        <5> QED
          BY <3>1, <4>7, <4>9, <5>1, <5>2, <5>3 DEF StudentStep, Open
      <4> QED
        BY <1>12, <4>8, <4>9
    <3> QED
      BY <3>1
  <2>2. ~ news /\ ~ page.timer
    BY <2>1 DEF WhereInv
  <2>3. OpenPage \/ Enter
    BY <1>12, <2>1, <2>2 DEF DropHub, ClientStep, Deliver, Poll, Subscribe, Render, Timer, AutoSubmit,
         StudentStep, Type, ResetForm, LockNow, NavigateBlocked, MayNavigate, ConfirmSubmit
  <2> QED
    BY <1>1, <2>3, MountedFields DEF OpenPage, Enter
<1> QED
  BY <1>3, <1>4, <1>5, <1>6, <1>8, <1>9, <1>10, <1>11, <1>12 DEF Next

\* The answer that a call becomes.
Reply(c, at, r, k) == [c EXCEPT !.at = at, !.row = r, !.draft = NoDraft, !.current = k]

\* The gets of the page among those left of a call that was answered.
LEMMA AnsweredGets ==
  ASSUME NEW c \in Call, NEW cs, NEW at \in {"answered", "refused"}, NEW r \in Row, NEW k,
         NEW g \in Answered(c, cs, at, r, k), g.op = "get", g.to = "page"
  PROVE  \/ g \in cs \ {c}
         \/ c.op = "get" /\ c.to = "page" /\ g = Reply(c, at, r, k)
<1> DEFINE e == [c EXCEPT !.at = at, !.row = r, !.draft = NoDraft, !.current = k]
<1>1. e.op = c.op /\ e.to = c.to
  BY DEF Call
<1>2. g \in cs \ {c} \/ g \in After(c) \/ g = e
  BY DEF Answered
<1>3. g \notin After(c)
  BY AfterCalls
<1> HIDE DEF e
<1> QED
  BY <1>1, <1>2, <1>3 DEF e, Reply

\* The page waits for one get at a time.
LEMMA NextOneGet ==
  ASSUME TypeInv, WhereInv, [Next]_vars,
         NEW g \in calls', NEW h \in calls',
         g.op = "get", g.to = "page", h.op = "get", h.to = "page"
  PROVE  g = h
<1>1. calls \in SUBSET Call /\ page \in Page
  BY DEF TypeInv
<1>2. \A a, b \in calls : a.op = "get" /\ a.to = "page" /\ b.op = "get" /\ b.to = "page" => a = b
  BY DEF WhereInv, Mine
<1>3. GetCall.op = "get" /\ GetCall.to = "page"
      /\ \A x \in Drafts : /\ SaveCall(x).op = "save" /\ LockCall(x).op = "lock"
                           /\ BeaconCall(x).op = "beacon"
      /\ \A p \in Page, auto \in BOOLEAN : SubmitCall(p, auto).op \in SubmitOps
  BY SentCalls
<1>4. page.rows \in Drafts /\ page.queued \in Drafts
  BY <1>1 DEF Page, Drafts
<1>5. ASSUME g \in calls, h \in calls PROVE g = h
  BY <1>2, <1>5
<1>6. ASSUME NEW c \in calls, NEW at \in {"answered", "refused"}, NEW r \in Row, NEW k,
             calls' = Answered(c, calls, at, r, k)
      PROVE  g = h
  <2> DEFINE e == Reply(c, at, r, k)
  <2>1. g \in Answered(c, calls, at, r, k) /\ h \in Answered(c, calls, at, r, k) /\ c \in Call
    BY <1>1, <1>6
  <2>2. g \in calls \ {c} \/ (c.op = "get" /\ c.to = "page" /\ g = e)
    BY <2>1, AnsweredGets
  <2>3. h \in calls \ {c} \/ (c.op = "get" /\ c.to = "page" /\ h = e)
    BY <2>1, AnsweredGets
  <2> HIDE DEF e
  <2> QED
    BY <1>2, <2>2, <2>3
<1>20. ASSUME g \in Outdated(calls), h \in Outdated(calls) PROVE g = h
  <2>1. PICK a \in calls : g = [a EXCEPT !.current = FALSE]
    BY <1>20 DEF Outdated
  <2>2. PICK b \in calls : h = [b EXCEPT !.current = FALSE]
    BY <1>20 DEF Outdated
  <2>3. a.op = "get" /\ a.to = "page" /\ b.op = "get" /\ b.to = "page"
    BY <1>1, <2>1, <2>2 DEF Call
  <2> QED
    BY <1>2, <2>1, <2>2, <2>3
<1>7. ASSUME NEW c \in calls, NEW r \in Row, NEW k, c.op # "get",
             calls' = Answered(c, Outdated(calls) \cup {c}, "answered", r, k)
      PROVE  g = h
  <2> DEFINE cs == Outdated(calls) \cup {c}
             at == "answered"
  <2>1. g \in Answered(c, cs, at, r, k) /\ h \in Answered(c, cs, at, r, k) /\ c \in Call
        /\ at \in {"answered", "refused"}
    BY <1>1, <1>7
  <2>2. cs \ {c} \subseteq Outdated(calls)
    OBVIOUS
  <2> HIDE DEF cs, at
  <2>3. g \in cs \ {c}
    BY <1>7, <2>1, AnsweredGets
  <2>4. h \in cs \ {c}
    BY <1>7, <2>1, AnsweredGets
  <2> QED
    BY <1>20, <2>2, <2>3, <2>4
<1>8. ASSUME NEW c \in calls, NEW r \in Row, Saved(c, r), c.op # "get" PROVE g = h
  <2> DEFINE k == r # NoRow
  <2>1. calls' = Answered(c, Outdated(calls) \cup {c}, "answered", r, k)
    BY <1>8 DEF Saved
  <2> HIDE DEF k
  <2> QED
    BY <1>7, <1>8, <2>1
<1>9. ASSUME NEW c \in calls, Loaded(c), c.op # "get" PROVE g = h
  <2> DEFINE e == [c EXCEPT !.at = "read", !.row = row]
  <2>1. e.op = c.op /\ calls' = (calls \ {c}) \cup {e}
    BY <1>1, <1>9 DEF Loaded, Call
  <2> HIDE DEF e
  <2> QED
    BY <1>5, <1>9, <2>1
<1>21. NoRow \in Row
  BY DEF NoRow, Row, Statuses, Drafts
<1>10. ASSUME NEW c \in calls, Refuse(c) PROVE g = h
  <2> DEFINE f == FALSE
  <2>1. calls' = Answered(c, calls, "refused", NoRow, f)
    BY <1>10 DEF Refuse
  <2> HIDE DEF f
  <2> QED
    BY <1>6, <1>21, <2>1
<1>11. ASSUME NEW c \in calls, ServerStep(c) \/ Lose(c) PROVE g = h
  <2>1. row \in Row /\ row' \in Row /\ NoRow \in Row /\ c \in Call
    BY <1>1, <1>21, NextTypes DEF TypeInv
  <2>2. [status |-> "LOCKED", draft |-> c.draft] \in Row
    BY <2>1 DEF Row, Statuses, Call
  <2> DEFINE t == TRUE
             f == FALSE
  <2>3. CASE ServeGet(c)
    <3>1. calls' = Answered(c, calls, "answered", row', t)
      BY <2>3 DEF ServeGet
    <3> HIDE DEF t
    <3> QED
      BY <1>6, <2>1, <3>1
  <2>4. CASE Lose(c)
    <3>1. calls' = Answered(c, calls, "refused", NoRow, f)
      BY <2>4 DEF Lose
    <3> HIDE DEF f
    <3> QED
      BY <1>6, <2>1, <3>1
  <2>5. CASE RefuseGet(c)
    BY <1>10, <2>5 DEF RefuseGet
  <2>6. CASE LoadSave(c) \/ LoadSubmit(c)
    BY <1>9, <1>10, <2>6 DEF LoadSave, LoadSubmit, Reaches, SubmitOps
  <2>7. CASE LoadLock(c)
    <3>1. Loaded(c) \/ calls' = Answered(c, calls, "answered", row, t)
      BY <2>7 DEF LoadLock
    <3>2. c.op # "get"
      BY <2>7 DEF LoadLock
    <3> HIDE DEF t
    <3> QED
      BY <1>6, <1>9, <2>1, <3>1, <3>2
  <2>8. CASE StoreSave(c) \/ StoreLock(c) \/ StoreSubmit(c)
    BY <1>8, <2>1, <2>2, <2>8 DEF StoreSave, StoreLock, StoreSubmit, SubmitOps
  <2> QED
    BY <1>11, <2>3, <2>4, <2>5, <2>6, <2>7, <2>8 DEF ServerStep
<1>12. ASSUME NEW cs \in SUBSET calls, g \in Refetch(cs), h \in Refetch(cs) PROVE g = h
  <2>1. CASE page.data = NoRow /\ Mine("get") # {}
    BY <1>5, <1>12, <2>1 DEF Refetch
  <2>2. CASE ~ (page.data = NoRow /\ Mine("get") # {})
    <3>1. g \notin cs \ Mine("get") /\ h \notin cs \ Mine("get")
      BY <1>12 DEF Mine
    <3> QED
      BY <1>12, <2>2, <3>1 DEF Refetch
  <2> QED
    BY <2>1, <2>2
<1>13. ASSUME NEW cs \in SUBSET Call, calls' = UNION {Orphan(c) : c \in cs}
       PROVE  g \in cs /\ h \in cs
  <2>1. g \in UNION {Orphan(c) : c \in cs} /\ h \in UNION {Orphan(c) : c \in cs}
    BY <1>13
  <2> QED
    BY <1>1, <2>1, LeftCalls
<1>14. ASSUME NEW c \in calls, AnswerStep(c) PROVE g = h
  <2>1. CASE LockAnswerLeaves(c)
    <3>1. calls \ {c} \in SUBSET Call /\ calls' = UNION {Orphan(d) : d \in calls \ {c}}
      BY <1>1, <2>1 DEF LockAnswerLeaves
    <3> HIDE DEF LockAnswerLeaves
    <3> QED
      BY <1>5, <1>13, <3>1
  <2>2. CASE SubmitAnswer(c) /\ Open
    <3> DEFINE cs == Refetch(calls \ {c})
    <3>1. calls' = UNION {Orphan(d) : d \in cs}
      BY <2>2 DEF SubmitAnswer, Away
    <3>2. cs \in SUBSET Call
      BY <1>1, SentCalls DEF Refetch, New
    <3>3. g \in cs /\ h \in cs
      <4> HIDE DEF cs
      <4> QED
        BY <1>13, <3>1, <3>2
    <3> QED
      BY <1>12, <3>3
  <2>3. CASE SubmitAnswerHeld(c)
    <3>1. LockCall(page.rows).op # "get"
      BY <1>3, <1>4
    <3>2. g \in Refetch(calls \ {c}) /\ h \in Refetch(calls \ {c})
      BY <2>3, <3>1, HeldSubmit
    <3> QED
      BY <1>12, <3>2
  <2>4. CASE ~ LockAnswerLeaves(c) /\ ~ (SubmitAnswer(c) /\ Open) /\ ~ SubmitAnswerHeld(c)
    BY <1>5, <1>14, <2>4 DEF AnswerStep, GetAnswer, GetRefused, SaveDone, LockAnswer, LockRefused,
         SubmitAnswer, SubmitRefused, Ends
  <2> QED
    BY <2>1, <2>2, <2>3, <2>4
<1>15. ASSUME calls' = calls \cup {GetCall}, Mine("get") = {} PROVE g = h
  <2>1. g = GetCall /\ h = GetCall
    BY <1>15 DEF Mine
  <2> QED
    BY <2>1
<1>16. CASE ClientStep
  <2>1. CASE Deliver
    BY <1>12, <2>1 DEF Deliver
  <2>2. CASE Poll
    BY <1>15, <2>2 DEF Poll
  <2>3. CASE Subscribe \/ Render \/ Timer \/ AutoSubmit
    <3>1. g \in calls /\ h \in calls
      BY <1>1, <1>3, <1>4, <2>3 DEF Subscribe, Render, Timer, Flush, AutoSubmit, SubmitOps
    <3> QED
      BY <1>5, <3>1
  <2> QED
    BY <1>16, <2>1, <2>2, <2>3 DEF ClientStep
<1>17. CASE StudentStep
  <2>1. CASE Navigate
    BY <1>1, <1>5, <1>13, <2>1 DEF Navigate, Away
  <2>2. CASE Close
    BY <2>2, ClosedCalls
  <2>3. CASE OpenPage
    <3>1. Mine("get") = {}
      BY <2>3 DEF OpenPage, WhereInv, Open, Mine
    <3> QED
      BY <1>15, <2>3, <3>1 DEF OpenPage
  <2>4. CASE Enter
    BY <1>5, <1>15, <2>4 DEF Enter
  <2>5. CASE (\E c \in scenario.contents : Type(c)) \/ ResetForm \/ LockNow \/ NavigateBlocked \/ ConfirmSubmit
    <3>1. g \in calls /\ h \in calls
      BY <1>1, <1>3, <1>4, <2>5 DEF Type, ResetForm, LockNow, Locking, NavigateBlocked, ConfirmSubmit, SubmitOps
    <3> QED
      BY <1>5, <3>1
  <2> QED
    BY <1>17, <2>1, <2>2, <2>3, <2>4, <2>5 DEF StudentStep
<1>18. CASE Reopen
  BY <1>18, <1>20 DEF Reopen
<1>19. CASE Tick \/ DropHub \/ UNCHANGED vars
  BY <1>5, <1>19 DEF Tick, DropHub, vars
<1> QED
  BY <1>11, <1>14, <1>16, <1>17, <1>18, <1>19 DEF Next

LEMMA NextWhere == TypeInv /\ WhereInv /\ [Next]_vars => WhereInv'
<1> SUFFICES ASSUME TypeInv, WhereInv, [Next]_vars
             PROVE  /\ \A c \in calls' : c.to = "page" =>
                           page'.view = "open" \/ (page'.view = "away" /\ c.op = "get")
                    /\ page'.view # "open" => ~ news' /\ ~ page'.timer
                    /\ \A g, h \in Mine("get")' : g = h
  BY DEF WhereInv, Open
<1>1. calls \in SUBSET Call /\ page \in Page /\ calls \cup {GetCall} \in SUBSET Call
  BY SentCalls DEF TypeInv, New
<1>2. \A g, h \in Mine("get")' : g = h
  BY NextOneGet DEF Mine
<1>3. page'.view # "open" => ~ news' /\ ~ page'.timer
  BY NotOpenMoves
<1>4. ASSUME NEW c \in calls', c.to = "page", page'.view # "open"
      PROVE  page'.view = "away" /\ c.op = "get"
  <2>1. CASE Close
    BY <1>4, <2>1, ClosedCalls
  <2>2. ASSUME NEW cs \in SUBSET (calls \cup {GetCall}), calls' = UNION {Orphan(b) : b \in cs} PROVE c.op = "get"
    <3>1. cs \in SUBSET Call /\ c \in UNION {Orphan(b) : b \in cs}
      BY <1>1, <2>2
    <3> QED
      BY <1>1, <1>4, <3>1, LeftCalls
  <2>3. ASSUME page'.view = page.view, NEW b \in calls, b.to = "page", b.op = c.op
        PROVE  page'.view = "away" /\ c.op = "get"
    BY <1>4, <2>3 DEF WhereInv, Open
  <2> QED
    BY <1>4, <2>1, <2>2, <2>3, NotOpenMoves
<1> QED
  BY <1>2, <1>3, <1>4

----------------------------------------------------------------------------
(***************************************************************************)
(* What the page does not know is on its way to it: the attempt changed    *)
(* unheard, or an event is to be delivered, or the answer of a submit.     *)
(***************************************************************************)
LateCall(c) == c.op \in SubmitOps /\ c.to # "nobody" /\ c.at = "answered"

Late == \E c \in calls : LateCall(c)

Excused == behind \/ news \/ Late

\* The page is to learn that this is not the status; a locked attempt is
\* polled.
Wrong(status) ==
  /\ status # "LOCKED"
  /\ status = "NONE" \/ status # row.status

KnowsInv ==
  /\ \A g \in Mine("get") : g.at = "answered" /\ Wrong(g.row.status) => Excused
  /\ Wrong(page.data.status) =>
        \/ Excused \/ Mine("get") # {} \/ page.view = "closed"
        \/ page.view = "away" /\ page.invalid
        \/ page.overruled /\ page.data.status = "SUBMITTED"

\* The answer of a submit waits for the page, or the step says that it is lost.
LEMMA LateStays ==
  ASSUME TypeInv, [Next]_vars, NEW c \in calls, LateCall(c), ~ SubmitAnswer(c), ~ SubmitAnswerHeld(c),
         ~ Lose(c), ~ Close
  PROVE  \E d \in calls' : LateCall(d)
<1>1. calls \in SUBSET Call /\ page \in Page /\ c \in Call
  BY DEF TypeInv
<1>2. ASSUME NEW b \in calls, b # c, NEW cs, NEW at, NEW r, NEW k, NEW e \in cs, e # b, LateCall(e),
             calls' = Answered(b, cs, at, r, k)
      PROVE  \E d \in calls' : LateCall(d)
  BY <1>2 DEF Answered
<1>3. ASSUME NEW cs, Outdated(calls) \subseteq cs
      PROVE  \E d \in cs : LateCall(d) /\ d.at = "answered"
  <2>1. [c EXCEPT !.current = FALSE] \in cs
    BY <1>3 DEF Outdated
  <2>2. LET o == [c EXCEPT !.current = FALSE] IN o.op = c.op /\ o.to = c.to /\ o.at = c.at
    BY <1>1 DEF Call
  <2> QED
    BY <2>1, <2>2 DEF LateCall
<1>4. ASSUME NEW b \in calls, NEW r, Saved(b, r), b.at = "read" PROVE \E d \in calls' : LateCall(d)
  <2> DEFINE k == r # NoRow
             cs == Outdated(calls) \cup {b}
  <2>1. calls' = Answered(b, cs, "answered", r, k)
    BY <1>4 DEF Saved
  <2>2. PICK d \in cs : LateCall(d) /\ d.at = "answered"
    BY <1>3
  <2>3. d # b /\ b # c
    BY <1>4, <2>2 DEF LateCall
  <2> HIDE DEF k, cs
  <2> QED
    BY <1>2, <2>1, <2>2, <2>3
<1>5. ASSUME NEW b \in calls, ServerStep(b) \/ Lose(b) PROVE \E d \in calls' : LateCall(d)
  <2>1. b # c
    BY <1>5 DEF ServerStep, LateCall, ServeGet, RefuseGet, LoadSave, StoreSave, LoadLock, StoreLock,
         LoadSubmit, StoreSubmit, Reaches
  <2>2. CASE StoreSave(b) \/ StoreLock(b) \/ StoreSubmit(b)
    BY <1>4, <2>2 DEF StoreSave, StoreLock, StoreSubmit
  <2>3. CASE ~ (StoreSave(b) \/ StoreLock(b) \/ StoreSubmit(b))
    <3>1. c \in calls'
      BY <1>5, <2>1, <2>3 DEF ServerStep, Lose, ServeGet, RefuseGet, LoadSave, LoadLock, LoadSubmit,
           Refuse, Loaded, Answered
    <3> QED
      BY <3>1
  <2> QED
    BY <2>2, <2>3
<1>6. ASSUME NEW cs \in SUBSET Call, c \in cs PROVE \E d \in UNION {Orphan(b) : b \in cs} : LateCall(d)
  <2> DEFINE e == [c EXCEPT !.to = "cache"]
  <2>1. e.op = c.op /\ e.to = "cache" /\ e.at = c.at
    BY <1>1 DEF Call
  <2>2. LateCall(e)
    BY <2>1 DEF LateCall
  <2>3. c \in Orphan(c) \/ e \in Orphan(c)
    BY DEF Orphan, LateCall
  <2> HIDE DEF e
  <2> QED
    BY <1>6, <2>2, <2>3
<1>7. ASSUME NEW cs, c \in cs PROVE c \in Refetch(cs)
  BY <1>7 DEF Refetch, Mine, LateCall, SubmitOps
<1>8. \A cs \in SUBSET Call : Refetch(cs) \in SUBSET Call
  BY SentCalls DEF Refetch, New
<1>9. ASSUME NEW b \in calls, AnswerStep(b) PROVE \E d \in calls' : LateCall(d)
  <2>1. b # c
    BY <1>9 DEF AnswerStep, LateCall, SubmitOps, GetAnswer, GetRefused, SaveDone, LockAnswer,
         LockAnswerLeaves, LockRefused, SubmitRefused
  <2>2. CASE LockAnswerLeaves(b)
    <3>1. calls \ {b} \in SUBSET Call /\ calls' = UNION {Orphan(d) : d \in calls \ {b}}
      BY <1>1, <2>2 DEF LockAnswerLeaves
    <3> HIDE DEF LockAnswerLeaves
    <3> QED
      BY <1>6, <2>1, <3>1
  <2>3. CASE SubmitAnswer(b) /\ Open
    <3> DEFINE cs == Refetch(calls \ {b})
    <3>1. calls' = UNION {Orphan(d) : d \in cs}
      BY <2>3 DEF SubmitAnswer, Away
    <3>2. cs \in SUBSET Call /\ c \in cs
      BY <1>1, <1>7, <1>8, <2>1
    <3> HIDE DEF cs
    <3> QED
      BY <1>6, <3>1, <3>2
  <2>4. CASE SubmitAnswerHeld(b)
    BY <2>1, <2>4, HeldSubmit DEF LateCall, SubmitOps
  <2>5. CASE ~ LockAnswerLeaves(b) /\ ~ (SubmitAnswer(b) /\ Open) /\ ~ SubmitAnswerHeld(b)
    BY <1>9, <2>1, <2>5 DEF AnswerStep, GetAnswer, GetRefused, SaveDone, LockAnswer, LockRefused,
         SubmitAnswer, SubmitRefused, Ends
  <2> QED
    BY <2>2, <2>3, <2>4, <2>5
<1>10. CASE ClientStep
  BY <1>7, <1>10 DEF ClientStep, Deliver, Poll, Subscribe, Render, Timer, Flush, AutoSubmit
<1>11. CASE StudentStep
  <2>1. CASE Navigate
    BY <1>1, <1>6, <2>1 DEF Navigate, Away
  <2>2. CASE ~ Navigate
    BY <1>11, <2>2 DEF StudentStep, Type, ResetForm, LockNow, Locking, NavigateBlocked, OpenPage,
         Enter, ConfirmSubmit
  <2> QED
    BY <2>1, <2>2
<1>12. CASE Reopen
  BY <1>3, <1>12 DEF Reopen
<1>13. CASE Tick \/ DropHub \/ UNCHANGED vars
  BY <1>13 DEF Tick, DropHub, vars
<1> QED
  BY <1>5, <1>9, <1>10, <1>11, <1>12, <1>13 DEF Next

\* What the page was told stays known until the page asks again, or is left.
LEMMA TellStays ==
  ASSUME TypeInv, [Next]_vars, behind \/ news
  PROVE  \/ behind' \/ news' \/ Deliver \/ Close
         \/ \E c \in calls : SubmitAnswer(c) \/ (ServeGet(c) /\ c.to = "page")
<1> SUFFICES ASSUME ~ Deliver, ~ Close,
                    \A c \in calls : ~ SubmitAnswer(c) /\ ~ (ServeGet(c) /\ c.to = "page")
             PROVE  behind' \/ news'
  OBVIOUS
<1>1. behind \in BOOLEAN /\ news \in BOOLEAN /\ behind' \in BOOLEAN /\ news' \in BOOLEAN
  BY NextTypes DEF TypeInv
<1>2. ASSUME NEW c \in calls, ServerStep(c) \/ Lose(c) PROVE behind' \/ news'
  BY <1>2 DEF ServerStep, Lose, ServeGet, RefuseGet, LoadSave, StoreSave, LoadLock, StoreLock,
       LoadSubmit, StoreSubmit, Refuse, Loaded, Publish
<1>3. ASSUME NEW c \in calls, AnswerStep(c) PROVE behind' \/ news'
  BY <1>3 DEF AnswerStep, GetAnswer, GetRefused, SaveDone, LockAnswer, LockAnswerLeaves, LockRefused,
       SubmitAnswerHeld, SubmitRefused
<1>4. ASSUME ClientStep \/ StudentStep PROVE behind' \/ news'
  <2>1. ~ Navigate => behind' = behind /\ news' = news
    BY <1>4 DEF ClientStep, Poll, Subscribe, Render, Timer, AutoSubmit,
         StudentStep, Type, ResetForm, LockNow, NavigateBlocked, OpenPage, Enter, ConfirmSubmit
  <2>2. Navigate => behind' = (behind \/ news \/ FALSE)
    BY DEF Navigate, Away
  <2> QED
    BY <1>1, <2>1, <2>2
<1>5. ASSUME Reopen \/ Tick \/ DropHub \/ UNCHANGED vars PROVE behind' \/ news'
  BY <1>1, <1>5 DEF Reopen, Tick, DropHub, vars, Publish
<1> QED
  BY <1>2, <1>3, <1>4, <1>5 DEF Next

\* An excuse lasts until the page asks again, or is closed.
LEMMA ExcuseStays ==
  ASSUME TypeInv, [Next]_vars, Excused
  PROVE  \/ Excused' \/ Deliver \/ Close
         \/ \E c \in calls : SubmitAnswer(c) \/ SubmitAnswerHeld(c) \/ (ServeGet(c) /\ c.to = "page")
<1>1. ASSUME NEW c \in calls, LateCall(c)
      PROVE  Excused' \/ Close \/ \E b \in calls : SubmitAnswer(b) \/ SubmitAnswerHeld(b)
  <2>1. Lose(c) => behind'
    BY DEF Lose
  <2> QED
    BY <1>1, <2>1, LateStays DEF Excused, Late
<1>2. behind' \/ news' => Excused'
  BY DEF Excused
<1> QED
  BY <1>1, <1>2, TellStays DEF Excused, Late

\* A change of the status is an event, or the answer of a submit, or unheard;
\* only the attempt that a get creates is not told.
LEMMA StatusMoves ==
  ASSUME TypeInv, [Next]_vars, row.status # "NONE", row'.status # row.status
  PROVE  Excused'
<1>1. calls \in SUBSET Call
  BY DEF TypeInv
<1>2. Reopen => behind' \/ news'
  BY DEF Reopen, Publish
<1>3. ASSUME NEW c \in calls, ServerStep(c) PROVE Excused'
  <2>1. CASE StoreSave(c) \/ StoreLock(c)
    BY <2>1 DEF StoreSave, StoreLock, Publish, Excused
  <2>2. CASE StoreSubmit(c)
    <3> DEFINE k == NoRow # NoRow
               cs == Outdated(calls) \cup {c}
    <3>1. c.op \in SubmitOps /\ c \in Call
      BY <1>1, <2>2 DEF StoreSubmit
    <3>2. calls' = Answered(c, cs, "answered", NoRow, k)
      BY <2>2 DEF StoreSubmit, Saved
    <3>3. CASE c.to = "nobody"
      BY <2>2, <3>3 DEF StoreSubmit, Excused
    <3>4. CASE c.to # "nobody"
      <4>1. Reply(c, "answered", NoRow, k) \in calls'
        BY <3>2, <3>4 DEF Answered, Reply
      <4>2. LateCall(Reply(c, "answered", NoRow, k))
        BY <3>1, <3>4 DEF Reply, LateCall, Call
      <4> QED
        BY <4>1, <4>2 DEF Excused, Late
    <3> QED
      BY <3>3, <3>4
  <2>3. CASE ~ (StoreSave(c) \/ StoreLock(c) \/ StoreSubmit(c))
    <3>1. row' = row
      BY <1>3, <2>3 DEF ServerStep, ServeGet, RefuseGet, LoadSave, LoadLock, LoadSubmit, Refuse, Loaded, server
    <3> QED
      BY <3>1
  <2> QED
    BY <2>1, <2>2, <2>3
<1>4. (\E c \in calls : ServerStep(c)) \/ Reopen
  <2>1. ASSUME NEW c \in calls, AnswerStep(c) \/ Lose(c) PROVE row' = row
    BY <2>1 DEF AnswerStep, GetAnswer, GetRefused, SaveDone, LockAnswer, LockAnswerLeaves, LockRefused,
         SubmitAnswer, SubmitAnswerHeld, SubmitRefused, Away, Lose, server
  <2>2. ASSUME ClientStep PROVE row' = row
    BY <2>2 DEF ClientStep, Deliver, Poll, Subscribe, Render, Timer, AutoSubmit, server
  <2>3. ASSUME StudentStep PROVE row' = row
    BY <2>3 DEF StudentStep, Type, ResetForm, LockNow, NavigateBlocked, Navigate, Away, Close, OpenPage,
         Enter, ConfirmSubmit, server
  <2>4. ASSUME Tick \/ DropHub \/ UNCHANGED vars PROVE row' = row
    BY <2>4 DEF Tick, DropHub, vars, server
  <2> QED
    BY <2>1, <2>2, <2>3, <2>4 DEF Next
<1> QED
  BY <1>2, <1>3, <1>4 DEF Excused

\* A page that is not open stays so unless it is opened; an answer is all that
\* makes what it has cached valid again.
LEMMA ClosedMoves ==
  ASSUME TypeInv, WhereInv, [Next]_vars, ~ Open
  PROVE  \/ OpenPage \/ Enter
         \/ page'.view = page.view /\ (page.invalid => page'.invalid)
         \/ \E c \in calls : GetAnswer(c) \/ LockAnswer(c)
<1> DEFINE Stays == page'.view = page.view /\ (page.invalid => page'.invalid)
<1>1. page \in Page /\ ~ news /\ ~ page.timer
  BY DEF TypeInv, WhereInv
<1>2. ASSUME page' = page \/ page' = [page EXCEPT !.current = FALSE] \/ page' = [page EXCEPT !.invalid = TRUE]
             \/ page' = [page EXCEPT !.fresh = Open]
      PROVE  Stays
  <2>1. page'.view = page.view
    BY <1>1, <1>2 DEF Page
  <2>2. page.invalid => page'.invalid
    BY <1>1, <1>2 DEF Page
  <2> QED
    BY <2>1, <2>2
<1>3. ASSUME NEW c \in calls, ServerStep(c) \/ Lose(c) PROVE Stays
  <2>1. page' = page \/ page' = [page EXCEPT !.current = FALSE]
    BY <1>3 DEF ServerStep, Lose, ServeGet, RefuseGet, LoadSave, StoreSave, LoadLock, StoreLock,
         LoadSubmit, StoreSubmit, Refuse, Loaded, Saved
  <2> QED
    BY <1>2, <2>1
<1>4. ASSUME NEW c \in calls, AnswerStep(c), ~ GetAnswer(c), ~ LockAnswer(c) PROVE Stays
  <2>1. c.to = "page" => c.op = "get"
    BY DEF WhereInv
  <2>2. page' = page \/ page' = [page EXCEPT !.invalid = TRUE] \/ page' = [page EXCEPT !.fresh = Open]
    BY <1>4, <2>1 DEF AnswerStep, GetRefused, SaveDone, LockAnswerLeaves, LockRefused, SubmitAnswer,
         SubmitAnswerHeld, SubmitRefused
  <2> QED
    BY <1>2, <2>2
<1>5. CASE Reopen \/ Tick \/ DropHub \/ UNCHANGED vars
  BY <1>2, <1>5 DEF Reopen, Tick, DropHub, vars
<1>6. CASE ClientStep \/ StudentStep
  BY <1>1, <1>6 DEF ClientStep, Deliver, Poll, Subscribe, Render, Timer, AutoSubmit, StudentStep, Type,
       ResetForm, LockNow, NavigateBlocked, Navigate, MayNavigate, Close, ConfirmSubmit
<1> QED
  BY <1>3, <1>4, <1>5, <1>6 DEF Next

LEMMA NextKnows == TypeInv /\ RowsInv /\ WhereInv /\ KnowsInv /\ [Next]_vars => KnowsInv'
<1> DEFINE Wrong1(status) == /\ status # "LOCKED"
                             /\ status = "NONE" \/ status # row'.status
           Asks == \E d \in calls' : d.op = "get" /\ d.to = "page"
           Goal == \/ Excused' \/ Asks \/ page'.view = "closed"
                   \/ page'.view = "away" /\ page'.invalid
                   \/ page'.overruled /\ page'.data.status = "SUBMITTED"
<1> SUFFICES ASSUME TypeInv, RowsInv, WhereInv, KnowsInv, [Next]_vars
             PROVE  /\ \A g \in calls' : g.op = "get" /\ g.to = "page" /\ g.at = "answered"
                                         /\ Wrong1(g.row.status) => Excused'
                    /\ Wrong1(page'.data.status) => Goal
  BY DEF KnowsInv, Wrong, Mine
<1>1. calls \in SUBSET Call /\ page \in Page
  BY DEF TypeInv
<1>2. ASSUME NEW b, ~ Wrong(b), b # "NONE", Wrong1(b) PROVE Excused'
  <2>1. b = row.status /\ row.status # "NONE" /\ row'.status # row.status
    BY <1>2 DEF Wrong
  <2> QED
    BY <2>1, StatusMoves
<1>3. ASSUME NEW g \in calls', g.op = "get", g.to = "page", g.at = "answered", Wrong1(g.row.status)
      PROVE  Excused'
  <2>1. PICK b \in calls : Kept(b, g) \/ Handled(b, g)
    BY <1>3, CallsMove DEF New
  <2>2. ~ Handled(b, g)
    BY <1>3, <2>1 DEF Handled
  <2>3. b \in Mine("get") /\ b.at = "answered" /\ b.row = g.row /\ b.row.status # "NONE"
    BY <1>3, <2>1, <2>2 DEF Kept, Mine, RowsInv
  <2>4. CASE ~ Wrong(b.row.status)
    BY <1>2, <1>3, <2>3, <2>4
  <2>5. CASE Wrong(b.row.status)
    <3>1. Excused
      BY <2>3, <2>5 DEF KnowsInv
    <3>2. ASSUME NEW c \in calls, ServeGet(c), c.to = "page" PROVE FALSE
      <4>1. c \in Mine("get") /\ c.at = "sent"
        BY <3>2 DEF ServeGet, Reaches, Mine
      <4> QED
        BY <2>3, <4>1 DEF WhereInv
    <3>3. ASSUME NEW cs \in SUBSET calls, g \in Refetch(cs) PROVE TooEarly
      <4>1. g # GetCall
        BY <1>3, SentCalls DEF New
      <4>2. page.data = NoRow
        BY <1>3, <3>3, <4>1 DEF Refetch, Mine
      <4> QED
        BY <2>3, <4>2 DEF TooEarly
    <3>4. Deliver => behind'
      BY <3>3 DEF Deliver
    <3>5. ASSUME NEW c \in calls, SubmitAnswer(c) PROVE behind'
      <4>1. CASE Open
        <5> DEFINE cs == Refetch(calls \ {c})
        <5>1. calls' = UNION {Orphan(d) : d \in cs} /\ behind' = (behind \/ news \/ TooEarly)
          BY <3>5, <4>1 DEF SubmitAnswer, Away
        <5>2. cs \in SUBSET Call
          BY <1>1, SentCalls DEF Refetch, New
        <5>3. g \in cs
          <6> HIDE DEF cs
          <6>1. g \in UNION {Orphan(d) : d \in cs}
            BY <5>1
          <6> QED
            BY <1>1, <1>3, <5>2, <6>1, LeftCalls
        <5> QED
          BY <3>3, <5>1, <5>3
      <4>2. CASE ~ Open
        BY <2>3, <3>5, <4>2 DEF SubmitAnswer
      <4> QED
        BY <4>1, <4>2
    <3>6. ~ Close
      BY <1>3, ClosedCalls
    <3>7. ASSUME NEW c \in calls, SubmitAnswerHeld(c) PROVE behind'
      <4>1. page.rows \in Drafts
        BY <1>1 DEF Page, Drafts
      <4>2. g # LockCall(page.rows)
        BY <1>3, <4>1, SentCalls
      <4>3. g \in Refetch(calls \ {c})
        BY <3>7, <4>2, HeldSubmit
      <4> QED
        BY <3>3, <3>7, <4>3, HeldSubmit
    <3> QED
      BY <3>1, <3>2, <3>4, <3>5, <3>6, <3>7, ExcuseStays DEF Excused
  <2> QED
    BY <2>4, <2>5
<1>4. ASSUME Wrong1(page'.data.status) PROVE Goal
  <2>1. ASSUME NEW c \in calls, GetAnswer(c) PROVE Goal
    <3>1. c \in Mine("get") /\ c.at = "answered" /\ page'.data = c.row /\ row' = row
      BY <1>1, <2>1, GivenOpens DEF GetAnswer, Mine, server
    <3>2. Excused
      BY <1>4, <3>1 DEF KnowsInv, Wrong
    <3>3. Late => Late'
      BY <2>1 DEF Late, LateCall, GetAnswer, Ends, SubmitOps
    <3> QED
      BY <2>1, <3>2, <3>3 DEF GetAnswer, Excused
  <2>2. CASE Close
    <3>1. page'.view = "closed"
      <4> DEFINE q == Unmounted(page, "closed")
      <4>1. q \in Page /\ q.view = "closed" /\ page' = [q EXCEPT !.data = NoRow]
        BY <1>1, <2>2, PageOperators, UnmountedFields DEF Close
      <4> HIDE DEF q
      <4> QED
        BY <4>1 DEF Page
    <3> QED
      BY <3>1
  <2>3. ASSUME NEW c \in calls, c.op = "lock", c.at = "answered", LockAnswer(c) \/ LockAnswerLeaves(c)
        PROVE  Goal
    <3>1. row' = row /\ page'.data = c.row
      BY <2>3, LockGives
    <3>2. c.row.status \in {"LOCKED", "SUBMITTED"}
      BY <2>3 DEF RowsInv
    <3>3. c.row.status = "SUBMITTED" /\ row.status # "SUBMITTED"
      BY <1>4, <3>1, <3>2
    <3> QED
      BY <2>3, <3>1, <3>3, LockGives
  <2>4. ASSUME \A c \in calls : /\ ~ GetAnswer(c) /\ ~ LockAnswer(c)
                               /\ ~ (LockAnswerLeaves(c) /\ c.at = "answered"),
               ~ Close
        PROVE  Goal
    <3>1. page'.data = page.data
      BY <2>4, DataMoves
    <3>2. CASE page.overruled /\ page.data.status = "SUBMITTED"
      BY <2>4, <3>1, <3>2, OverruledStays
    <3>3. CASE ~ Wrong(page.data.status)
      <4>1. page.data.status # "NONE"
        BY <3>3 DEF Wrong
      <4> QED
        BY <1>2, <1>4, <3>1, <3>3, <4>1
    <3>4. ASSUME NEW g \in Mine("get") PROVE Goal
      <4>1. g \in calls /\ g.op = "get" /\ g.to = "page"
        BY DEF Mine
      <4>2. CASE ~ AnswerStep(g)
        BY <2>4, <4>1, <4>2, AwaitedStays
      <4>3. CASE AnswerStep(g)
        BY <2>4, <4>1, <4>3 DEF AnswerStep, GetRefused, SaveDone, LockAnswer, LockAnswerLeaves, LockRefused,
             SubmitAnswer, SubmitAnswerHeld, SubmitRefused, SubmitOps, Excused
      <4> QED
        BY <4>2, <4>3
    <3>5. ASSUME Excused PROVE Goal
      <4>1. ASSUME NEW c \in calls, ServeGet(c), c.to = "page" PROVE Goal
        <5>1. c \in Mine("get")
          BY <4>1 DEF ServeGet, Reaches, Mine
        <5> QED
          BY <3>4, <5>1
      <4>2. ASSUME NEW cs, calls' = Refetch(cs), cs \subseteq calls, cs = calls PROVE Asks
        BY <4>2, SentCalls DEF Refetch, Mine
      <4>3. CASE Deliver
        BY <4>2, <4>3 DEF Deliver
      <4>4. ASSUME NEW c \in calls, SubmitAnswer(c) PROVE Goal
        <5>1. CASE Open
          <6>1. PICK d \in Refetch(calls \ {c}) : d.op = "get" /\ d.to = "page"
            BY <4>4, SentCalls DEF Refetch, Mine, SubmitAnswer, SubmitOps
          <6>2. d \in UNION {Orphan(e) : e \in Refetch(calls \ {c})}
            BY <6>1 DEF Orphan
          <6>3. calls' = UNION {Orphan(e) : e \in Refetch(calls \ {c})}
            BY <4>4, <5>1 DEF SubmitAnswer, Away
          <6> QED
            BY <6>1, <6>2, <6>3
        <5>2. CASE ~ Open
          <6>1. page'.view = page.view /\ page'.invalid = TRUE
            BY <1>1, <4>4, <5>2 DEF SubmitAnswer, Page
          <6> QED
            BY <1>1, <5>2, <6>1 DEF Open, Page
        <5> QED
          BY <5>1, <5>2
      <4>5. ASSUME NEW c \in calls, SubmitAnswerHeld(c) PROVE Asks
        <5>1. c.op # "get" /\ Refetch(calls \ {c}) \subseteq calls'
          BY <4>5, HeldSubmit DEF SubmitOps
        <5>2. \E d \in Refetch(calls \ {c}) : d.op = "get" /\ d.to = "page"
          BY <5>1, SentCalls DEF Refetch, Mine
        <5> QED
          BY <5>1, <5>2
      <4> QED
        BY <2>4, <3>5, <4>1, <4>3, <4>4, <4>5, ExcuseStays
    <3>6. CASE page.view = "closed" \/ (page.view = "away" /\ page.invalid)
      <4>1. ~ Open
        BY <3>6 DEF Open
      <4>2. CASE OpenPage
        BY <4>2, SentCalls DEF OpenPage
      <4>3. CASE Enter
        <5>1. CASE calls' = calls \cup {GetCall}
          BY <5>1, SentCalls
        <5>2. CASE Mine("get") # {}
          BY <3>4, <5>2
        <5> QED
          BY <3>6, <4>3, <5>1, <5>2 DEF Enter
      <4> QED
        BY <2>4, <3>6, <4>1, <4>2, <4>3, ClosedMoves
    <3> QED
      BY <3>2, <3>3, <3>4, <3>5, <3>6 DEF KnowsInv
  <2>5. ASSUME NEW c \in calls, LockAnswer(c) PROVE c.op = "lock" /\ c.at = "answered"
    BY <2>5 DEF LockAnswer
  <2>6. ASSUME NEW c \in calls, LockAnswerLeaves(c) PROVE c.op = "lock"
    BY <2>6 DEF LockAnswerLeaves
  <2> QED
    BY <2>1, <2>2, <2>3, <2>4, <2>5, <2>6
<1> QED
  BY <1>3, <1>4

----------------------------------------------------------------------------
(***************************************************************************)
(* An open page whose rows are not the draft of its active attempt: it is  *)
(* to be given an answer that is not the last one, its autosave effect is  *)
(* due, or a save of what it shows is queued or under way.                 *)
(***************************************************************************)
Told == ~ page.current /\ (news \/ behind \/ Mine("get") # {})

Queued == page.queued = page.rows /\ (page.timer \/ Mine("save") # {})

Saving == \E s \in Mine("save") : s.at \in {"sent", "read"} /\ s.draft = page.rows

Unsaved ==
  /\ Open /\ "save" \notin scenario.fails
  /\ page.data.status = "ACTIVE" /\ ~ page.optimistic
  /\ row.status = "ACTIVE" /\ row.draft # page.rows

DraftInv == Unsaved => Told \/ page.dirty \/ Queued \/ Saving

\* The row of an attempt changes by what is told, or it is submitted.
LEMMA RowMoves ==
  ASSUME TypeInv, RowsInv, [Next]_vars, row.status # "NONE"
  PROVE  \/ row' = row \/ row'.status = "SUBMITTED"
         \/ ~ page'.current /\ (news' \/ behind')
<1>1. page \in Page /\ row \in Row
  BY DEF TypeInv
<1>2. Reopen => ~ page'.current /\ (news' \/ behind')
  <2>1. Reopen => ~ page'.current
    BY <1>1 DEF Reopen, Page
  <2> QED
    BY <2>1 DEF Reopen, Publish
<1>3. ASSUME NEW c \in calls, StoreSave(c) \/ StoreLock(c) PROVE ~ page'.current /\ (news' \/ behind')
  <2>1. ~ page'.current
    BY <1>1, <1>3 DEF StoreSave, StoreLock, Saved, Page
  <2> QED
    BY <1>3, <2>1 DEF StoreSave, StoreLock, Publish
<1>4. ASSUME NEW c \in calls, StoreSubmit(c) PROVE row' = row \/ row'.status = "SUBMITTED"
  BY <1>1, <1>4 DEF StoreSubmit, SubmitOps, RowsInv, Write, Row
<1>5. ASSUME NEW c \in calls, ServerStep(c), ~ StoreSave(c), ~ StoreLock(c), ~ StoreSubmit(c) PROVE row' = row
  BY <1>5 DEF ServerStep, ServeGet, RefuseGet, LoadSave, LoadLock, LoadSubmit, Refuse, Loaded, server
<1>6. ASSUME NEW c \in calls, AnswerStep(c) \/ Lose(c) PROVE row' = row
  BY <1>6 DEF AnswerStep, GetAnswer, GetRefused, SaveDone, LockAnswer, LockAnswerLeaves, LockRefused,
       SubmitAnswer, SubmitAnswerHeld, SubmitRefused, Away, Lose, server
<1>7. ASSUME ClientStep PROVE row' = row
  BY <1>7 DEF ClientStep, Deliver, Poll, Subscribe, Render, Timer, AutoSubmit, server
<1>8. ASSUME StudentStep PROVE row' = row
  BY <1>8 DEF StudentStep, Type, ResetForm, LockNow, NavigateBlocked, Navigate, Away, Close, OpenPage,
       Enter, ConfirmSubmit, server
<1>9. ASSUME Tick \/ DropHub \/ UNCHANGED vars PROVE row' = row
  BY <1>9 DEF Tick, DropHub, vars, server
<1> QED
  BY <1>2, <1>3, <1>4, <1>5, <1>6, <1>7, <1>8, <1>9 DEF Next

\* Who does what in a behaviour is decided at its start.
LEMMA ScenarioStays == ASSUME [Next]_vars PROVE scenario' = scenario
<1>1. ASSUME NEW c \in calls, ServerStep(c) \/ Lose(c) PROVE scenario' = scenario
  BY <1>1 DEF ServerStep, Lose, ServeGet, RefuseGet, LoadSave, StoreSave, LoadLock, StoreLock,
       LoadSubmit, StoreSubmit, Refuse, Loaded, server
<1>2. ASSUME NEW c \in calls, AnswerStep(c) PROVE scenario' = scenario
  BY <1>2 DEF AnswerStep, GetAnswer, GetRefused, SaveDone, LockAnswer, LockAnswerLeaves, LockRefused,
       SubmitAnswer, SubmitAnswerHeld, SubmitRefused, Away, server
<1>3. ASSUME ClientStep PROVE scenario' = scenario
  BY <1>3 DEF ClientStep, Deliver, Poll, Subscribe, Render, Timer, AutoSubmit, server
<1>4. ASSUME StudentStep PROVE scenario' = scenario
  BY <1>4 DEF StudentStep, Type, ResetForm, LockNow, NavigateBlocked, Navigate, Away, Close, OpenPage,
       Enter, ConfirmSubmit, server
<1>5. ASSUME Reopen \/ Tick \/ DropHub \/ UNCHANGED vars PROVE scenario' = scenario
  BY <1>5 DEF Reopen, Tick, DropHub, vars, server
<1> QED
  BY <1>1, <1>2, <1>3, <1>4, <1>5 DEF Next

\* A save of an open page that nothing refuses stays under way until it is
\* stored.
LEMMA SaveStays ==
  ASSUME TypeInv, [Next]_vars, page'.view = "open", "save" \notin scenario.fails, row.status = "ACTIVE",
         NEW s \in calls, s.op = "save", s.to = "page", s.at \in {"sent", "read"},
         \A b \in calls : ~ StoreSave(b)
  PROVE  \E d \in calls' : /\ d.op = "save" /\ d.to = "page"
                           /\ d.at \in {"sent", "read"} /\ d.draft = s.draft
<1> DEFINE Under(d) == d.op = "save" /\ d.to = "page" /\ d.at \in {"sent", "read"} /\ d.draft = s.draft
<1>1. calls \in SUBSET Call /\ page \in Page /\ s \in Call
  BY DEF TypeInv
<1>2. Under(s)
  OBVIOUS
<1>3. ASSUME NEW b \in calls, NEW cs, NEW at, NEW r, NEW k, NEW e \in cs, e # b, Under(e),
             calls' = Answered(b, cs, at, r, k)
      PROVE  \E d \in calls' : Under(d)
  <2>1. e \in calls'
    BY <1>3 DEF Answered
  <2> QED
    BY <1>3, <2>1
<1>4. ASSUME NEW cs, Outdated(calls) \subseteq cs PROVE \E d \in cs : Under(d)
  <2> DEFINE o == [s EXCEPT !.current = FALSE]
  <2>1. o \in cs
    BY <1>4 DEF Outdated
  <2>2. o.op = s.op /\ o.to = s.to /\ o.at = s.at /\ o.draft = s.draft
    BY <1>1 DEF Call
  <2> HIDE DEF o
  <2> QED
    BY <2>1, <2>2
<1>5. ASSUME NEW b \in calls, NEW r, Saved(b, r), b.op # "save" PROVE \E d \in calls' : Under(d)
  <2> DEFINE k == r # NoRow
             cs == Outdated(calls) \cup {b}
             o == [s EXCEPT !.current = FALSE]
  <2>1. calls' = Answered(b, cs, "answered", r, k) /\ o \in cs
    BY <1>5 DEF Saved, Outdated
  <2>2. o.op = s.op /\ o.to = s.to /\ o.at = s.at /\ o.draft = s.draft
    BY <1>1 DEF Call
  <2> HIDE DEF k, cs, o
  <2>3. Under(o) /\ o # b
    BY <1>5, <2>2
  <2> QED
    BY <1>3, <2>1, <2>3
<1>6. ASSUME NEW b \in calls, ServerStep(b) PROVE \E d \in calls' : Under(d)
  <2>1. CASE StoreLock(b) \/ StoreSubmit(b)
    BY <1>5, <2>1 DEF StoreLock, StoreSubmit, SubmitOps
  <2>2. CASE b # s /\ ~ (StoreLock(b) \/ StoreSubmit(b))
    <3>1. s \in calls'
      BY <1>6, <2>2 DEF ServerStep, ServeGet, RefuseGet, LoadSave, LoadLock, LoadSubmit, Refuse, Loaded, Answered
    <3> QED
      BY <1>2, <3>1
  <2>3. CASE b = s /\ ~ (StoreLock(b) \/ StoreSubmit(b))
    <3>1. LoadSave(s)
      BY <1>6, <2>3 DEF ServerStep, ServeGet, RefuseGet, LoadLock, LoadSubmit, Reaches, SubmitOps
    <3> DEFINE e == [s EXCEPT !.at = "read", !.row = row]
    <3>2. e \in calls'
      BY <3>1 DEF LoadSave, Loaded
    <3>3. e.op = s.op /\ e.to = s.to /\ e.at = "read" /\ e.draft = s.draft
      BY <1>1 DEF Call
    <3> HIDE DEF e
    <3> QED
      BY <3>2, <3>3
  <2> QED
    BY <2>1, <2>2, <2>3
<1>7. ASSUME NEW b \in calls, Lose(b) PROVE \E d \in calls' : Under(d)
  <2>1. b # s /\ calls' = Answered(b, calls, "refused", NoRow, FALSE)
    BY <1>7 DEF Lose
  <2> QED
    BY <1>2, <1>3, <2>1
<1>8. \A view \in {"closed", "away"} : Unmounted(page, view) \in Page /\ Unmounted(page, view).view = view
  BY <1>1, UnmountedFields, PageOperators
<1>9. ASSUME NEW b \in calls, AnswerStep(b) PROVE s \in calls'
  <2>1. b # s
    BY <1>9 DEF AnswerStep, GetAnswer, GetRefused, SaveDone, LockAnswer, LockAnswerLeaves, LockRefused,
         SubmitAnswer, SubmitAnswerHeld, SubmitRefused, SubmitOps
  <2>2. ~ LockAnswerLeaves(b)
    <3> DEFINE q == Unmounted(page, "away")
    <3>1. q \in Page /\ q.view = "away" /\ b \in Call
      BY <1>1, <1>8
    <3>2. LockAnswerLeaves(b) => page' = q \/ page' = Given(q, b)
      BY DEF LockAnswerLeaves
    <3> HIDE DEF q
    <3> QED
      BY <3>1, <3>2, GivenOpens
  <2>3. ~ (SubmitAnswer(b) /\ Open)
    BY <1>8 DEF SubmitAnswer, Away
  <2>4. SubmitAnswerHeld(b) => s \in calls'
    BY <2>1, HeldSubmit
  <2> QED
    BY <1>9, <2>1, <2>2, <2>3, <2>4 DEF AnswerStep, GetAnswer, GetRefused, SaveDone, LockAnswer, LockRefused,
         SubmitAnswer, SubmitRefused, Ends
<1>10. ASSUME ClientStep PROVE s \in calls'
  BY <1>10 DEF ClientStep, Deliver, Refetch, Mine, Poll, Subscribe, Render, Timer, Flush, AutoSubmit
<1>11. ASSUME StudentStep PROVE s \in calls'
  <2>1. ~ Navigate
    BY <1>8 DEF Navigate, Away
  <2>2. ~ Close
    <3> DEFINE q == Unmounted(page, "closed")
    <3>1. q \in Page /\ q.view = "closed"
      BY <1>8
    <3>2. Close => page' = [q EXCEPT !.data = NoRow]
      BY DEF Close
    <3> HIDE DEF q
    <3> QED
      BY <3>1, <3>2 DEF Page
  <2> QED
    BY <1>11, <2>1, <2>2 DEF StudentStep, Type, ResetForm, LockNow, Locking, NavigateBlocked, OpenPage,
         Enter, ConfirmSubmit
<1>12. CASE Reopen
  BY <1>4, <1>12 DEF Reopen
<1>13. ASSUME Tick \/ DropHub \/ UNCHANGED vars PROVE s \in calls'
  BY <1>13 DEF Tick, DropHub, vars
<1> QED
  BY <1>2, <1>6, <1>7, <1>9, <1>10, <1>11, <1>12, <1>13 DEF Next

LEMMA NextDraft == TypeInv /\ RowsInv /\ WhereInv /\ DraftInv /\ [Next]_vars => DraftInv'
<1> DEFINE Asks == \E d \in calls' : d.op = "get" /\ d.to = "page"
           Saves == \E d \in calls' : d.op = "save" /\ d.to = "page"
           Told1 == ~ page'.current /\ (news' \/ behind' \/ Asks)
           Queued1 == page'.queued = page'.rows /\ (page'.timer \/ Saves)
           Saving1 == \E d \in calls' : /\ d.op = "save" /\ d.to = "page"
                                        /\ d.at \in {"sent", "read"} /\ d.draft = page'.rows
           Goal == Told1 \/ page'.dirty \/ Queued1 \/ Saving1
<1> SUFFICES ASSUME TypeInv, RowsInv, WhereInv, DraftInv, [Next]_vars,
                    page'.view = "open", "save" \notin scenario.fails, page'.data.status = "ACTIVE", ~ page'.optimistic,
                    row'.status = "ACTIVE", row'.draft # page'.rows
             PROVE  Goal
  BY ScenarioStays DEF DraftInv, Unsaved, Told, Queued, Saving, Mine, Open
<1>1. calls \in SUBSET Call /\ page \in Page /\ page' \in Page /\ row \in Row
  BY NextTypes DEF TypeInv
<1>2. page.rows \in Contents /\ page'.rows # NoDraft
  BY <1>1, PageAssumption DEF Page
<1>3. CASE page'.dirty \/ (~ page'.current /\ (news' \/ behind'))
  BY <1>3
<1>4. ASSUME row' = row, Steady PROVE Goal
  <2>1. Unsaved /\ (page'.dirty <=> page.dirty)
    BY <1>1, <1>4 DEF Steady, Unsaved, Open, Page
  <2>2. CASE Told
    <3>1. ~ page'.current
      BY <1>1, <1>4, <2>2 DEF Steady, Told
    <3>2. ASSUME NEW g \in Mine("get") PROVE news' \/ behind' \/ Asks \/ page'.dirty
      <4>1. g \in calls /\ g.op = "get" /\ g.to = "page"
        BY DEF Mine
      <4>2. CASE ~ AnswerStep(g)
        BY <4>1, <4>2, AwaitedStays
      <4>3. CASE GetAnswer(g)
        <5>1. page' = Given(page, g) /\ g \in Call /\ page.view = "open"
          BY <1>1, <2>1, <4>1, <4>3 DEF GetAnswer, Unsaved, Open
        <5>2. page'.dirty = (page.dirty \/ g.row # page.data \/ ~ (g.current /\ page.current))
          BY <1>1, <5>1, GivenFields
        <5> QED
          BY <2>2, <5>2 DEF Told
      <4>4. CASE AnswerStep(g) /\ ~ GetAnswer(g)
        BY <4>1, <4>4 DEF AnswerStep, GetRefused, SaveDone, LockAnswer, LockAnswerLeaves, LockRefused,
             SubmitAnswer, SubmitAnswerHeld, SubmitRefused, SubmitOps
      <4> QED
        BY <4>2, <4>3, <4>4
    <3>3. ASSUME news \/ behind PROVE news' \/ behind' \/ Asks \/ page'.dirty
      <4>1. CASE Deliver
        BY <4>1, SentCalls DEF Deliver, Refetch, Mine
      <4>2. ~ Close
        <5> DEFINE q == Unmounted(page, "closed")
        <5>1. q \in Page /\ q.view = "closed"
          BY <1>1, PageOperators, UnmountedFields
        <5>2. Close => page' = [q EXCEPT !.data = NoRow]
          BY DEF Close
        <5> HIDE DEF q
        <5> QED
          BY <5>1, <5>2 DEF Page
      <4>3. ASSUME NEW c \in calls, SubmitAnswer(c) PROVE FALSE
        BY <1>1, <2>1, <4>3, UnmountedFields DEF SubmitAnswer, Away, Unsaved
      <4>4. ASSUME NEW c \in calls, ServeGet(c), c.to = "page" PROVE news' \/ behind' \/ Asks \/ page'.dirty
        BY <3>2, <4>4 DEF ServeGet, Reaches, Mine
      <4> QED
        BY <3>3, <4>1, <4>2, <4>3, <4>4, TellStays
    <3> QED
      BY <2>2, <3>1, <3>2, <3>3 DEF Told
  <2>3. CASE page.dirty
    BY <2>1, <2>3
  <2>4. CASE Queued /\ Timer
    <3>1. page.queued = page.rows /\ page.queued # NoDraft /\ page.queued \in Drafts
      BY <1>1, <1>2, <1>4, <2>4 DEF Queued, Steady, Page
    <3>2. CASE Mine("save") = {}
      <4>1. SaveCall(page.queued) \in calls'
        BY <2>4, <3>1, <3>2 DEF Timer, Flush
      <4>2. LET d == SaveCall(page.queued) IN /\ d.op = "save" /\ d.to = "page" /\ d.at = "sent"
                                             /\ d.draft = page.queued
        BY <3>1, SentCalls DEF New
      <4> QED
        BY <1>4, <3>1, <4>1, <4>2 DEF Steady
    <3>3. CASE Mine("save") # {}
      <4>1. calls' = calls /\ page' = [page EXCEPT !.timer = FALSE]
        BY <2>4, <3>3 DEF Timer, Flush
      <4>2. page'.queued = page.queued
        BY <1>1, <4>1 DEF Page
      <4> QED
        BY <1>4, <3>1, <3>3, <4>1, <4>2 DEF Steady, Mine
    <3> QED
      BY <3>2, <3>3
  <2>5. CASE Queued /\ ~ Timer
    <3>1. page'.queued = page'.rows /\ (page'.timer = page.timer \/ page'.timer)
      BY <1>2, <1>4, <2>5 DEF Steady, Queued
    <3>2. CASE page.timer
      BY <3>1, <3>2
    <3>3. ASSUME NEW s \in Mine("save") PROVE Goal
      <4>1. s \in calls /\ s.op = "save" /\ s.to = "page"
        BY DEF Mine
      <4>2. CASE ~ AnswerStep(s)
        BY <3>1, <4>1, <4>2, AwaitedStays
      <4>3. CASE AnswerStep(s)
        <5>1. SaveDone(s)
          BY <4>1, <4>3 DEF AnswerStep, GetAnswer, GetRefused, LockAnswer, LockAnswerLeaves, LockRefused,
               SubmitAnswer, SubmitAnswerHeld, SubmitRefused, SubmitOps
        <5>2. page'.timer = (page.timer \/ page.queued # NoDraft)
          BY <1>1, <5>1 DEF SaveDone, SaveSettled, Page
        <5> QED
          BY <1>2, <1>4, <2>5, <3>1, <5>2 DEF Queued, Steady
      <4> QED
        BY <4>2, <4>3
    <3> QED
      BY <2>5, <3>2, <3>3 DEF Queued
  <2>6. CASE Saving
    <3>1. PICK s \in calls : s.op = "save" /\ s.to = "page" /\ s.at \in {"sent", "read"} /\ s.draft = page.rows
      BY <2>6 DEF Saving, Mine
    <3>2. CASE \A b \in calls : ~ StoreSave(b)
      <4>1. \E d \in calls' : /\ d.op = "save" /\ d.to = "page"
                              /\ d.at \in {"sent", "read"} /\ d.draft = s.draft
        BY <2>1, <3>1, <3>2, SaveStays DEF Unsaved
      <4> QED
        BY <1>4, <3>1, <4>1 DEF Steady
    <3>3. ASSUME NEW b \in calls, StoreSave(b) PROVE Goal
      <4>1. ~ page'.current
        BY <1>1, <3>3 DEF StoreSave, Saved, Page
      <4> QED
        BY <3>3, <4>1 DEF StoreSave, Publish
    <3> QED
      BY <3>2, <3>3
  <2> QED
    BY <2>1, <2>2, <2>3, <2>4, <2>5, <2>6 DEF DraftInv
<1>5. ASSUME row.status # "NONE", Steady PROVE Goal
  <2>1. CASE row' = row
    BY <1>4, <1>5, <2>1
  <2> QED
    BY <1>5, <2>1, RowMoves
<1>6. ASSUME NEW c \in calls, GetAnswer(c), page' = Given(page, c), ~ page'.dirty PROVE Goal
  <2>1. c \in Call /\ page.view = "open" /\ row' = row /\ behind' = behind /\ news' = news
        /\ calls' = calls \ {c} /\ c.op = "get"
    BY <1>1, <1>6, GivenOpens DEF GetAnswer, Ends, server
  <2>5. page'.dirty = (page.dirty \/ c.row # page.data \/ ~ (c.current /\ page.current))
    BY <1>1, <1>6, <2>1, GivenFields
  <2>6. ~ page.dirty /\ page.current /\ page.data = c.row
    BY <1>6, <2>5
  <2>7. page'.data = c.row /\ page'.rows = page.rows /\ page'.queued = page.queued
    <3>1. Given(page, c).data = c.row /\ Given(page, c).rows = page.rows /\ Given(page, c).queued = page.queued
      BY <1>1, <2>1, GivenFields
    <3> QED
      BY <1>6, <3>1
  <2>8. page'.timer = page.timer
    BY <1>1, <1>6, <2>1, GivenFields
  <2>9. page'.optimistic = page.optimistic
    BY <1>1, <1>6, <2>1, GivenFields
  <2>2. /\ ~ page.dirty /\ page.current /\ page.data = c.row /\ page'.data = c.row
        /\ page'.rows = page.rows /\ page'.queued = page.queued
        /\ page'.timer = page.timer /\ (page'.optimistic <=> page.optimistic)
    BY <2>6, <2>7, <2>8, <2>9
  <2>3. Queued \/ Saving
    BY <2>1, <2>2 DEF DraftInv, Unsaved, Told, Open
  <2>4. \A d \in Mine("save") : d \in calls'
    BY <2>1 DEF Mine
  <2> QED
    BY <2>2, <2>3, <2>4 DEF Queued, Saving, Mine
<1>7. ASSUME NEW c \in calls, LockAnswer(c), page' = Given(page, c) PROVE FALSE
  BY <1>1, <1>7, GivenOpens DEF LockAnswer, RowsInv
<1>8. ASSUME NEW c \in calls, LockRefused(c), c.to = "page" PROVE page'.dirty
  <2>1. page'.dirty = TRUE
    BY <1>1, <1>8 DEF LockRefused, Page
  <2> QED
    BY <2>1
<1>9. ASSUME OpenPage \/ Enter PROVE page'.dirty
  <2>1. page'.dirty = TRUE
    BY <1>1, <1>9, MountedFields DEF OpenPage, Enter
  <2> QED
    BY <2>1
<1>10. ASSUME NEW p \in Page, Renders(p), p.dirty PROVE Goal
  <2>1. CASE HydratedRows(p) # p.rows \/ (UnlocksOptimism(p) /\ p.optimistic)
    BY <1>10, <2>1 DEF Renders
  <2>2. CASE HydratedRows(p) = p.rows /\ ~ (UnlocksOptimism(p) /\ p.optimistic)
    <3>1. ~ p.optimistic /\ p.data.status = "ACTIVE"
      BY <1>10, <2>2 DEF Renders, Page
    <3>2. Enqueues(p)
      BY <1>10, <3>1 DEF Enqueues, AttemptLocked, NoRow
    <3> QED
      BY <1>10, <2>2, <3>2 DEF Renders
  <2> QED
    BY <2>1, <2>2
<1>11. ASSUME Render, ~ page.dirty, ~ page'.dirty PROVE Goal
  <2>1. Renders(page) /\ row' = row /\ calls' = calls /\ news' = news /\ behind' = behind
    BY <1>11, RenderMoves DEF Render, server
  <2>2. HydratedRows(page) = page.rows /\ ~ (UnlocksOptimism(page) /\ page.optimistic)
    BY <1>11, <2>1 DEF Renders
  <2>3. ~ page.optimistic /\ ~ Enqueues(page)
    BY <1>1, <1>11, <2>1, <2>2 DEF Renders, Enqueues, Page
  <2>4. /\ page'.rows = page.rows /\ page'.queued = page.queued /\ page'.timer = page.timer
        /\ page'.current = page.current /\ page'.data = page.data
    BY <1>1, <2>1, <2>2, <2>3 DEF Renders, Page
  <2>5. Unsaved
    BY <1>11, <2>1, <2>3, <2>4 DEF Unsaved, Render
  <2> QED
    BY <1>11, <2>1, <2>4, <2>5 DEF DraftInv, Told, Queued, Saving, Mine
<1>12. row.status # "NONE" \/ page.data.status # "ACTIVE"
  BY DEF RowsInv, RowKnown
<1>13. Steady => page'.data = page.data
  BY DEF Steady
<1>14. CASE Steady
  BY <1>5, <1>12, <1>13, <1>14
<1>15. ASSUME NEW c \in calls, (GetAnswer(c) \/ LockAnswer(c)) /\ page' = Given(page, c) PROVE Goal
  BY <1>3, <1>6, <1>7, <1>15
<1>16. CASE Render
  <2>1. Renders(page)
    BY <1>16, RenderMoves
  <2> QED
    BY <1>1, <1>3, <1>10, <1>11, <1>16, <2>1
<1>17. CASE ResetForm \/ (\E c \in scenario.contents : Type(c)) \/ LockSends
  <2>1. PICK p \in Page : Renders(p) /\ p.dirty = TRUE
    BY <1>17, RenderMoves
  <2> QED
    BY <1>10, <2>1
<1> QED
  BY <1>3, <1>8, <1>9, <1>14, <1>15, <1>16, <1>17, PageMoves

----------------------------------------------------------------------------
(***************************************************************************)
(* The submits that may still add a row, those of them that have found     *)
(* none, and those of visits before this one.  Once there is a row, no     *)
(* other submit gets past its check: each visit adds two rows at most.     *)
(***************************************************************************)
Pending == {c \in calls : c.op \in SubmitOps /\ c.at \in {"sent", "read"}}

Reads == {c \in Pending : c.at = "read"}

Theirs == {c \in Pending : c.to # "page"}

Before == IF Open THEN page.opens - 1 ELSE page.opens

CurrentInv == \A c \in calls : c.current => c.at = "answered"

SubmitsInv ==
  /\ IsFiniteSet(Pending)
  /\ Open => page.opens > 0
  /\ \A c, d \in Pending : c.to = "page" /\ d.to = "page" /\ c.auto = d.auto => c = d
  /\ \A c \in Pending : c.to = "page" /\ c.auto => page.armed = "fired"
  /\ submits = 0 => Cardinality(Theirs) <= 2 * Before
  /\ submits > 0 => submits + Cardinality(Reads) <= 2 * page.opens

\* Only an answer is current.
LEMMA NextCurrent == TypeInv /\ CurrentInv /\ [Next]_vars => CurrentInv'
<1> SUFFICES ASSUME TypeInv, CurrentInv, [Next]_vars, NEW d \in calls', d.current
             PROVE  d.at = "answered"
  BY DEF CurrentInv
<1>1. \/ New(d) \/ \E b \in calls : Kept(b, d) \/ Handled(b, d)
  BY CallsMove
<1> QED
  BY <1>1 DEF CurrentInv, New, Kept, Handled

\* The submit that a step sends.
NewSubmit(d) ==
  /\ d.to = "page"
  /\ \/ ConfirmSubmit /\ d = SubmitCall(page, FALSE)
     \/ AutoSubmit /\ d = SubmitCall(page, TRUE)

\* A step takes each submit c that is under way to f[c], if it still is.
Moves(f) ==
  /\ \A c \in calls :
       /\ f[c].op = c.op
       /\ c.op \in SubmitOps =>
            /\ f[c].auto = c.auto
            /\ f[c].at \in {"sent", "read"} => c.at \in {"sent", "read"}
            /\ f[c].at = "read" => c.at = "read" \/ submits = 0
            /\ f[c].to = "page" => c.to = "page"
            /\ f[c].to # "page" => c.to # "page" \/ page'.view # "open"
  /\ \A d \in calls' : d.op \in SubmitOps => NewSubmit(d) \/ \E c \in calls : d = f[c]

LEMMA SameMoves ==
  ASSUME \A d \in calls' : d.op \in SubmitOps => NewSubmit(d) \/ d \in calls
  PROVE  \E f : Moves(f)
<1> DEFINE f == [c \in calls |-> c]
<1>1. \A c \in calls : f[c] = c
  OBVIOUS
<1> HIDE DEF f
<1>2. Moves(f)
  BY <1>1 DEF Moves
<1> QED
  BY <1>2

LEMMA AnsweredMoves ==
  ASSUME TypeInv, NEW b \in calls, NEW at \in {"answered", "refused"}, NEW r, NEW k,
         calls' = Answered(b, calls, at, r, k)
  PROVE  \E f : Moves(f)
<1> DEFINE e == Reply(b, at, r, k)
           f == [c \in calls |-> IF c = b THEN e ELSE c]
<1>1. b \in Call
  BY DEF TypeInv
<1>2. e.op = b.op /\ e.to = b.to /\ e.auto = b.auto /\ e.at = at
  BY <1>1 DEF Reply, Call
<1>3. \A d \in calls' : d \in calls \ {b} \/ d \in After(b) \/ d = e
  BY DEF Answered, Reply
<1>4. \A d \in After(b) : d.op \notin SubmitOps
  BY <1>1, AfterCalls DEF SubmitOps
<1>5. f[b] = e /\ \A c \in calls : c # b => f[c] = c
  OBVIOUS
<1> HIDE DEF e, f
<1>6. Moves(f)
  BY <1>2, <1>3, <1>4, <1>5 DEF Moves
<1> QED
  BY <1>6

LEMMA LoadedMoves ==
  ASSUME TypeInv, NEW b \in calls, Loaded(b), b.at = "sent", b.op \in SubmitOps => submits = 0
  PROVE  \E f : Moves(f)
<1> DEFINE e == [b EXCEPT !.at = "read", !.row = row]
           f == [c \in calls |-> IF c = b THEN e ELSE c]
<1>1. b \in Call
  BY DEF TypeInv
<1>2. e.op = b.op /\ e.to = b.to /\ e.auto = b.auto /\ e.at = "read"
  BY <1>1 DEF Call
<1>3. \A d \in calls' : d \in calls \ {b} \/ d = e
  BY DEF Loaded
<1>4. f[b] = e /\ \A c \in calls : c # b => f[c] = c
  OBVIOUS
<1> HIDE DEF e, f
<1>5. Moves(f)
  BY <1>2, <1>3, <1>4 DEF Moves
<1> QED
  BY <1>5

\* The handler that saves is done with its call.
LEMMA SavedMoves ==
  ASSUME TypeInv, CurrentInv, NEW b \in calls, b.at = "read", NEW r, Saved(b, r)
  PROVE  \E f : Moves(f) /\ f[b].at = "answered"
<1> DEFINE k == r # NoRow
           e == Reply(b, "answered", r, k)
           o(c) == [c EXCEPT !.current = FALSE]
           f == [c \in calls |-> IF c = b THEN e ELSE o(c)]
<1>1. calls \in SUBSET Call /\ b \in Call
  BY DEF TypeInv
<1>2. e.op = b.op /\ e.to = b.to /\ e.auto = b.auto /\ e.at = "answered"
  <2> HIDE DEF k
  <2> QED
    BY <1>1 DEF Reply, Call
<1>3. \A c \in calls : o(c).op = c.op /\ o(c).to = c.to /\ o(c).auto = c.auto /\ o(c).at = c.at
  BY <1>1 DEF Call
<1>4. o(b) = b
  <2>1. b.current = FALSE
    BY <1>1 DEF CurrentInv, Call
  <2> QED
    BY <1>1, <2>1 DEF Call
<1>5. ASSUME NEW d \in calls', d \notin After(b), d # e PROVE \E c \in calls \ {b} : d = o(c)
  <2>1. d \in Outdated(calls) /\ d # b
    BY <1>5 DEF Saved, Answered, Reply
  <2>2. PICK c \in calls : d = o(c)
    BY <2>1 DEF Outdated
  <2>3. c # b
    BY <1>4, <2>1, <2>2
  <2> QED
    BY <2>2, <2>3
<1>6. \A d \in After(b) : d.op \notin SubmitOps
  BY <1>1, AfterCalls DEF SubmitOps
<1>7. f[b] = e /\ \A c \in calls \ {b} : f[c] = o(c)
  OBVIOUS
<1> HIDE DEF k, e, o, f
<1>8. Moves(f)
  BY <1>2, <1>3, <1>5, <1>6, <1>7 DEF Moves
<1> QED
  BY <1>2, <1>7, <1>8

LEMMA ReopenMoves == ASSUME TypeInv, Reopen PROVE \E f : Moves(f)
<1> DEFINE o(c) == [c EXCEPT !.current = FALSE]
           f == [c \in calls |-> o(c)]
<1>1. \A c \in calls : o(c).op = c.op /\ o(c).to = c.to /\ o(c).auto = c.auto /\ o(c).at = c.at
  BY DEF TypeInv, Call
<1>2. \A d \in calls' : \E c \in calls : d = o(c)
  BY DEF Reopen, Outdated
<1>3. \A c \in calls : f[c] = o(c)
  OBVIOUS
<1> HIDE DEF o, f
<1>4. Moves(f)
  BY <1>1, <1>2, <1>3 DEF Moves
<1> QED
  BY <1>4

LEMMA LeftMoves ==
  ASSUME TypeInv, page'.view # "open", NEW cs \in SUBSET (calls \cup {GetCall}),
         calls' = UNION {Orphan(c) : c \in cs}
  PROVE  \E f : Moves(f)
<1> DEFINE e(c) == [c EXCEPT !.to = "cache"]
           f == [c \in calls |-> IF c.to = "page" /\ c.op \in SubmitOps THEN e(c) ELSE c]
<1>1. calls \in SUBSET Call /\ page \in Page /\ page.queued \in Drafts
  BY DEF TypeInv, Page
<1>2. \A c \in calls : e(c).op = c.op /\ e(c).to = "cache" /\ e(c).auto = c.auto /\ e(c).at = c.at
  BY <1>1 DEF Call
<1>3. ASSUME NEW d \in calls', d.op \in SubmitOps
      PROVE  \E c \in calls : IF c.to = "page" /\ c.op \in SubmitOps THEN d = e(c) ELSE d = c
  <2>1. PICK c \in cs : d \in Orphan(c)
    OBVIOUS
  <2>2. GetCall \in Call /\ GetCall.op = "get" /\ GetCall.to = "page"
    BY SentCalls DEF New
  <2>3. c \in Call /\ d.op = c.op
    BY <1>1, <1>3, <2>1, <2>2, OrphanCalls DEF Kept, SubmitOps
  <2>4. c \in calls
    BY <1>3, <2>2, <2>3 DEF SubmitOps
  <2>5. IF c.to = "page" THEN d = e(c) ELSE d = c
    BY <1>3, <2>1, <2>3 DEF Orphan, SubmitOps
  <2> QED
    BY <1>3, <2>3, <2>4, <2>5
<1>4. \A c \in calls : IF c.to = "page" /\ c.op \in SubmitOps THEN f[c] = e(c) ELSE f[c] = c
  OBVIOUS
<1> HIDE DEF e, f
<1>5. Moves(f)
  BY <1>2, <1>3, <1>4 DEF Moves
<1> QED
  BY <1>5

LEMMA ClosedDropsMoves == ASSUME TypeInv, Close, page'.view # "open" PROVE \E f : Moves(f)
<1> DEFINE o(c) == [c EXCEPT !.to = "nobody"]
           f == [c \in calls |-> o(c)]
<1>1. \A c \in calls : o(c).op = c.op /\ o(c).to = "nobody" /\ o(c).auto = c.auto /\ o(c).at = c.at
  BY DEF TypeInv, Call
<1>2. page.rows \in Drafts
  BY DEF TypeInv, Page, Drafts
<1>3. \A d \in calls' : d.op \in SubmitOps => \E c \in calls : d = o(c)
  BY <1>2, SentCalls DEF Close, SubmitOps
<1>4. \A c \in calls : f[c] = o(c)
  OBVIOUS
<1> HIDE DEF o, f
<1>5. Moves(f)
  BY <1>1, <1>3, <1>4 DEF Moves
<1> QED
  BY <1>5

LEMMA SubmitMoves ==
  ASSUME TypeInv, CurrentInv, [Next]_vars
  PROVE  \E f : /\ Moves(f)
                /\ \/ submits' = submits
                   \/ /\ submits' = submits + 1 /\ page'.opens = page.opens /\ page'.view = page.view
                      /\ \E b \in Reads : f[b].at = "answered"
<1>1. calls \in SUBSET Call /\ page \in Page /\ page.rows \in Drafts /\ page.queued \in Drafts
  BY DEF TypeInv, Page, Drafts
<1>2. GetCall.op \notin SubmitOps
      /\ \A x \in Drafts : SaveCall(x).op \notin SubmitOps /\ LockCall(x).op \notin SubmitOps
      /\ \A auto \in BOOLEAN : SubmitCall(page, auto).to = "page"
  BY <1>1, SentCalls DEF SubmitOps
<1>3. \A view \in {"closed", "away"} : Unmounted(page, view) \in Page /\ Unmounted(page, view).view = view
  BY <1>1, UnmountedFields, PageOperators
<1> DEFINE Goal == (\E f : Moves(f)) /\ submits' = submits
<1>4. ASSUME NEW c \in calls, Refuse(c) PROVE \E f : Moves(f)
  <2> DEFINE k == FALSE
  <2>1. calls' = Answered(c, calls, "refused", NoRow, k)
    BY <1>4 DEF Refuse
  <2> HIDE DEF k
  <2> QED
    BY <2>1, AnsweredMoves
<1>5. ASSUME NEW c \in calls, ServerStep(c) \/ Lose(c), ~ StoreSubmit(c) PROVE Goal
  <2>1. submits' = submits
    BY <1>5 DEF ServerStep, Lose, ServeGet, RefuseGet, LoadSave, StoreSave, LoadLock, StoreLock,
         LoadSubmit, Refuse, Loaded, server
  <2> DEFINE t == TRUE
             u == FALSE
  <2>2. CASE ServeGet(c)
    <3>1. calls' = Answered(c, calls, "answered", row', t)
      BY <2>2 DEF ServeGet
    <3> HIDE DEF t
    <3> QED
      BY <2>1, <3>1, AnsweredMoves
  <2>3. CASE Lose(c)
    <3>1. calls' = Answered(c, calls, "refused", NoRow, u)
      BY <2>3 DEF Lose
    <3> HIDE DEF u
    <3> QED
      BY <2>1, <3>1, AnsweredMoves
  <2>4. CASE RefuseGet(c)
    BY <1>4, <2>1, <2>4 DEF RefuseGet
  <2>5. CASE LoadSave(c)
    <3>1. Refuse(c) \/ (Loaded(c) /\ c.at = "sent" /\ c.op \notin SubmitOps)
      BY <2>5 DEF LoadSave, Reaches, SubmitOps
    <3> QED
      BY <1>4, <2>1, <3>1, LoadedMoves
  <2>6. CASE LoadSubmit(c)
    <3>1. Refuse(c) \/ (Loaded(c) /\ c.at = "sent" /\ submits = 0)
      BY <2>6 DEF LoadSubmit, TypeInv
    <3> QED
      BY <1>4, <2>1, <3>1, LoadedMoves
  <2>7. CASE LoadLock(c)
    <3>1. calls' = Answered(c, calls, "answered", row, t) \/ (Loaded(c) /\ c.at = "sent" /\ c.op \notin SubmitOps)
      BY <2>7 DEF LoadLock, SubmitOps
    <3> HIDE DEF t
    <3> QED
      BY <2>1, <3>1, AnsweredMoves, LoadedMoves
  <2>8. CASE StoreSave(c) \/ StoreLock(c)
    BY <2>1, <2>8, SavedMoves DEF StoreSave, StoreLock
  <2> QED
    BY <1>5, <2>2, <2>3, <2>4, <2>5, <2>6, <2>7, <2>8 DEF ServerStep
<1>6. ASSUME NEW c \in calls, StoreSubmit(c)
      PROVE  /\ submits' = submits + 1 /\ page'.opens = page.opens /\ page'.view = page.view
             /\ \E f : Moves(f) /\ \E b \in Reads : f[b].at = "answered"
  <2>1. c \in Reads
    BY <1>6 DEF StoreSubmit, Reads, Pending
  <2>2. PICK f : Moves(f) /\ f[c].at = "answered"
    BY <1>6, SavedMoves DEF StoreSubmit
  <2>3. page'.opens = page.opens /\ page'.view = page.view
    BY <1>1, <1>6 DEF StoreSubmit, Saved, Page
  <2> QED
    BY <1>6, <2>1, <2>2, <2>3 DEF StoreSubmit
<1>7. ASSUME NEW c \in calls, AnswerStep(c) PROVE Goal
  <2>1. submits' = submits
    BY <1>7 DEF AnswerStep, GetAnswer, GetRefused, SaveDone, LockAnswer, LockAnswerLeaves, LockRefused,
         SubmitAnswer, SubmitAnswerHeld, SubmitRefused, Away, server
  <2>2. CASE LockAnswerLeaves(c)
    <3> DEFINE q == Unmounted(page, "away")
    <3>1. q \in Page /\ q.view = "away" /\ c \in Call
      BY <1>1, <1>3
    <3>2. page' = q \/ page' = Given(q, c)
      BY <2>2 DEF LockAnswerLeaves
    <3> HIDE DEF q
    <3>3. page'.view # "open"
      BY <3>1, <3>2, GivenOpens
    <3>4. calls \ {c} \in SUBSET (calls \cup {GetCall}) /\ calls' = UNION {Orphan(d) : d \in calls \ {c}}
      BY <2>2 DEF LockAnswerLeaves
    <3> QED
      BY <2>1, <3>3, <3>4, LeftMoves
  <2>3. CASE SubmitAnswer(c) /\ Open
    <3> DEFINE cs == Refetch(calls \ {c})
    <3>1. calls' = UNION {Orphan(d) : d \in cs} /\ page'.view # "open"
      BY <1>3, <2>3 DEF SubmitAnswer, Away
    <3>2. cs \in SUBSET (calls \cup {GetCall})
      BY DEF Refetch
    <3> HIDE DEF cs
    <3> QED
      BY <2>1, <3>1, <3>2, LeftMoves
  <2>4. CASE SubmitAnswerHeld(c)
    <3>1. \A d \in calls' : d.op \in SubmitOps => d \in calls
      BY <1>1, <1>2, <2>4, HeldSubmit
    <3> QED
      BY <2>1, <3>1, SameMoves
  <2>5. CASE ~ LockAnswerLeaves(c) /\ ~ (SubmitAnswer(c) /\ Open) /\ ~ SubmitAnswerHeld(c)
    <3>1. calls' \subseteq calls
      BY <1>7, <2>5 DEF AnswerStep, GetAnswer, GetRefused, SaveDone, LockAnswer, LockRefused,
           SubmitAnswer, SubmitRefused, Ends
    <3> QED
      BY <2>1, <3>1, SameMoves
  <2> QED
    BY <2>2, <2>3, <2>4, <2>5
<1>8. ASSUME ClientStep PROVE Goal
  <2>1. submits' = submits
    BY <1>8 DEF ClientStep, Deliver, Poll, Subscribe, Render, Timer, AutoSubmit, server
  <2>2. ASSUME NEW d \in calls', d.op \in SubmitOps PROVE NewSubmit(d) \/ d \in calls
    <3>1. CASE AutoSubmit
      <4>1. d \in calls \/ d = SubmitCall(page, TRUE)
        BY <2>2, <3>1 DEF AutoSubmit
      <4>2. SubmitCall(page, TRUE).to = "page"
        BY DEF SubmitCall, NewCall
      <4> QED
        BY <3>1, <4>1, <4>2 DEF NewSubmit
    <3>2. CASE ~ AutoSubmit
      BY <1>1, <1>2, <1>8, <2>2, <3>2 DEF ClientStep, Deliver, Refetch, Poll, Subscribe, Render, Timer, Flush
    <3> QED
      BY <3>1, <3>2
  <2> QED
    BY <2>1, <2>2, SameMoves
<1>9. ASSUME StudentStep PROVE Goal
  <2>1. submits' = submits
    BY <1>9 DEF StudentStep, Type, ResetForm, LockNow, NavigateBlocked, Navigate, Away, Close, OpenPage,
         Enter, ConfirmSubmit, server
  <2>2. CASE Navigate
    <3>1. calls' = UNION {Orphan(c) : c \in calls} /\ page'.view # "open"
      BY <1>3, <2>2 DEF Navigate, Away
    <3>2. calls \in SUBSET (calls \cup {GetCall})
      OBVIOUS
    <3> QED
      BY <2>1, <3>1, <3>2, LeftMoves
  <2>3. CASE Close
    <3> DEFINE q == Unmounted(page, "closed")
    <3>1. q \in Page /\ q.view = "closed" /\ page' = [q EXCEPT !.data = NoRow]
      BY <1>3, <2>3 DEF Close
    <3> HIDE DEF q
    <3>2. page'.view # "open"
      BY <3>1 DEF Page
    <3> QED
      BY <2>1, <2>3, <3>2, ClosedDropsMoves
  <2>4. ASSUME ~ Navigate, ~ Close, NEW d \in calls', d.op \in SubmitOps PROVE NewSubmit(d) \/ d \in calls
    <3>1. CASE ConfirmSubmit
      <4>1. d \in calls \/ d = SubmitCall(page, FALSE)
        BY <2>4, <3>1 DEF ConfirmSubmit
      <4>2. SubmitCall(page, FALSE).to = "page"
        BY DEF SubmitCall, NewCall
      <4>3. CASE d = SubmitCall(page, FALSE)
        BY <3>1, <4>2, <4>3 DEF NewSubmit
      <4> QED
        BY <4>1, <4>3
    <3>2. CASE ~ ConfirmSubmit
      BY <1>1, <1>2, <1>9, <2>4, <3>2 DEF StudentStep, Type, ResetForm, LockNow, Locking, NavigateBlocked,
           OpenPage, Enter
    <3> QED
      BY <3>1, <3>2
  <2> QED
    BY <2>1, <2>2, <2>3, <2>4, SameMoves
<1>10. ASSUME Reopen PROVE Goal
  BY <1>10, ReopenMoves DEF Reopen
<1>11. ASSUME Tick \/ DropHub \/ UNCHANGED vars PROVE Goal
  <2>1. submits' = submits /\ calls' = calls
    BY <1>11 DEF Tick, DropHub, vars, server
  <2> QED
    BY <2>1, SameMoves
<1> QED
  BY <1>5, <1>6, <1>7, <1>8, <1>9, <1>10, <1>11 DEF Next

\* The page is visited once more, or its timer has fired if it had.
LEMMA VisitMoves ==
  ASSUME TypeInv, [Next]_vars
  PROVE  \/ /\ ~ Open /\ page'.view = "open" /\ page'.opens = page.opens + 1
            /\ \A d \in calls' : d.op \in SubmitOps => d \in calls
         \/ /\ page'.opens = page.opens
            /\ page'.view = page.view \/ page'.view # "open"
            /\ page.armed = "fired" => page'.armed = "fired"
<1>1. calls \in SUBSET Call /\ page \in Page /\ Submitting \in BOOLEAN
  BY DEF TypeInv, Submitting
<1> DEFINE Stays == /\ page'.opens = page.opens
                    /\ page'.view = page.view \/ page'.view # "open"
                    /\ page.armed = "fired" => page'.armed = "fired"
<1>2. ASSUME NEW p, p = page \/ p = [page EXCEPT !.current = FALSE] \/ p = [page EXCEPT !.hub = "subscribed"]
                    \/ p = [page EXCEPT !.hub = "dropped"] \/ p = [page EXCEPT !.fresh = TRUE]
                    \/ p = SaveSettled(page) \/ p = [page EXCEPT !.invalid = TRUE]
                    \/ p = [page EXCEPT !.fresh = Open]
                    \/ p = [page EXCEPT !.timer = FALSE] \/ p = [page EXCEPT !.timer = FALSE, !.queued = NoDraft]
                    \/ p = [page EXCEPT !.optimistic = FALSE, !.fresh = TRUE, !.dirty = TRUE]
                    \/ p = [page EXCEPT !.armed = "fired", !.fresh = TRUE],
             page' = p
      PROVE  Stays
  <2>1. p.opens = page.opens
    BY <1>1, <1>2 DEF Page, SaveSettled
  <2>2. p.view = page.view
    BY <1>1, <1>2 DEF Page, SaveSettled
  <2>3. p.armed = page.armed \/ p.armed = "fired"
    BY <1>1, <1>2 DEF Page, SaveSettled
  <2> QED
    BY <1>2, <2>1, <2>2, <2>3
<1>3. ASSUME NEW c \in calls, ServerStep(c) \/ Lose(c) PROVE Stays
  BY <1>2, <1>3 DEF ServerStep, ServeGet, RefuseGet, LoadSave, StoreSave, LoadLock, StoreLock,
       LoadSubmit, StoreSubmit, Refuse, Loaded, Saved, Lose
<1>4. ASSUME NEW view \in {"closed", "away"}
      PROVE  /\ Unmounted(page, view) \in Page /\ Unmounted(page, view).view # "open"
             /\ Unmounted(page, view).opens = page.opens /\ Unmounted(page, view).armed = page.armed
  BY <1>1, UnmountedFields, PageOperators
<1>5. ASSUME NEW c \in calls, AnswerStep(c), ~ SubmitAnswerHeld(c) PROVE Stays
  <2>1. c \in Call
    BY <1>1
  <2>2. CASE GetAnswer(c) \/ LockAnswer(c)
    <3>1. Given(page, c).opens = page.opens /\ Given(page, c).view = page.view /\ Given(page, c).armed = page.armed
      BY <1>1, <2>1, GivenFields
    <3> QED
      BY <2>2, <3>1 DEF GetAnswer, LockAnswer
  <2>3. CASE LockAnswerLeaves(c)
    <3> DEFINE q == Unmounted(page, "away")
    <3>1. q \in Page /\ q.view # "open" /\ q.opens = page.opens /\ q.armed = page.armed
      BY <1>4
    <3>2. page' = q \/ page' = Given(q, c)
      BY <2>3 DEF LockAnswerLeaves
    <3> HIDE DEF q
    <3>3. Given(q, c).opens = q.opens /\ Given(q, c).view = q.view /\ Given(q, c).armed = q.armed
      BY <2>1, <3>1, GivenFields
    <3> QED
      BY <3>1, <3>2, <3>3
  <2>4. CASE SubmitAnswer(c)
    BY <1>2, <1>4, <2>4 DEF SubmitAnswer, Away
  <2>5. CASE GetRefused(c) \/ SaveDone(c) \/ LockRefused(c) \/ SubmitRefused(c)
    BY <1>2, <2>5 DEF GetRefused, SaveDone, LockRefused, SubmitRefused
  <2> QED
    BY <1>5, <2>2, <2>3, <2>4, <2>5 DEF AnswerStep
<1>6. ASSUME NEW p \in Page, NEW busy \in BOOLEAN
      PROVE  /\ Rendered(p, busy).opens = p.opens /\ Rendered(p, busy).view = p.view
             /\ p.armed = "fired" => Rendered(p, busy).armed = "fired"
  BY RenderedFields DEF ArmedBy
<1>7. ASSUME ClientStep PROVE Stays
  <2>1. CASE Render
    BY <1>1, <1>6, <2>1 DEF Render
  <2>2. CASE Timer
    BY <1>2, <2>2 DEF Timer, Flush
  <2>3. CASE AutoSubmit
    <3>1. page' = [page EXCEPT !.armed = "fired", !.fresh = TRUE]
      BY <2>3 DEF AutoSubmit
    <3> QED
      BY <1>2, <3>1
  <2>4. CASE Deliver \/ Poll \/ Subscribe
    BY <1>2, <2>4 DEF Deliver, Poll, Subscribe
  <2> QED
    BY <1>7, <2>1, <2>2, <2>3, <2>4 DEF ClientStep
<1>8. ASSUME NEW c \in Contents, page' = Edited(page, c) PROVE Stays
  <2> DEFINE p == [page EXCEPT !.rows = c, !.dirty = TRUE]
  <2>1. p \in Page /\ p.opens = page.opens /\ p.view = page.view /\ p.armed = page.armed
    BY <1>1, EditedType DEF Page
  <2>2. page' = Rendered(p, Submitting)
    BY <1>8 DEF Edited
  <2> HIDE DEF p
  <2> QED
    BY <1>1, <1>6, <2>1, <2>2
<1>9. ASSUME LockSends PROVE Stays
  <2> DEFINE p == [page EXCEPT !.optimistic = TRUE, !.dirty = TRUE]
             busy == TRUE
             q == Rendered(p, busy)
  <2>1. p \in Page /\ p.opens = page.opens /\ p.view = page.view /\ p.armed = page.armed
    BY <1>1, OptimisticType DEF Page
  <2>2. page' = q \/ page' = [q EXCEPT !.blocking = TRUE]
    BY <1>9 DEF LockSends, Optimistic
  <2>3. busy \in BOOLEAN
    OBVIOUS
  <2> HIDE DEF p, busy
  <2>4. q \in Page /\ q.opens = p.opens /\ q.view = p.view /\ (p.armed = "fired" => q.armed = "fired")
    BY <1>6, <2>1, <2>3, RenderedType
  <2> HIDE DEF q
  <2>5. page'.opens = q.opens /\ page'.view = q.view /\ page'.armed = q.armed
    BY <2>2, <2>4 DEF Page
  <2> QED
    BY <2>1, <2>4, <2>5
<1>13. ASSUME NEW c \in calls, SubmitAnswerHeld(c) PROVE Stays
  BY <1>2, <1>9, <1>13, HeldSubmit DEF LockSends
<1>10. scenario.contents \subseteq Contents /\ Blank \in Contents
  BY PageAssumption DEF TypeInv, Scenario
<1>11. CASE StudentStep
  <2>1. CASE (\E c \in scenario.contents : Type(c)) \/ ResetForm
    BY <1>8, <1>10, <2>1 DEF Type, ResetForm
  <2>2. CASE LockNow \/ NavigateBlocked
    BY <1>9, <2>2 DEF LockNow, NavigateBlocked, Locking, LockSends
  <2>3. CASE Navigate
    BY <1>4, <2>3 DEF Navigate, Away
  <2>4. CASE Close
    <3> DEFINE q == Unmounted(page, "closed")
    <3>1. q \in Page /\ q.view # "open" /\ q.opens = page.opens /\ q.armed = page.armed
          /\ page' = [q EXCEPT !.data = NoRow]
      BY <1>4, <2>4 DEF Close
    <3> HIDE DEF q
    <3> QED
      BY <3>1 DEF Page
  <2>5. CASE ConfirmSubmit
    BY <1>2, <2>5 DEF ConfirmSubmit
  <2>6. CASE OpenPage \/ Enter
    <3>1. page'.view = "open" /\ page'.opens = page.opens + 1 /\ ~ Open
      BY <1>1, <2>6, MountedFields DEF OpenPage, Enter, Open
    <3>2. \A d \in calls' : d.op \in SubmitOps => d \in calls
      BY <2>6, SentCalls DEF OpenPage, Enter, SubmitOps
    <3> QED
      BY <3>1, <3>2
  <2> QED
    BY <1>11, <2>1, <2>2, <2>3, <2>4, <2>5, <2>6 DEF StudentStep
<1>12. ASSUME Reopen \/ Tick \/ DropHub \/ UNCHANGED vars PROVE Stays
  <2>1. page' = page \/ page' = [page EXCEPT !.current = FALSE] \/ page' = [page EXCEPT !.hub = "dropped"]
    BY <1>12 DEF Reopen, Tick, DropHub, vars
  <2> QED
    BY <1>2, <2>1
<1> QED
  BY <1>3, <1>5, <1>7, <1>11, <1>12, <1>13 DEF Next

\* An image is no larger than what it is the image of.
LEMMA ImageBound ==
  ASSUME NEW S, IsFiniteSet(S), NEW f, NEW T, \A t \in T : \E x \in S : t = f[x]
  PROVE  IsFiniteSet(T) /\ Cardinality(T) \in Nat /\ Cardinality(T) <= Cardinality(S)
<1> DEFINE U == {f[x] : x \in S}
           g == [x \in S |-> f[x]]
<1>1. g \in Surjection(S, U)
  BY DEF Surjection
<1>2. IsFiniteSet(U) /\ Cardinality(U) <= Cardinality(S)
  BY <1>1, FS_Surjection
<1>3. T \in SUBSET U
  OBVIOUS
<1> HIDE DEF U
<1>4. IsFiniteSet(T) /\ Cardinality(T) <= Cardinality(U)
  BY <1>2, <1>3, FS_Subset
<1> QED
  BY <1>2, <1>4, FS_CardinalityType

\* One visit has two submits under way at most, one of them at the deadline.
LEMMA TwoSubmits ==
  ASSUME TypeInv, SubmitsInv, NEW S \in SUBSET Pending, \A c \in S : c.to = "page"
  PROVE  IsFiniteSet(S) /\ Cardinality(S) \in Nat /\ Cardinality(S) <= 2
<1> DEFINE f == [c \in S |-> IF c.auto THEN 1 ELSE 0]
<1>1. \A c, d \in S : f[c] = f[d] => c = d
  <2> SUFFICES ASSUME NEW c \in S, NEW d \in S, f[c] = f[d] PROVE c = d
    OBVIOUS
  <2>1. c \in Pending /\ d \in Pending /\ c \in Call /\ d \in Call /\ c.to = "page" /\ d.to = "page"
    BY DEF Pending, TypeInv
  <2>2. c.auto \in BOOLEAN /\ d.auto \in BOOLEAN
    BY <2>1 DEF Call
  <2>3. c.auto = d.auto
    BY <2>2
  <2> QED
    BY <2>1, <2>3 DEF SubmitsInv
<1>2. IsFiniteSet(0..1) /\ Cardinality(0..1) = 2
  <2>1. 0 \in Int /\ 1 \in Int
    OBVIOUS
  <2>2. IsFiniteSet(0..1)
    BY <2>1, FS_Interval
  <2>3. Cardinality(0..1) = (IF 0 > 1 THEN 0 ELSE 1 - 0 + 1)
    BY <2>1, FS_Interval
  <2> QED
    BY <2>2, <2>3
<1>3. f \in Injection(S, 0..1)
  BY <1>1 DEF Injection, IsInjective
<1> HIDE DEF f
<1>4. IsFiniteSet(S) /\ Cardinality(S) <= Cardinality(0..1)
  BY <1>2, <1>3, FS_Injection
<1> QED
  BY <1>2, <1>4, FS_CardinalityType

LEMMA NextSubmits == TypeInv /\ WhereInv /\ CurrentInv /\ SubmitsInv /\ [Next]_vars => SubmitsInv'
<1> DEFINE Pending1 == {d \in calls' : d.op \in SubmitOps /\ d.at \in {"sent", "read"}}
           Reads1 == {d \in Pending1 : d.at = "read"}
           Theirs1 == {d \in Pending1 : d.to # "page"}
           Open1 == page'.view = "open"
           Before1 == IF Open1 THEN page'.opens - 1 ELSE page'.opens
<1> SUFFICES ASSUME TypeInv, WhereInv, CurrentInv, SubmitsInv, [Next]_vars
             PROVE  /\ IsFiniteSet(Pending1)
                    /\ Open1 => page'.opens > 0
                    /\ \A c, d \in Pending1 : c.to = "page" /\ d.to = "page" /\ c.auto = d.auto => c = d
                    /\ \A c \in Pending1 : c.to = "page" /\ c.auto => page'.armed = "fired"
                    /\ submits' = 0 => Cardinality(Theirs1) <= 2 * Before1
                    /\ submits' > 0 => submits' + Cardinality(Reads1) <= 2 * page'.opens
  BY DEF SubmitsInv, Pending, Reads, Theirs, Before, Open
<1>1. calls \in SUBSET Call /\ page \in Page /\ submits \in Nat /\ page.opens \in Nat
      /\ calls' \in SUBSET Call /\ page' \in Page /\ submits' \in Nat /\ page'.opens \in Nat
  BY NextTypes DEF TypeInv, Page
<1>2. PICK f : /\ Moves(f)
               /\ \/ submits' = submits
                  \/ /\ submits' = submits + 1 /\ page'.opens = page.opens /\ page'.view = page.view
                     /\ \E b \in Reads : f[b].at = "answered"
  BY SubmitMoves
<1> DEFINE Mine1 == {c \in Pending : c.to = "page"}
<1>3. ASSUME NEW d \in Pending1
      PROVE  \/ NewSubmit(d) /\ d.at = "sent"
             \/ \E c \in Pending : /\ d = f[c] /\ d.auto = c.auto
                                   /\ d.at = "read" => c.at = "read" \/ submits = 0
                                   /\ d.to = "page" => c.to = "page"
                                   /\ d.to # "page" => c.to # "page" \/ ~ Open1
  <2>1. CASE NewSubmit(d)
    <3>1. SubmitCall(page, TRUE).at = "sent" /\ SubmitCall(page, FALSE).at = "sent"
      BY DEF SubmitCall, NewCall
    <3> QED
      BY <2>1, <3>1 DEF NewSubmit
  <2>2. CASE ~ NewSubmit(d)
    <3>1. PICK c \in calls : d = f[c]
      BY <1>2, <2>2 DEF Moves
    <3>2. c.op \in SubmitOps /\ c.at \in {"sent", "read"}
      BY <1>2, <3>1 DEF Moves
    <3>3. c \in Pending
      BY <3>2 DEF Pending
    <3> QED
      BY <1>2, <3>1, <3>2, <3>3 DEF Moves
  <2> QED
    BY <2>1, <2>2
<1>4. \A c \in Mine1 : Open
  BY DEF WhereInv, Pending, SubmitOps
<1>5. \A c, d \in Mine1 : c.auto = d.auto => c = d
  BY DEF SubmitsInv
<1>6. IsFiniteSet(Mine1) /\ Cardinality(Mine1) \in Nat /\ Cardinality(Mine1) <= 2
  BY TwoSubmits
<1>7. /\ IsFiniteSet(Pending) /\ Cardinality(Pending) \in Nat
      /\ IsFiniteSet(Theirs) /\ Cardinality(Theirs) \in Nat
      /\ IsFiniteSet(Reads) /\ Cardinality(Reads) \in Nat /\ Cardinality(Reads) <= Cardinality(Pending)
  <2>1. IsFiniteSet(Pending) /\ Theirs \in SUBSET Pending /\ Reads \in SUBSET Pending
    BY DEF SubmitsInv, Theirs, Reads
  <2> QED
    BY <2>1, FS_Subset, FS_CardinalityType
<1>8. Cardinality(Pending) <= Cardinality(Theirs) + Cardinality(Mine1)
  <2>1. Pending = Theirs \cup Mine1
    BY DEF Theirs
  <2>2. Cardinality(Theirs \cap Mine1) \in Nat
    BY <1>7, FS_Intersection, FS_CardinalityType
  <2> HIDE DEF Mine1
  <2>3. Cardinality(Theirs \cup Mine1)
          = Cardinality(Theirs) + Cardinality(Mine1) - Cardinality(Theirs \cap Mine1)
    BY <1>6, <1>7, FS_Union
  <2> QED
    BY <1>6, <1>7, <2>1, <2>2, <2>3
<1>9. ~ Open => Cardinality(Mine1) = 0
  BY <1>4, FS_EmptySet
<1>10. IsFiniteSet(Pending1)
  <2> DEFINE Old == {d \in Pending1 : \E c \in Pending : d = f[c]}
             New1 == {SubmitCall(page, TRUE), SubmitCall(page, FALSE)}
  <2>1. IsFiniteSet(Old)
    BY <1>7, ImageBound
  <2>2. IsFiniteSet((Old \cup {SubmitCall(page, TRUE)}) \cup {SubmitCall(page, FALSE)})
    BY <2>1, FS_AddElement
  <2>3. Pending1 \in SUBSET ((Old \cup {SubmitCall(page, TRUE)}) \cup {SubmitCall(page, FALSE)})
    BY <1>3 DEF NewSubmit
  <2> HIDE DEF Old, Pending1
  <2> QED
    BY <2>2, <2>3, FS_Subset
<1>11. Open1 => page'.opens > 0
  <2>1. \/ Open /\ page'.opens = page.opens
        \/ page'.opens = page.opens + 1
        \/ ~ Open1
    BY VisitMoves DEF Open
  <2> QED
    BY <1>1, <2>1 DEF SubmitsInv
<1>12. ASSUME NEW c \in Pending1, NEW d \in Pending1, c.to = "page", d.to = "page", c.auto = d.auto
       PROVE  c = d
  <2>1. CASE NewSubmit(c) /\ NewSubmit(d)
    <3>1. SubmitCall(page, TRUE).auto /\ ~ SubmitCall(page, FALSE).auto
      BY DEF SubmitCall, NewCall
    <3>2. c = SubmitCall(page, FALSE) \/ c = SubmitCall(page, TRUE)
      BY <2>1 DEF NewSubmit
    <3>3. d = SubmitCall(page, FALSE) \/ d = SubmitCall(page, TRUE)
      BY <2>1 DEF NewSubmit
    <3>4. c.auto <=> d.auto
      BY <1>12
    <3>5. CASE c = SubmitCall(page, FALSE)
      <4>1. d # SubmitCall(page, TRUE)
        BY <3>1, <3>4, <3>5
      <4> QED
        BY <3>3, <3>5, <4>1
    <3>6. CASE c = SubmitCall(page, TRUE)
      <4>1. d # SubmitCall(page, FALSE)
        BY <3>1, <3>4, <3>6
      <4> QED
        BY <3>3, <3>6, <4>1
    <3> QED
      BY <3>2, <3>5, <3>6
  <2>2. ASSUME NEW g \in Pending1, NEW h \in Pending1, NewSubmit(g), ~ NewSubmit(h),
               g.to = "page", h.to = "page", g.auto = h.auto
        PROVE  FALSE
    <3>1. PICK b \in Pending : b.auto = h.auto /\ b.to = "page"
      BY <1>3, <2>2
    <3>2. ~ ConfirmSubmit
      BY <3>1 DEF ConfirmSubmit, Submitting, Pending
    <3>3. AutoSubmit /\ g = SubmitCall(page, TRUE)
      BY <2>2, <3>2 DEF NewSubmit
    <3>4. b.auto = TRUE
      BY <2>2, <3>1, <3>3 DEF SubmitCall, NewCall
    <3>5. page.armed = "fired"
      BY <3>1, <3>4 DEF SubmitsInv
    <3> QED
      BY <3>3, <3>5 DEF AutoSubmit
  <2>3. CASE ~ NewSubmit(c) /\ ~ NewSubmit(d)
    <3>1. PICK a \in Pending : c = f[a] /\ a.auto = c.auto /\ a.to = "page"
      BY <1>3, <1>12, <2>3
    <3>2. PICK b \in Pending : d = f[b] /\ b.auto = d.auto /\ b.to = "page"
      BY <1>3, <1>12, <2>3
    <3> QED
      BY <1>5, <1>12, <3>1, <3>2
  <2> QED
    BY <1>12, <2>1, <2>2, <2>3
<1>13. ASSUME NEW c \in Pending1, c.to = "page", c.auto PROVE page'.armed = "fired"
  <2>1. CASE NewSubmit(c)
    <3>1. SubmitCall(page, FALSE).auto = FALSE
      BY DEF SubmitCall, NewCall
    <3>2. AutoSubmit
      BY <1>13, <2>1, <3>1 DEF NewSubmit
    <3> QED
      BY <1>1, <3>2 DEF AutoSubmit, Page
  <2>2. CASE ~ NewSubmit(c)
    <3>1. PICK b \in Pending : b.auto = c.auto /\ b.to = "page"
      BY <1>3, <1>13, <2>2
    <3>2. page.armed = "fired" /\ Open
      BY <1>4, <1>13, <3>1 DEF SubmitsInv
    <3> QED
      BY <3>2, VisitMoves
  <2> QED
    BY <2>1, <2>2
<1>14. page'.opens >= page.opens
  BY <1>1, VisitMoves
<1>15. ASSUME submits' = submits, submits > 0
       PROVE  submits' + Cardinality(Reads1) <= 2 * page'.opens
  <2>1. \A d \in Reads1 : \E c \in Reads : d = f[c]
    BY <1>3, <1>15 DEF Reads
  <2> HIDE DEF Reads1
  <2>2. Cardinality(Reads1) \in Nat /\ Cardinality(Reads1) <= Cardinality(Reads)
    BY <1>7, <2>1, ImageBound
  <2>3. submits + Cardinality(Reads) <= 2 * page.opens
    BY <1>15 DEF SubmitsInv
  <2> QED
    BY <1>1, <1>7, <1>14, <1>15, <2>2, <2>3
<1>16. ASSUME submits' = 0 PROVE Cardinality(Theirs1) <= 2 * Before1
  <2>1. submits = 0
    BY <1>1, <1>2, <1>16
  <2>2. Cardinality(Theirs) <= 2 * Before
    BY <2>1 DEF SubmitsInv
  <2>3. ASSUME NEW d \in Theirs1 PROVE \E c \in Pending : d = f[c] /\ (c \in Theirs \/ ~ Open1)
    <3>1. ~ NewSubmit(d)
      BY DEF NewSubmit
    <3> QED
      BY <1>3, <3>1 DEF Theirs
  <2>4. CASE Open1 \/ ~ Open
    <3>1. \A d \in Theirs1 : \E c \in Theirs : d = f[c]
      BY <1>4, <2>3, <2>4 DEF Theirs
    <3>2. Before1 = Before
      BY <1>1, <2>4, VisitMoves DEF Before, Open
    <3> HIDE DEF Theirs1, Before1
    <3>3. Cardinality(Theirs1) \in Nat /\ Cardinality(Theirs1) <= Cardinality(Theirs)
      BY <1>7, <3>1, ImageBound
    <3> QED
      BY <1>1, <1>7, <2>2, <3>2, <3>3 DEF Before
  <2>5. CASE ~ Open1 /\ Open
    <3>1. \A d \in Theirs1 : \E c \in Pending : d = f[c]
      BY <2>3
    <3>2. Before1 = Before + 1
      BY <1>1, <2>5, VisitMoves DEF Before, Open
    <3> HIDE DEF Theirs1, Before1, Mine1
    <3>3. Cardinality(Theirs1) \in Nat /\ Cardinality(Theirs1) <= Cardinality(Pending)
      BY <1>7, <3>1, ImageBound
    <3>4. Before \in Int
      BY <1>1 DEF Before
    <3> QED
      BY <1>6, <1>7, <1>8, <2>2, <3>2, <3>3, <3>4
  <2> QED
    BY <2>4, <2>5
<1>17. ASSUME NEW b \in Reads, f[b].at = "answered", submits' = submits + 1, page'.opens = page.opens
       PROVE  submits' + Cardinality(Reads1) <= 2 * page'.opens
  <2>1. IsFiniteSet(Reads \ {b}) /\ Cardinality(Reads \ {b}) = Cardinality(Reads) - 1
    BY <1>7, FS_RemoveElement
  <2>2. CASE submits > 0
    <3>1. ASSUME NEW d \in Reads1 PROVE \E c \in Reads \ {b} : d = f[c]
      BY <1>3, <1>17, <2>2 DEF Reads
    <3> HIDE DEF Reads1
    <3>2. Cardinality(Reads1) \in Nat /\ Cardinality(Reads1) <= Cardinality(Reads \ {b})
      BY <2>1, <3>1, ImageBound
    <3>3. submits + Cardinality(Reads) <= 2 * page.opens
      BY <2>2 DEF SubmitsInv
    <3> QED
      BY <1>1, <1>7, <1>17, <2>1, <3>2, <3>3
  <2>3. CASE submits = 0
    <3>1. b \in Pending
      BY DEF Reads
    <3>2. IsFiniteSet(Pending \ {b}) /\ Cardinality(Pending \ {b}) = Cardinality(Pending) - 1
      BY <1>7, <3>1, FS_RemoveElement
    <3>3. ASSUME NEW d \in Reads1 PROVE \E c \in Pending \ {b} : d = f[c]
      BY <1>3, <1>17
    <3> HIDE DEF Reads1, Mine1
    <3>4. Cardinality(Reads1) \in Nat /\ Cardinality(Reads1) <= Cardinality(Pending \ {b})
      BY <3>2, <3>3, ImageBound
    <3>5. Cardinality(Theirs) <= 2 * Before
      BY <2>3 DEF SubmitsInv
    <3>6. Cardinality(Pending) <= 2 * page.opens
      BY <1>1, <1>6, <1>7, <1>8, <1>9, <3>5 DEF Before
    <3> QED
      BY <1>1, <1>7, <1>17, <2>3, <3>2, <3>4, <3>6
  <2> QED
    BY <1>1, <2>2, <2>3
<1>18. submits' > 0 => submits' + Cardinality(Reads1) <= 2 * page'.opens
  BY <1>1, <1>2, <1>15, <1>17
<1> QED
  BY <1>10, <1>11, <1>12, <1>13, <1>16, <1>18


----------------------------------------------------------------------------
(***************************************************************************)
(* The inductive invariant.  The parts that need others: OptimismInv       *)
(* needs RowsInv (what the answer of a lock says), KnowsInv and DraftInv   *)
(* also need WhereInv (whom an answer reaches), SubmitsInv needs           *)
(* CurrentInv and WhereInv; TypeInv is under them all.                     *)
(***************************************************************************)
PageInv ==
  /\ TypeInv /\ RowsInv /\ SeenInv /\ OptimismInv /\ WhereInv
  /\ KnowsInv /\ DraftInv /\ CurrentInv /\ SubmitsInv

\* A page that was never opened has nothing under way.
LEMMA InitPage == Init => PageInv
<1> SUFFICES ASSUME Init PROVE PageInv
  OBVIOUS
<1>1. /\ row = NoRow /\ submits = 0 /\ calls = {} /\ ~ news /\ ~ behind
      /\ page.view = "closed" /\ page.opens = 0 /\ page.data = NoRow /\ ~ page.timer
  BY DEF Init
<1>2. ~ Open
  BY <1>1 DEF Open
<1>3. RowsInv
  BY <1>1 DEF RowsInv, RowKnown, NoRow
<1>4. SeenInv /\ OptimismInv /\ DraftInv
  BY <1>2 DEF SeenInv, OptimismInv, DraftInv, Unsaved
<1>5. WhereInv /\ CurrentInv
  BY <1>1 DEF WhereInv, CurrentInv, Mine
<1>6. KnowsInv
  BY <1>1 DEF KnowsInv, Mine
<1>7. SubmitsInv
  <2>1. Pending = {} /\ Theirs = {}
    BY <1>1 DEF Pending, Theirs
  <2>2. IsFiniteSet(Pending) /\ Cardinality(Theirs) = 0
    BY <2>1, FS_EmptySet
  <2>3. Before = 0
    BY <1>1, <1>2 DEF Before
  <2> QED
    BY <1>1, <1>2, <2>1, <2>2, <2>3 DEF SubmitsInv
<1> QED
  BY <1>3, <1>4, <1>5, <1>6, <1>7, InitTypes DEF PageInv

\* Every step keeps each part.
LEMMA NextPage == PageInv /\ [Next]_vars => PageInv'
BY NextTypes, NextRows, NextSeen, NextOptimism, NextWhere, NextKnows, NextDraft, NextCurrent, NextSubmits
   DEF PageInv

\* Whatever happens, the invariant holds.
LEMMA PageInvariance == Spec => []PageInv
<1>1. Init => PageInv
  BY InitPage
<1>2. PageInv /\ [Next]_vars => PageInv'
  BY NextPage
<1> QED
  BY <1>1, <1>2, PTL DEF Spec

----------------------------------------------------------------------------
(***************************************************************************)
(* The theorems.                                                           *)
(***************************************************************************)
\* Every variable of the page, the calls and the attempt keeps its type, and a
\* visit of the page adds two submit rows at most: the one the student has
\* confirmed and the one of the deadline timer.
THEOREM PageTypeCorrect == Spec => []TypeOK
<1>1. ASSUME PageInv PROVE TypeOK
  <2>1. scenario \in Scenario /\ TypeInv /\ SubmitsInv
    BY <1>1, PageAssumption DEF PageInv, TypeInv
  <2>2. scenario.opens \in Nat /\ page.opens \in Nat /\ page.opens <= scenario.opens /\ submits \in Nat
    BY <2>1 DEF TypeInv, Scenario, Page
  <2>3. Cardinality(Reads) \in Nat
    <3>1. IsFiniteSet(Pending) /\ Reads \in SUBSET Pending
      BY <2>1 DEF SubmitsInv, Reads
    <3> QED
      BY <3>1, FS_Subset, FS_CardinalityType
  <2>4. submits > 0 => submits + Cardinality(Reads) <= 2 * page.opens
    BY <2>1 DEF SubmitsInv
  <2>5. submits \in 0..(2 * scenario.opens)
    BY <2>2, <2>3, <2>4
  <2> QED
    BY <2>1, <2>5 DEF TypeInv, TypeOK
<1> QED
  BY <1>1, PageInvariance, PTL

\* A page at rest that was told of every change shows the status the attempt
\* has on the server: no answer overtaken by a later change, none of its own
\* locks and no event leaves a stale status in the cache.
THEOREM QuietPageKnowsAlways == Spec => []QuietPageKnows
<1>1. ASSUME PageInv PROVE QuietPageKnows
  <2> SUFFICES ASSUME Settled, ~ behind, page.data.status # "LOCKED", ~ page.overruled
               PROVE  page.data.status = row.status
    BY DEF QuietPageKnows
  <2>1. ~ news /\ Open /\ Mine("get") = {}
    BY DEF Settled
  <2>2. ~ Late
    BY DEF Settled, Late, LateCall, SubmitOps
  <2>3. ~ Wrong(page.data.status)
    BY <1>1, <2>1, <2>2 DEF PageInv, KnowsInv, Excused, Open
  <2> QED
    BY <2>3 DEF Wrong
<1> QED
  BY <1>1, PageInvariance, PTL

\* A page at rest has saved what is in the form, whatever drafts the one-place
\* queue has skipped and whatever has overtaken what.
THEOREM SettledDraftSavedAlways == Spec => []SettledDraftSaved
<1>1. ASSUME PageInv PROVE SettledDraftSaved
  <2> SUFFICES ASSUME Settled, ~ behind, "save" \notin scenario.fails, Editable(page)
               PROVE  row.draft = page.rows
    BY DEF SettledDraftSaved
  <2>1. Open /\ ~ page.fresh /\ ~ page.timer /\ ~ news /\ Mine("get") = {} /\ Mine("save") = {}
    BY DEF Settled, Mine
  <2>2. ~ page.dirty /\ page.data.status = "ACTIVE" /\ ~ AttemptLocked(page)
    BY <1>1, <2>1 DEF PageInv, SeenInv, Editable
  <2>3. ~ Late
    BY DEF Settled, Late, LateCall, SubmitOps
  <2>4. ~ Wrong("ACTIVE")
    BY <1>1, <2>1, <2>2, <2>3 DEF PageInv, KnowsInv, Excused, Open
  <2>5. row.status = "ACTIVE"
    BY <2>4 DEF Wrong
  <2>6. ~ Told /\ ~ Queued /\ ~ Saving
    BY <2>1 DEF Told, Queued, Saving
  <2>7. ~ Unsaved
    BY <1>1, <2>2, <2>6 DEF PageInv, DraftInv
  <2> QED
    BY <2>1, <2>2, <2>5, <2>7 DEF Unsaved, AttemptLocked
<1> QED
  BY <1>1, PageInvariance, PTL

\* A page at rest shows an active attempt as locked only when a locked status
\* was replaced before it was rendered.
THEOREM OptimismEndsAlways == Spec => []OptimismEnds
<1>1. ASSUME PageInv PROVE OptimismEnds
  BY <1>1 DEF PageInv, OptimismInv, OptimismEnds, Settled, Mine
<1> QED
  BY <1>1, PageInvariance, PTL

\* The page is left or closed with an editable attempt only when a lock of it,
\* or a submit, is on its way.
THEOREM LeavesLockedAlways == Spec => LeavesLocked
<1> DEFINE Locked == \/ \E c \in calls' : c.op \in {"lock", "beacon"}
                     \/ \E c \in calls : c.to # "nobody" /\ c.op \in {"lock"} \cup SubmitOps
<1>1. ASSUME PageInv, [Next]_vars, Open, page'.view # "open", Editable(page) PROVE Locked
  <2>1. Mine("lock") # {} => Locked
    BY DEF Mine
  <2>2. \/ Close \/ Navigate \/ \E c \in calls : LockAnswerLeaves(c) \/ SubmitAnswer(c)
    BY <1>1, NotOpenMoves DEF PageInv, Open
  <2>3. ASSUME Close PROVE Locked
    <3>1. CASE Blocks
      <4>1. BeaconCall(page.rows) \in calls'
        BY <2>3, <3>1 DEF Close
      <4>2. BeaconCall(page.rows).op = "beacon"
        BY DEF BeaconCall, NewCall
      <4> QED
        BY <4>1, <4>2
    <3>2. CASE ~ Blocks
      BY <1>1, <2>1, <3>2 DEF Blocks
    <3> QED
      BY <3>1, <3>2
  <2>4. ASSUME Navigate PROVE Locked
    BY <1>1, <2>1, <2>4 DEF Navigate, Held, Blocks
  <2>5. ASSUME NEW c \in calls, LockAnswerLeaves(c) \/ SubmitAnswer(c) PROVE Locked
    BY <2>5 DEF LockAnswerLeaves, SubmitAnswer
  <2> QED
    BY <2>2, <2>3, <2>4, <2>5
<1>2. PageInv /\ [Next]_vars
        => [Open /\ page'.view # "open" /\ Editable(page) => Locked]_vars
  BY <1>1
<1> HIDE DEF Locked
<1>3. Spec => [][Open /\ page'.view # "open" /\ Editable(page) => Locked]_vars
  BY <1>2, PageInvariance, PTL DEF Spec
<1> QED
  BY <1>3 DEF LeavesLocked, Locked

===============================================================================
