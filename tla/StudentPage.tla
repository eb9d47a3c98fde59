----------------------------- MODULE StudentPage -----------------------------
(***************************************************************************)
(* The page on which a student works on an assignment                      *)
(* (StudentAssignmentSubmission.tsx) together with one attempt on the      *)
(* server: autosaves through a one-place queue, locks on blur, navigation  *)
(* and unload, the events and polls that refresh the cached attempt, the   *)
(* submit at the deadline.  Calls and answers travel on their own: any     *)
(* call may overtake any other.                                            *)
(*                                                                         *)
(* Server handlers are two steps, the read with its checks and the save    *)
(* (create-or-get and reopen are one here; AttemptApi splits them).        *)
(* Time is abstract: a timer may fire whenever it is set.                  *)
(***************************************************************************)
EXTENDS Naturals, FiniteSets

CONSTANTS
  Contents,     \* what the form can hold
  Blank,        \* the empty form
  NoDraft,      \* DraftJson is null
  Scenarios     \* what may happen in a behaviour, and its bounds

AllActs == {"type", "reset", "blur", "navigate", "close", "submit", "tick"}

AllOps == {"get", "save", "lock", "beacon", "submit", "blind"}

\* acts: what the student and the clock do; contents: what is typed; opens,
\* reopens: how often the page is opened and the attempt reopened; drops: the
\* hub connection may break; fails: the calls that, or whose answers, may be
\* lost; leaves: the visits that may end in a navigation of the student;
\* hasty: the student submits only before the first page shows the attempt,
\* and leaves that page only so.
Scenario == [acts : SUBSET AllActs, contents : SUBSET Contents, opens : Nat, reopens : Nat, leaves : Nat,
             drops : BOOLEAN, fails : SUBSET AllOps, hasty : BOOLEAN]

ASSUME PageAssumption ==
  /\ Blank \in Contents /\ NoDraft \notin Contents
  /\ Scenarios \subseteq Scenario

VARIABLES
  scenario, \* which of the scenarios this behaviour is one of
  row,      \* the attempt as stored
  submits,  \* how many submit rows the assignment has
  window,   \* "open", "closing" (the last second) or "over"
  reopens,  \* ReopenCount of the attempt
  calls,    \* the calls under way
  news,     \* an AttemptChanged event is on its way to the page
  page,     \* the component and its cached attempt
  behind    \* history: did the attempt change with no event on its way to the
            \* page, or a call or an invalidation get lost, and no read since?

vars == << scenario, row, submits, window, reopens, calls, news, page, behind >>

server == << scenario, row, submits, window, reopens >>

Drafts == Contents \cup {NoDraft}

Statuses == {"NONE", "ACTIVE", "LOCKED", "SUBMITTED"}

\* The part of CreateAssignmentSubmissionAttemptRes the page uses.
Row == [status : Statuses, draft : Drafts]

NoRow == [status |-> "NONE", draft |-> NoDraft]

(***************************************************************************)
(* A call.  "to" is who takes the answer: the mounted page, only the query *)
(* cache (the page was left), or nobody.  row is what its handler loaded,  *)
(* later its answer, current while nobody has written the attempt since;   *)
(* next is the payload a save leaves in the queue of a page that is gone.  *)
(***************************************************************************)
Call == [op    : {"get", "save", "lock", "beacon", "submit", "blind"},
         to    : {"page", "cache", "nobody"},
         at    : {"sent", "read", "answered", "refused"},
         draft : Drafts,
         row   : Row,
         next  : Drafts,
         auto  : BOOLEAN,
         current : BOOLEAN]

NewCall(op, to, d) == [op |-> op, to |-> to, at |-> "sent", draft |-> d,
                       row |-> NoRow, next |-> NoDraft, auto |-> FALSE, current |-> FALSE]

\* POST create-or-get-assignment-attempt.
GetCall == NewCall("get", "page", NoDraft)
\* PUT save-assignment-attempt-draft.
SaveCall(d) == NewCall("save", "page", d)
\* POST lock-assignment-attempt.
LockCall(d) == NewCall("lock", "page", d)
\* The same, sent with keepalive by a page that is going away.
BeaconCall(d) == NewCall("beacon", "nobody", d)

\* POST submit-...-assignment: until the attempt is known, without its id.
SubmitOps == {"submit", "blind"}
SubmitCall(p, auto) ==
  [NewCall(IF p.data = NoRow THEN "blind" ELSE "submit", "page", p.rows) EXCEPT !.auto = auto]

\* The calls of kind op whose answer the mounted page waits for.
Mine(op) == {c \in calls : c.op = op /\ c.to = "page"}

(***************************************************************************)
(* The component: data is the cached attempt, current as above, invalid    *)
(* until it is fetched again; seen is what the closures of the last render *)
(* know; dirty: a dependency of the autosave effect has changed since;     *)
(* fresh: a render is due.  queued and timer are the save queue, armed the *)
(* deadline timer.  Two of history: missed, a new status was replaced by   *)
(* the one rendered last, before it was rendered itself; overruled, the    *)
(* cache was given the submitted attempt a lock had found, though another  *)
(* lock had undone that since.                                             *)
(***************************************************************************)
Page == [view       : {"closed", "open", "away"},
         opens      : Nat,
         rows       : Contents,
         hydrated   : BOOLEAN,
         data       : Row,
         current    : BOOLEAN,
         invalid    : BOOLEAN,
         seen       : [status : Statuses, locked : BOOLEAN, busy : BOOLEAN],
         dirty      : BOOLEAN,
         fresh      : BOOLEAN,
         optimistic : BOOLEAN,
         queued     : Drafts,
         timer      : BOOLEAN,
         blocking   : BOOLEAN,
         hub        : {"none", "subscribed", "dropped"},
         armed      : {"no", "yes", "fired"},
         missed     : BOOLEAN,
         overruled  : BOOLEAN]

\* A component that has just mounted, over what is cached.
Mounted(p) ==
  [p EXCEPT !.view = "open", !.rows = Blank, !.hydrated = FALSE,
            !.seen = [status |-> "NONE", locked |-> FALSE, busy |-> FALSE],
            !.dirty = TRUE, !.fresh = TRUE, !.optimistic = FALSE,
            !.queued = NoDraft, !.timer = FALSE, !.blocking = FALSE,
            !.hub = "none", !.armed = "no", !.missed = FALSE]

\* Unmounting clears the save timer and stops the connection.
Unmounted(p, view) ==
  [p EXCEPT !.view = view, !.queued = NoDraft, !.timer = FALSE, !.blocking = FALSE,
            !.fresh = FALSE, !.dirty = FALSE, !.hub = "none"]

Open == page.view = "open"

\* attemptLocked, from the current state.
AttemptLocked(p) == p.data.status = "LOCKED" \/ p.optimistic

\* What the closures of the last render let the student do.
Editable(p)  == p.seen.status = "ACTIVE" /\ ~ p.seen.locked
CanSubmit(p) == p.seen.status # "SUBMITTED" /\ ~ p.seen.locked

\* submitAssignmentMutation.isPending || lockAttemptMutation.isPending
Submitting == \E c \in calls : c.to = "page" /\ c.op \in SubmitOps \cup {"lock"}

----------------------------------------------------------------------------
(***************************************************************************)
(* The server.                                                             *)
(***************************************************************************)
\* A save of a partial update: an unchanged column is not written.
Write(stored, loaded, new) == IF new = loaded THEN stored ELSE new

\* A call whose sender is gone leaves behind the save it had queued.
After(c) == IF c.op = "save" /\ c.next # NoDraft
              THEN {[NewCall("save", "nobody", c.next) EXCEPT !.next = NoDraft]}
              ELSE {}

\* The handler of c is done and leaves cs.
Answered(c, cs, at, r, current) ==
  (cs \ {c}) \cup
    (IF c.to = "nobody" THEN After(c)
     ELSE {[c EXCEPT !.at = at, !.row = r, !.draft = NoDraft, !.current = current]})

\* Every save sets LastActivityAt: what was read before is another answer.
Outdated(cs) == {[c EXCEPT !.current = FALSE] : c \in cs}

\* The handler of c has saved: the attempt is new, its own answer too.
Saved(c, r) ==
  /\ calls' = Answered(c, Outdated(calls) \cup {c}, "answered", r, r # NoRow)
  /\ page' = [page EXCEPT !.current = FALSE]

\* AttemptChanged is sent to the subscribers of the assignment.
Heard == Open /\ page.hub = "subscribed"

Publish ==
  /\ news' = (news \/ Heard)
  /\ behind' = (behind \/ ~ Heard)

Reaches(c, op) == c.op = op /\ c.at = "sent"

Refuse(c) ==
  /\ calls' = Answered(c, calls, "refused", NoRow, FALSE)
  /\ UNCHANGED << server, news, page, behind >>

Loaded(c) ==
  /\ calls' = (calls \ {c}) \cup {[c EXCEPT !.at = "read", !.row = row]}
  /\ UNCHANGED << server, news, page, behind >>

\* CreateOrGetAttempt: what is there is returned, whatever its status.
Refused == window = "over" \/ (row.status = "NONE" /\ submits > 0)

ServeGet(c) ==
  LET r == IF row.status = "NONE" THEN [NoRow EXCEPT !.status = "ACTIVE"] ELSE row IN
  /\ Reaches(c, "get")
  /\ ~ Refused
  /\ row' = r
  /\ calls' = Answered(c, calls, "answered", r, TRUE)
  /\ behind' = (behind /\ c.to # "page")
  /\ UNCHANGED << scenario, submits, window, reopens, news, page >>

RefuseGet(c) == Reaches(c, "get") /\ Refused /\ Refuse(c)

LoadSave(c) ==
  /\ Reaches(c, "save")
  /\ IF row.status \in {"LOCKED", "SUBMITTED"} THEN Refuse(c) ELSE Loaded(c)

StoreSave(c) ==
  /\ c.op = "save" /\ c.at = "read"
  /\ row' = [row EXCEPT !.draft = Write(@, c.row.draft, c.draft),
                        !.status = Write(@, c.row.status, "ACTIVE")]
  /\ Saved(c, NoRow)
  /\ Publish
  /\ UNCHANGED << scenario, submits, window, reopens >>

\* A submitted attempt is returned as it is.
LoadLock(c) ==
  /\ c.op \in {"lock", "beacon"} /\ c.at = "sent"
  /\ IF row.status = "SUBMITTED"
       THEN calls' = Answered(c, calls, "answered", row, TRUE) /\ UNCHANGED << server, news, page, behind >>
       ELSE Loaded(c)

StoreLock(c) ==
  /\ c.op \in {"lock", "beacon"} /\ c.at = "read"
  /\ row' = [row EXCEPT !.draft = Write(@, c.row.draft, c.draft),
                        !.status = Write(@, c.row.status, "LOCKED")]
  /\ Saved(c, [status |-> "LOCKED", draft |-> c.draft])
  /\ Publish
  /\ UNCHANGED << scenario, submits, window, reopens >>

\* Without an attempt id neither its lock nor its status is tested.
LoadSubmit(c) ==
  /\ c.op \in SubmitOps /\ c.at = "sent"
  /\ IF \/ window = "over" \/ submits > 0
        \/ c.op = "submit" /\ row.status # "ACTIVE"
       THEN Refuse(c) ELSE Loaded(c)

\* No event is published.
StoreSubmit(c) ==
  /\ c.op \in SubmitOps /\ c.at = "read"
  /\ row' = IF c.op = "blind" THEN row
            ELSE [row EXCEPT !.draft = c.draft,
                             !.status = Write(@, c.row.status, "SUBMITTED")]
  /\ submits' = submits + 1
  /\ Saved(c, NoRow)
  /\ behind' = (behind \/ c.to = "nobody")
  /\ UNCHANGED << scenario, window, reopens, news >>

Reopen ==
  /\ row.status \in {"ACTIVE", "LOCKED"}
  /\ reopens < scenario.reopens
  /\ row' = [row EXCEPT !.status = "ACTIVE"]
  /\ reopens' = reopens + 1
  /\ calls' = Outdated(calls)
  /\ page' = [page EXCEPT !.current = FALSE]
  /\ Publish
  /\ UNCHANGED << scenario, submits, window >>

Tick ==
  /\ "tick" \in scenario.acts
  /\ window' = IF window = "open" THEN "closing" ELSE "over"
  /\ window # "over"
  /\ UNCHANGED << scenario, row, submits, reopens, calls, news, page, behind >>

\* The call, or its answer, is lost: the page sees an error.
Lose(c) ==
  /\ c.op \in scenario.fails
  /\ c.at # "refused"
  /\ calls' = Answered(c, calls, "refused", NoRow, FALSE)
  /\ behind' = TRUE
  /\ UNCHANGED << server, news, page >>

----------------------------------------------------------------------------
(***************************************************************************)
(* The component.  A render commits what the closures will see and runs    *)
(* the effects in their order: the optimistic lock is reset, the draft is  *)
(* hydrated (once), the rows as they were rendered are queued for a save.  *)
(***************************************************************************)
\* Mutant: a reopened attempt does not end the optimistic lock.
UnlocksWhenSubmitted(p) == p.data.status # p.seen.status /\ p.data.status = "SUBMITTED"

\* useEffect([attemptData?.status])
UnlocksOptimism(p) ==
  p.data.status # p.seen.status /\ p.data.status \in {"ACTIVE", "SUBMITTED"}

\* useEffect([attemptData, ...]): the draft replaces what is in the form.
Hydrates(p) == ~ p.hydrated /\ p.data # NoRow

\* Mutant: an attempt without a draft empties the form.
HydratedAnyway(p) == IF Hydrates(p) THEN p.data.draft ELSE p.rows

HydratedRows(p) ==
  IF Hydrates(p) /\ p.data.draft # NoDraft THEN p.data.draft ELSE p.rows

\* The autosave effect.
Enqueues(p) ==
  p.dirty /\ p.data # NoRow /\ ~ AttemptLocked(p) /\ p.data.status # "SUBMITTED"

ArmedBy(p, busy) ==
  IF p.armed = "fired" THEN "fired"
  ELSE IF AttemptLocked(p) \/ p.data.status = "SUBMITTED" \/ busy THEN "no" ELSE "yes"

Rendered(p, busy) ==
  LET again == HydratedRows(p) # p.rows \/ (UnlocksOptimism(p) /\ p.optimistic) IN
  [p EXCEPT !.seen = [status |-> p.data.status, locked |-> AttemptLocked(p),
                      busy |-> busy],
            !.optimistic = @ /\ ~ UnlocksOptimism(p),
            !.hydrated = @ \/ Hydrates(p),
            !.rows = HydratedRows(p),
            !.queued = IF Enqueues(p) THEN p.rows ELSE @,
            !.timer = @ \/ Enqueues(p),
            !.armed = ArmedBy(p, busy),
            !.dirty = again,
            !.fresh = again]

Render ==
  /\ Open /\ page.fresh
  /\ page' = Rendered(page, Submitting)
  /\ UNCHANGED << server, calls, news, behind >>

\* flushQueuedSave: one save at a time.
Flush(cs) ==
  IF Mine("save") = {} /\ page.queued # NoDraft
    THEN /\ calls' = cs \cup {SaveCall(page.queued)}
         /\ page' = [page EXCEPT !.timer = FALSE, !.queued = NoDraft]
    ELSE calls' = cs /\ page' = [page EXCEPT !.timer = FALSE]

Timer ==
  /\ page.timer
  /\ Flush(calls)
  /\ UNCHANGED << server, news, behind >>

\* lockNow: nothing is sent while a lock is under way.
Locking(cs) == calls' = cs \cup {LockCall(page.rows)}

Optimistic(p) == Rendered([p EXCEPT !.optimistic = TRUE, !.dirty = TRUE], TRUE)

\* Mutant: only a page with unsaved rows is locked when it is left.
BlocksUnsaved == Editable(page) /\ Mine("lock") = {} /\ page.queued # NoDraft

\* The blocker: a navigation away from an editable attempt locks it first.
Blocks == Editable(page) /\ Mine("lock") = {}

\* Navigations that come while an editable page waits for that lock are held.
Held == Blocks \/ (page.blocking /\ Editable(page))

----------------------------------------------------------------------------
(***************************************************************************)
(* What comes back to the page.                                            *)
(***************************************************************************)
Ends(c) == calls' = calls \ {c}

\* The attempt query is given the answer of c: the same object only when it is
\* equal to the last one and nobody has written the attempt in between.
Given(p, c) ==
  LET q == [p EXCEPT !.data = c.row, !.current = c.current, !.invalid = FALSE,
                     !.overruled = c.op = "lock" /\ c.row.status = "SUBMITTED" /\ row.status # "SUBMITTED"] IN
  IF p.view # "open" THEN q
  ELSE [q EXCEPT !.dirty = @ \/ c.row # p.data \/ ~ (c.current /\ p.current),
                 !.fresh = TRUE,
                 !.missed = @ \/ (p.data.status # p.seen.status /\ c.row.status = p.seen.status)]

\* Mutant: a get in flight is left to answer for the new one.
RefetchLazily(cs) == IF Mine("get") = {} THEN cs \cup {GetCall} ELSE cs

\* invalidateQueries: a get in flight is cancelled and a new one is sent; only
\* the first one, before there is any data, is left to answer.
Refetch(cs) ==
  IF page.data = NoRow /\ Mine("get") # {} THEN cs
  ELSE (cs \ Mine("get")) \cup {GetCall}

\* That first one may have been answered before what it is to bring.
TooEarly == page.data = NoRow /\ \E c \in Mine("get") : c.at # "sent"

GetAnswer(c) ==
  /\ c.op = "get" /\ c.to = "page" /\ c.at = "answered"
  /\ page' = Given(page, c)
  /\ Ends(c)
  /\ UNCHANGED << server, news, behind >>

\* There is no retry, the data stays.
GetRefused(c) ==
  /\ c.op = "get" /\ c.to = "page" /\ c.at = "refused"
  /\ behind' = TRUE
  /\ Ends(c)
  /\ UNCHANGED << server, news, page >>

\* Mutant: nothing is scheduled after a save.
SaveForgotten(p) == p

\* The finally block of flushQueuedSave: what was queued meanwhile is next.
SaveSettled(p) == [p EXCEPT !.timer = @ \/ p.queued # NoDraft]

SaveDone(c) ==
  /\ c.op = "save" /\ c.to = "page" /\ c.at \in {"answered", "refused"}
  /\ page' = SaveSettled(page)
  /\ Ends(c)
  /\ UNCHANGED << server, news, behind >>

(***************************************************************************)
(* The page leaves for another one of the client.  What it had sent goes   *)
(* on without it: locks and submits still reach the cache, a save is       *)
(* followed by the one it had queued, unless the timer was set: cleared,   *)
(* it still counts as set.                                                 *)
(***************************************************************************)
Orphan(c) ==
  IF c.to # "page" \/ c.op = "get" THEN {c}
  ELSE IF c.op \in {"lock"} \cup SubmitOps THEN {[c EXCEPT !.to = "cache"]}
  ELSE LET left == [c EXCEPT !.to = "nobody",
                             !.next = IF c.op = "save" /\ ~ page.timer THEN page.queued ELSE @]
       IN IF c.at \in {"sent", "read"} THEN {left} ELSE After(left)

Away(cs, missed) ==
  /\ calls' = UNION {Orphan(c) : c \in cs}
  /\ page' = Unmounted(page, "away")
  /\ news' = FALSE
  /\ behind' = (behind \/ news \/ missed)
  /\ UNCHANGED server

\* onSuccess of the lock puts its answer into the cache.
LockAnswer(c) ==
  /\ c.op = "lock" /\ c.at = "answered"
  /\ c.to = "page" => ~ page.blocking
  /\ page' = Given(page, c)
  /\ Ends(c)
  /\ UNCHANGED << server, news, behind >>

\* A navigation waits for this lock: it proceeds, whatever the answer.
LockAnswerLeaves(c) ==
  /\ c.op = "lock" /\ c.to = "page" /\ c.at \in {"answered", "refused"}
  /\ page.blocking
  /\ calls' = UNION {Orphan(d) : d \in calls \ {c}}
  /\ page' = LET q == Unmounted(page, "away") IN IF c.at = "answered" THEN Given(q, c) ELSE q
  /\ news' = FALSE
  /\ behind' = (behind \/ news)
  /\ UNCHANGED server

LockRefused(c) ==
  /\ c.op = "lock" /\ c.at = "refused"
  /\ c.to = "page" => ~ page.blocking
  /\ page' = IF c.to = "page" THEN [page EXCEPT !.optimistic = FALSE, !.fresh = TRUE,
                                                !.dirty = TRUE] ELSE page
  /\ Ends(c)
  /\ UNCHANGED << server, news, behind >>

\* The attempt is invalidated and the client navigates to the details, from a
\* later visit of the page too.  With nobody on the page, a get in flight is
\* not cancelled, and its answer makes the entry valid again.
SubmitAnswer(c) ==
  /\ c.op \in SubmitOps /\ c.to # "nobody" /\ c.at = "answered"
  /\ Open /\ Held => c.to = "page"
  /\ IF Open THEN Away(Refetch(calls \ {c}), TooEarly)
     ELSE /\ Ends(c)
          /\ page' = [page EXCEPT !.invalid = TRUE]
          /\ behind' = (behind \/ Mine("get") # {})
          /\ UNCHANGED << server, news >>

\* The blocker of a later visit knows nothing of the submit.
SubmitAnswerHeld(c) ==
  /\ c.op \in SubmitOps /\ c.to = "cache" /\ c.at = "answered"
  /\ Open /\ Held
  /\ IF page.blocking THEN calls' = Refetch(calls \ {c}) /\ page' = page
     ELSE Locking(Refetch(calls \ {c})) /\ page' = [Optimistic(page) EXCEPT !.blocking = TRUE]
  /\ behind' = (behind \/ TooEarly)
  /\ UNCHANGED << server, news >>

SubmitRefused(c) ==
  /\ c.op \in SubmitOps /\ c.to # "nobody" /\ c.at = "refused"
  /\ page' = [page EXCEPT !.fresh = Open]
  /\ Ends(c)
  /\ UNCHANGED << server, news, behind >>

Deliver ==
  /\ news
  /\ news' = FALSE
  /\ calls' = Refetch(calls)
  /\ behind' = (behind \/ TooEarly)
  /\ UNCHANGED << server, page >>

\* Mutant: only a subscribed page polls.
PollSubscribed ==
  /\ Open /\ page.hub = "subscribed" /\ page.data.status = "LOCKED" /\ Mine("get") = {}
  /\ calls' = calls \cup {GetCall}
  /\ UNCHANGED << server, news, page, behind >>

\* refetchInterval of a locked attempt.
Poll ==
  /\ Open /\ page.data.status = "LOCKED" /\ Mine("get") = {}
  /\ calls' = calls \cup {GetCall}
  /\ UNCHANGED << server, news, page, behind >>

Subscribe ==
  /\ Open /\ page.hub = "none"
  /\ page' = [page EXCEPT !.hub = "subscribed"]
  /\ UNCHANGED << server, calls, news, behind >>

\* The automatic reconnect does not subscribe again.
DropHub ==
  /\ scenario.drops /\ Open /\ page.hub # "dropped"
  /\ page' = [page EXCEPT !.hub = "dropped"]
  /\ news' = FALSE
  /\ behind' = (behind \/ news)
  /\ UNCHANGED << server, calls >>

----------------------------------------------------------------------------
(***************************************************************************)
(* The student.                                                            *)
(***************************************************************************)
\* An input, click or blur event is rendered before it returns.
Edited(p, c) == Rendered([p EXCEPT !.rows = c, !.dirty = TRUE], Submitting)

\* A locked form takes no clicks, but what has the focus takes keys.
Type(c) ==
  /\ "type" \in scenario.acts /\ Open /\ c # page.rows
  /\ page' = Edited(page, c)
  /\ UNCHANGED << server, calls, news, behind >>

ResetForm ==
  /\ "reset" \in scenario.acts /\ Open /\ CanSubmit(page) /\ ~ page.seen.busy
  /\ page.rows # Blank
  /\ page' = Edited(page, Blank)
  /\ UNCHANGED << server, calls, news, behind >>

LockNow ==
  /\ "blur" \in scenario.acts /\ Open /\ Editable(page) /\ Mine("lock") = {}
  /\ Locking(calls)
  /\ page' = Optimistic(page)
  /\ UNCHANGED << server, news, behind >>

MayNavigate ==
  /\ "navigate" \in scenario.acts /\ page.opens <= scenario.leaves /\ Open
  /\ scenario.hasty => page.opens > 1 \/ page.data = NoRow

NavigateBlocked ==
  /\ MayNavigate /\ ~ page.blocking
  /\ Blocks
  /\ Locking(calls)
  /\ page' = [Optimistic(page) EXCEPT !.blocking = TRUE]
  /\ UNCHANGED << server, news, behind >>

\* Once the lock is rendered, another navigation goes through at once.
Navigate ==
  /\ MayNavigate
  /\ ~ Held
  /\ Away(calls, FALSE)

\* The tab is closed or reloaded.
Close ==
  /\ "close" \in scenario.acts /\ Open
  /\ calls' = {[c EXCEPT !.to = "nobody"] : c \in {d \in calls : d.at \in {"sent", "read"}}}
              \cup (IF Blocks THEN {BeaconCall(page.rows)} ELSE {})
  /\ page' = [Unmounted(page, "closed") EXCEPT !.data = NoRow]
  /\ news' = FALSE
  /\ behind' = (behind \/ news)
  /\ UNCHANGED server

\* The tab opens the page: the attempt is created or fetched.
OpenPage ==
  /\ page.view = "closed" /\ page.opens < scenario.opens
  /\ page' = [Mounted(page) EXCEPT !.opens = @ + 1]
  /\ calls' = calls \cup {GetCall}
  /\ UNCHANGED << server, news, behind >>

\* The client comes back to it: cached data is shown, and fetched again when
\* it is older than staleTime.
Enter ==
  /\ page.view = "away" /\ page.opens < scenario.opens
  /\ page' = [Mounted(page) EXCEPT !.opens = @ + 1]
  /\ \/ calls' = calls \cup {GetCall} /\ Mine("get") = {}
     \/ calls' = calls /\ ((page.data # NoRow /\ ~ page.invalid) \/ Mine("get") # {})
  /\ UNCHANGED << server, news, behind >>

\* Submit in the confirmation dialog.  That the mutation is pending is rendered
\* a timer later: in time for a second click, not for the deadline timer.
ConfirmSubmit ==
  /\ "submit" \in scenario.acts /\ (scenario.hasty => page.opens = 1 /\ page.data = NoRow)
  /\ Open /\ CanSubmit(page) /\ ~ page.seen.busy /\ ~ Submitting
  /\ calls' = calls \cup {SubmitCall(page, FALSE)}
  /\ page' = [page EXCEPT !.fresh = TRUE]
  /\ UNCHANGED << server, news, behind >>

\* The deadline timer, one second early; it fires once.
AutoSubmit ==
  /\ Open /\ window # "open" /\ page.armed = "yes"
  /\ calls' = IF CanSubmit(page) THEN calls \cup {SubmitCall(page, TRUE)} ELSE calls
  /\ page' = [page EXCEPT !.armed = "fired", !.fresh = TRUE]
  /\ UNCHANGED << server, news, behind >>

----------------------------------------------------------------------------
Init ==
  /\ scenario \in Scenarios
  /\ row = NoRow /\ submits = 0 /\ window = "open" /\ reopens = 0
  /\ calls = {} /\ news = FALSE /\ behind = FALSE
  /\ page = [view |-> "closed", opens |-> 0, rows |-> Blank, hydrated |-> FALSE,
             data |-> NoRow, current |-> FALSE, invalid |-> FALSE,
             seen |-> [status |-> "NONE", locked |-> FALSE, busy |-> FALSE],
             dirty |-> FALSE, fresh |-> FALSE, optimistic |-> FALSE,
             queued |-> NoDraft, timer |-> FALSE, blocking |-> FALSE,
             hub |-> "none", armed |-> "no", missed |-> FALSE, overruled |-> FALSE]

ServerStep(c) ==
  \/ ServeGet(c) \/ RefuseGet(c) \/ LoadSave(c) \/ StoreSave(c)
  \/ LoadLock(c) \/ StoreLock(c) \/ LoadSubmit(c) \/ StoreSubmit(c)

AnswerStep(c) ==
  \/ GetAnswer(c) \/ GetRefused(c) \/ SaveDone(c) \/ LockAnswer(c)
  \/ LockAnswerLeaves(c) \/ LockRefused(c) \/ SubmitAnswer(c)
  \/ SubmitAnswerHeld(c) \/ SubmitRefused(c)

ClientStep == Deliver \/ Poll \/ Subscribe \/ Render \/ Timer \/ AutoSubmit

StudentStep ==
  \/ \E c \in scenario.contents : Type(c)
  \/ ResetForm \/ LockNow \/ NavigateBlocked \/ Navigate \/ Close
  \/ OpenPage \/ Enter \/ ConfirmSubmit

Next ==
  \/ \E c \in calls : ServerStep(c)
  \/ \E c \in calls : AnswerStep(c)
  \/ \E c \in calls : Lose(c)
  \/ ClientStep \/ StudentStep
  \/ Reopen \/ Tick \/ DropHub

Spec == Init /\ [][Next]_vars

\* The browser runs what is due; a call that was sent is handled.
Fairness ==
  /\ WF_vars(Render) /\ WF_vars(Poll) /\ WF_vars(Deliver)
  /\ WF_vars(\E c \in calls : ServeGet(c) \/ RefuseGet(c))
  /\ WF_vars(\E c \in calls : GetAnswer(c) \/ GetRefused(c))

FairSpec == Spec /\ Fairness

----------------------------------------------------------------------------
(***************************************************************************)
(* Properties.                                                             *)
(***************************************************************************)
\* Every variable has its type; two submits of one page may overlap.
TypeOK ==
  /\ scenario \in Scenarios
  /\ row \in Row /\ submits \in 0..(2 * scenario.opens) /\ window \in {"open", "closing", "over"}
  /\ reopens \in 0..scenario.reopens
  /\ calls \subseteq Call
  /\ news \in BOOLEAN /\ behind \in BOOLEAN
  /\ page \in Page /\ page.opens <= scenario.opens

\* Nothing is under way or due.
Settled ==
  /\ Open /\ ~ page.fresh /\ ~ page.timer /\ ~ news
  /\ {c \in calls : c.op # "get"} = {} /\ Mine("get") = {}

\* A page at rest shows the status the attempt has on the server, if it was
\* told of every change: no answer that was overtaken by a later change, a
\* lock of its own or an event is left in the cache.  (A locked attempt is
\* polled: a page that shows one is never at rest.)  Only a submission that a
\* lock decided before it has undone may be shown still, when a second lock
\* that had found it is the last to be answered (overruled).
QuietPageKnows ==
  Settled /\ ~ behind /\ page.data.status # "LOCKED"
    => page.data.status = row.status \/ page.overruled

\* A page at rest has saved what is in the form: the one-place queue may skip
\* drafts but never the last one, whatever overtakes whatever and
\* whichever other calls are lost.  (A save that is lost is not repeated.)
SettledDraftSaved ==
  Settled /\ ~ behind /\ "save" \notin scenario.fails /\ Editable(page) => row.draft = page.rows

\* The optimistic lock outlives its call only in one case: the locked attempt
\* (or the submitted one that the lock found) was replaced by another answer
\* before it was ever rendered, so the effect that resets it saw no change of
\* the status.
OptimismEnds ==
  Settled /\ page.optimistic /\ page.data.status = "ACTIVE" => page.missed

\* "Intercept ALL React Router navigations while the attempt is active": the
\* page is left or closed with an editable attempt only when a lock of it has
\* been sent.
LeavesLocked ==
  [][Open /\ page'.view # "open" /\ Editable(page) =>
       \/ \E c \in calls' : c.op \in {"lock", "beacon"}
       \/ \E c \in calls : c.to # "nobody" /\ c.op \in {"lock"} \cup SubmitOps]_vars

\* A page that shows a locked attempt lets the student go on once the teacher
\* has reopened it, even if the event was lost: the polling finds out (unless
\* every poll is lost).
ReopenedReachesPage ==
  ("get" \notin scenario.fails /\ Open /\ page.data.status = "LOCKED" /\ row.status = "ACTIVE")
    ~> (\/ ~ Open \/ Editable(page) \/ row.status # "ACTIVE"
        \/ window = "over" \/ page.missed)

============================================================================
