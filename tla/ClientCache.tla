----------------------------- MODULE ClientCache -----------------------------
(***************************************************************************)
(* One browser and its query cache, over the server's data.  A behaviour   *)
(* follows one query: a mutation of the same user writes what it shows,    *)
(* other users write it too, and possibly a later edit sends back what an  *)
(* earlier answer held.  Answers travel on their own.                      *)
(*                                                                         *)
(* The cache is react-query's, configured by ReactQueryProvider: an answer *)
(* ages after a minute and is dropped when unused for five; mounting       *)
(* fetches what is missing, aged or invalid, or joins the fetch under way; *)
(* an invalidation fetches only what is mounted, and cancels a fetch under *)
(* way only if there is an older answer; a failed fetch is tried again     *)
(* once, unless the query sets retry to false.                             *)
(***************************************************************************)
EXTENDS ClientQueries, Naturals

CONSTANTS
  Scenarios,    \* the query, the first write and the later edit of a behaviour
  MaxFails      \* how many fetches fail

\* A mutation that navigates leads to a page; a dialog or form is filled from a
\* query of its own page.
ASSUME CacheAssumption ==
  /\ MaxFails \in Nat
  /\ \A s \in Scenarios :
        /\ \A m \in {s.first, s.edit} : m.leads = m.page \/ m.leads \notin {Everywhere, "nowhere"}
        /\ s.edit.fills \in {"dialog", "cached"}
             => s.edit.page = s.query.page /\ s.edit.basis = s.query.key

VARIABLES
  scenario, \* the one this behaviour follows
  stored,   \* the writes the server's data reflects
  entry,    \* the cached answer
  fetch,    \* the fetch of the query under way
  at,       \* the page shown
  first,    \* the user's first write
  edit,     \* the later edit: its form, then its call
  fails,    \* fetches failed so far
  overtaken, \* history: an invalidation left a fetch to go on that had read before the first write
  lost      \* history: the answer of the write, or every try of a fetch, were lost

vars == << scenario, stored, entry, fetch, at, first, edit, fails, overtaken, lost >>

query == scenario.query
mine  == scenario.first
later == scenario.edit

Writes2 == {"mine", "theirs"}
None == {"none"}

NoEdit == [Mutation("nowhere", Shows({}), {}) EXCEPT !.fills = "never"]

Elsewhere == "elsewhere"
Pages == {query.page, mine.page, mine.leads, later.page, later.leads, Elsewhere} \ {Everywhere, "nowhere"}

Idle == [at |-> "none", got |-> None, tries |-> 0]

Observed == at = query.page \/ query.page = Everywhere

TypeOK ==
  /\ scenario \in Scenarios
  /\ stored \in SUBSET Writes2
  /\ entry \in [data : {None} \cup SUBSET Writes2, valid : BOOLEAN, aged : BOOLEAN]
  /\ fetch \in [at : {"none", "sent", "read"}, got : {None} \cup SUBSET Writes2, tries : 0..1]
  /\ at \in Pages
  /\ first \in {"idle", "sent", "served", "acked", "failed"}
  /\ edit \in [at : {"idle", "filled", "sent", "done", "over"}, basis : {None} \cup SUBSET Writes2, old : BOOLEAN]
  /\ fails \in 0..MaxFails
  /\ overtaken \in BOOLEAN /\ lost \in BOOLEAN

Init ==
  /\ scenario \in Scenarios
  /\ stored = {}
  /\ entry = [data |-> None, valid |-> TRUE, aged |-> FALSE]
  /\ fetch = Idle
  /\ at = Elsewhere
  /\ first = "idle"
  /\ edit = [at |-> "idle", basis |-> None, old |-> FALSE]
  /\ fails = 0
  /\ overtaken = FALSE /\ lost = FALSE

----------------------------------------------------------------------------
(***************************************************************************)
(* The cache.                                                              *)
(***************************************************************************)
Sent == [at |-> "sent", got |-> None, tries |-> 0]

Due(e) == e.data = None \/ e.aged \/ ~ e.valid

\* What mounting the query, or prefetching it, leaves of the fetch f.
Fetched(f, e) == IF f.at = "none" /\ Due(e) THEN Sent ELSE f

\* A fetch under way is cancelled for a new one, except the first.
Refetched(f, e) == IF f.at # "none" /\ e.data = None THEN f ELSE Sent

\* invalidateQueries: only what is mounted is fetched again.
Invalidated(f, e) == IF Observed THEN Refetched(f, e) ELSE f

\* A page of the user's choice, or the one a mutation leads to.
Show(p, f, e) ==
  /\ at' = p
  /\ fetch' = IF p = query.page THEN Fetched(f, e) ELSE f

\* Opening the application, or following a link; a dialog closes with its page.
Go(p) ==
  /\ p # at
  /\ Show(p, fetch, entry)
  /\ edit' = IF edit.at = "filled" THEN [edit EXCEPT !.at = "idle", !.basis = None] ELSE edit
  /\ UNCHANGED << scenario, stored, entry, first, fails, overtaken, lost >>

\* Everywhere is mounted from the beginning.
Start ==
  /\ query.page = Everywhere /\ fetch.at = "none" /\ entry.data = None
  /\ fetch' = Sent
  /\ UNCHANGED << scenario, stored, entry, at, first, edit, fails, overtaken, lost >>

Hover ==
  /\ ~ Observed
  /\ query.key \in Prefetched \cup PrefetchedFromRows
  /\ fetch.at = "none" /\ Due(entry)
  /\ fetch' = Sent
  /\ UNCHANGED << scenario, stored, entry, at, first, edit, fails, overtaken, lost >>

\* Mutant: polling pauses while a write is under way.
PollPaused ==
  /\ query.polls /\ Observed /\ fetch.at = "none" /\ first # "sent"
  /\ fetch' = Sent
  /\ UNCHANGED << scenario, stored, entry, at, first, edit, fails, overtaken, lost >>

\* refetchInterval, while mounted.
Poll ==
  /\ query.polls /\ Observed /\ fetch.at = "none"
  /\ fetch' = Sent
  /\ UNCHANGED << scenario, stored, entry, at, first, edit, fails, overtaken, lost >>

ServeFetch ==
  /\ fetch.at = "sent"
  /\ fetch' = [fetch EXCEPT !.at = "read", !.got = stored]
  /\ UNCHANGED << scenario, stored, entry, at, first, edit, fails, overtaken, lost >>

\* Any answer makes the entry valid.
FetchAnswered ==
  /\ fetch.at = "read"
  /\ entry' = [data |-> fetch.got, valid |-> TRUE, aged |-> FALSE]
  /\ fetch' = Idle
  /\ UNCHANGED << scenario, stored, at, first, edit, fails, overtaken, lost >>

\* Mutant: the failures of all fetches count as tries of this one.
FetchFailsMore ==
  /\ fetch.at # "none" /\ fails < MaxFails
  /\ fails' = fails + 1
  /\ fetch' = [Sent EXCEPT !.tries = fails' + fetch.tries + 1]
  /\ UNCHANGED << scenario, stored, entry, at, first, edit, overtaken, lost >>

FetchFails ==
  /\ fetch.at # "none" /\ fails < MaxFails
  /\ fails' = fails + 1
  /\ fetch' = IF query.retries /\ fetch.tries = 0 THEN [Sent EXCEPT !.tries = 1] ELSE Idle
  /\ lost' = (lost \/ ~ query.retries \/ fetch.tries = 1)
  /\ UNCHANGED << scenario, stored, entry, at, first, edit, overtaken >>

Age ==
  /\ query.ages /\ entry.data # None /\ ~ entry.aged
  /\ entry' = [entry EXCEPT !.aged = TRUE]
  /\ UNCHANGED << scenario, stored, fetch, at, first, edit, fails, overtaken, lost >>

Collect ==
  /\ ~ Observed /\ fetch.at = "none" /\ entry.data # None
  /\ entry' = [data |-> None, valid |-> TRUE, aged |-> FALSE]
  /\ UNCHANGED << scenario, stored, fetch, at, first, edit, fails, overtaken, lost >>

----------------------------------------------------------------------------
(***************************************************************************)
(* The writes.                                                             *)
(***************************************************************************)
TheirWrite ==
  /\ query.polls /\ "theirs" \notin stored
  /\ stored' = stored \cup {"theirs"}
  /\ UNCHANGED << scenario, entry, fetch, at, first, edit, fails, overtaken, lost >>

Mutate ==
  /\ at = mine.page /\ first = "idle"
  /\ first' = "sent"
  /\ UNCHANGED << scenario, stored, entry, fetch, at, edit, fails, overtaken, lost >>

ServeMutation ==
  /\ first = "sent"
  /\ first' = "served"
  /\ stored' = stored \cup {"mine"}
  /\ UNCHANGED << scenario, entry, fetch, at, edit, fails, overtaken, lost >>

\* onSuccess: the keys are invalidated, then the page is left; it runs, and
\* navigates, although the user may have left already.
OnSuccess(m) ==
  LET hit == query.key \in m.refreshes
      f == IF hit THEN Invalidated(fetch, entry) ELSE fetch
      e == IF hit THEN [entry EXCEPT !.valid = (entry.data = None)] ELSE entry IN
  /\ entry' = e
  /\ IF m.leads = m.page THEN fetch' = f /\ at' = at ELSE Show(m.leads, f, e)
  /\ overtaken' = (overtaken \/ (hit /\ (~ Observed \/ entry.data = None) /\ fetch.at = "read"
                                  /\ "mine" \notin fetch.got))

MutationAnswered ==
  /\ first = "served"
  /\ first' = "acked"
  /\ OnSuccess(mine)
  /\ UNCHANGED << scenario, stored, edit, fails, lost >>

MutationFails ==
  /\ first \in {"sent", "served"}
  /\ first' = "failed"
  /\ lost' = TRUE
  /\ UNCHANGED << scenario, stored, entry, fetch, at, edit, fails, overtaken >>

\* Has the page what it is going to have?
Settled == first \in {"idle", "acked"} /\ fetch.at = "none"

\* A dialog, or the form of a page, is filled from what is cached.
Fill ==
  /\ later.fills = "dialog" /\ at = later.page
  /\ edit.at = "idle" /\ entry.data # None
  /\ edit' = [at |-> "filled", basis |-> entry.data, old |-> first # "acked" \/ ~ Settled]
  /\ UNCHANGED << scenario, stored, entry, fetch, at, first, fails, overtaken, lost >>

Save ==
  /\ at = later.page
  /\ \/ edit.at = "filled" /\ edit' = [edit EXCEPT !.at = "sent"]
     \/ /\ later.fills = "cached" /\ edit.at = "idle" /\ entry.data # None
        /\ edit' = [at |-> "sent", basis |-> entry.data, old |-> first # "acked" \/ ~ Settled]
     \/ /\ later.fills = "read" /\ edit.at = "idle"
        /\ edit' = [at |-> "sent", basis |-> stored, old |-> first # "acked"]
  /\ UNCHANGED << scenario, stored, entry, fetch, at, first, fails, overtaken, lost >>

\* What the edit sends replaces what is stored.
ServeEdit ==
  /\ edit.at = "sent"
  /\ edit' = [edit EXCEPT !.at = "done"]
  /\ stored' = IF mine.writes \cap later.resends = {} THEN stored
               ELSE (stored \ {"mine"}) \cup (edit.basis \cap {"mine"})
  /\ UNCHANGED << scenario, entry, fetch, at, first, fails, overtaken, lost >>

EditAnswered ==
  /\ edit.at = "done"
  /\ edit' = [at |-> "over", basis |-> None, old |-> FALSE]
  /\ OnSuccess(later)
  /\ UNCHANGED << scenario, stored, first, fails, lost >>

Next ==
  \/ \E p \in Pages : Go(p)
  \/ Start \/ Hover \/ Poll
  \/ ServeFetch \/ FetchAnswered \/ FetchFails \/ Age \/ Collect
  \/ TheirWrite
  \/ Mutate \/ ServeMutation \/ MutationAnswered \/ MutationFails
  \/ Fill \/ Save \/ ServeEdit \/ EditAnswered

Spec == Init /\ [][Next]_vars

\* A timer fires, and the server answers.
FairSpec == Spec /\ WF_vars(Poll) /\ WF_vars(ServeFetch) /\ WF_vars(FetchAnswered)

----------------------------------------------------------------------------
\* What a mutation promises to refresh: the keys it invalidates and the page it
\* leads to, which is its own unless it navigates.
Promised(q, m) == q.key \in m.refreshes \/ q.page \in {m.leads, Everywhere}

\* They do not, until the answer ages, for these.
Unrefreshed ==
  { << AGEditTemplate_saveMutation, AGTemplates_templatesQuery >>,
    << AdminClassDetails_deleteClassMutation, AdminClasses_classesQuery >>,
    << TeacherClassDetails_deleteClassMutation, TeacherMyClasses_classesQuery >>,
    << TeacherClassDetails_addStudentMutation, TeacherClassDetails_allStudentsQuery >>,
    << TeacherMyClasses_handleStudentEditSave, TeacherMyClasses_allStudentsQuery >>,
    << AdminSettings_editMutation, AppConfig_query >>,
    << AdminSettings_editMutation, Navbar_appSettingsQuery >>,
    << StudentSubmission_submitAssignmentMutation, StudentDetails_detailsQuery >>,
    << TeacherGns3_startSessionMutation, TeacherGns3_historyQuery >>,
    << TeacherGns3_stopSessionMutation, TeacherGns3_historyQuery >> }
  \cup {AdminGnsAllSessions_startSessionMutation, AdminGnsAllSessions_stopSessionMutation,
        AdminGnsAllSessions_extendSessionMutation, AdminGnsAllSessions_forceStopAllMutation}
       \X {Gns3DataGrid_historyQuery}

\* A write made on another page, which does not invalidate what this edit is
\* filled from; and saving a template twice.
NotShared(m, e) ==
  \/ m.page # e.page /\ e.basis \notin m.refreshes
  \/ << m, e >> = << AGEditTemplate_saveMutation, AGEditTemplate_saveMutation >>

\* Whoever has been told that a write is done sees it as soon as the page is at
\* rest: no answer that was read before the write replaces what is read after
\* it, whether the page was left meanwhile, came back or was led to.
OwnWriteShown ==
  (Observed /\ fetch.at = "none" /\ entry.data # None /\ first = "acked" /\ "mine" \in stored
     /\ Promised(query, mine) /\ << mine, query >> \notin Unrefreshed)
  => "mine" \in entry.data \/ overtaken \/ lost

\* An edit that sends back a whole list or form undoes the user's own earlier,
\* acknowledged write only if it was filled before that write was shown, or the
\* two are made on different pages that do not share the answer.
OwnWriteKept ==
  [][(first = "acked" /\ "mine" \in stored /\ "mine" \notin stored')
       => edit.old \/ overtaken \/ lost \/ NotShared(mine, later)]_vars

\* A page that polls shows what others write, unless it is left first.
PolledShown ==
  ("theirs" \in stored /\ Observed) ~> ("theirs" \in entry.data \/ ~ Observed)

============================================================================
