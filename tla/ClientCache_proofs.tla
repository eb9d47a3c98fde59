--------------------------- MODULE ClientCache_proofs ---------------------------
(***************************************************************************)
(* Theorems about ClientCache, for any queries, mutations and edits and    *)
(* any number of failed fetches.                                           *)
(*                                                                         *)
(* What the tables of ClientQueries have to keep to, for the properties to *)
(* hold, is the hypothesis of the theorems: a mutation that promises to    *)
(* refresh a query invalidates its key, and so does one whose write a      *)
(* later edit sends back, if the two share the answer.                     *)
(***************************************************************************)
EXTENDS ClientCache, TLAPS

\* A promised refresh is an invalidation.
Invalidates ==
  \A s \in Scenarios :
     Promised(s.query, s.first) /\ << s.first, s.query >> \notin Unrefreshed
       => s.query.key \in s.first.refreshes

\* What an edit sends back is refreshed after the first write.
EditsInvalidated ==
  \A s \in Scenarios :
     s.first.writes \cap s.edit.resends # {} /\ ~ NotShared(s.first, s.edit)
       => s.edit.basis \in s.first.refreshes

----------------------------------------------------------------------------
\* Answers, and none.
Data == {None} \cup SUBSET Writes2

\* The pages that mutations lead to.
LEMMA MutationPages ==
  ASSUME scenario \in Scenarios, NEW m \in {mine, later}, m.leads # m.page
  PROVE  m.leads \in Pages
<1>1. m.leads \notin {Everywhere, "nowhere"}
  BY CacheAssumption DEF mine, later
<1> QED
  BY <1>1 DEF Pages

\* The cached answer and the fetch under way.
Entry == [data : Data, valid : BOOLEAN, aged : BOOLEAN]
Fetch == [at : {"none", "sent", "read"}, got : Data, tries : 0..1]
Edit  == [at : {"idle", "filled", "sent", "done", "over"}, basis : Data, old : BOOLEAN]

LEMMA CacheOperators ==
  ASSUME NEW f \in Fetch, NEW e \in Entry
  PROVE  /\ Sent \in Fetch /\ Idle \in Fetch
         /\ Fetched(f, e) \in Fetch /\ Refetched(f, e) \in Fetch /\ Invalidated(f, e) \in Fetch
  BY DEF Fetch, Entry, Data, Sent, Idle, Fetched, Refetched, Invalidated

\* The answer of a mutation leaves a page, a fetch and an entry.
LEMMA SuccessTypes ==
  ASSUME TypeOK, NEW m \in {mine, later}, OnSuccess(m)
  PROVE  at' \in Pages /\ fetch' \in Fetch /\ entry' \in Entry /\ overtaken' \in BOOLEAN
<1> DEFINE hit == query.key \in m.refreshes
           f == IF hit THEN Invalidated(fetch, entry) ELSE fetch
           e == IF hit THEN [entry EXCEPT !.valid = (entry.data = None)] ELSE entry
<1>0. fetch \in Fetch /\ entry \in Entry /\ at \in Pages /\ scenario \in Scenarios
  BY DEF TypeOK, Fetch, Entry, Data
<1>1. entry' = e /\ e \in Entry
  BY <1>0 DEF OnSuccess, Entry
<1>2. f \in Fetch
  BY <1>0, CacheOperators
<1>3. CASE m.leads = m.page
  <2>1. fetch' = f /\ at' = at
    BY <1>3 DEF OnSuccess
  <2> QED
    BY <1>0, <1>1, <1>2, <2>1 DEF OnSuccess
<1>4. CASE m.leads # m.page
  <2>1. Show(m.leads, f, e)
    BY <1>4 DEF OnSuccess
  <2>2. fetch' \in Fetch
    <3> HIDE DEF f, e
    <3> QED
      BY <1>1, <1>2, <2>1, CacheOperators DEF Show
  <2> QED
    BY <1>0, <1>1, <1>4, <2>1, <2>2, MutationPages DEF OnSuccess, Show
<1> QED
  BY <1>3, <1>4

----------------------------------------------------------------------------
(***************************************************************************)
(* Types.                                                                  *)
(***************************************************************************)
LEMMA InitType == Init => TypeOK
<1> SUFFICES ASSUME Init PROVE TypeOK
  OBVIOUS
<1>1. 0 \in 0..MaxFails /\ at \in Pages
  BY CacheAssumption DEF Init, Pages, Elsewhere, Everywhere
<1>2. entry \in Entry /\ fetch \in Fetch /\ edit \in Edit
  BY DEF Init, Entry, Fetch, Edit, Idle, Data
<1>3. stored \in SUBSET Writes2
  BY DEF Init
<1> QED
  BY <1>1, <1>2, <1>3 DEF Init, TypeOK, Entry, Fetch, Edit, Data

LEMMA ShowTypes ==
  ASSUME TypeOK, NEW p \in Pages, Show(p, fetch, entry)
  PROVE  at' \in Pages /\ fetch' \in Fetch
<1>1. fetch \in Fetch /\ entry \in Entry
  BY DEF TypeOK, Fetch, Entry, Data
<1> QED
  BY <1>1, CacheOperators DEF Show

LEMMA NextType == TypeOK /\ [Next]_vars => TypeOK'
<1> SUFFICES ASSUME TypeOK, [Next]_vars PROVE TypeOK'
  OBVIOUS
<1> USE DEF Data
<1>0. fetch \in Fetch /\ entry \in Entry /\ edit \in Edit /\ stored \in Data /\ scenario' = scenario
  BY DEF TypeOK, Fetch, Entry, Edit, Next, vars, Go, Start, Hover, Poll, ServeFetch, FetchAnswered,
         FetchFails, Age, Collect, TheirWrite, Mutate, ServeMutation, MutationAnswered,
         MutationFails, Fill, Save, ServeEdit, EditAnswered
<1>1. Pages' = Pages
  BY <1>0 DEF Pages, query, mine, later
<1>2. ASSUME NEW p \in Pages, Go(p) PROVE TypeOK'
  BY <1>0, <1>1, <1>2, ShowTypes DEF Go, TypeOK, Fetch, Edit
<1>3. CASE Start \/ Hover \/ Poll
  BY <1>0, <1>1, <1>3 DEF Start, Hover, Poll, TypeOK, Sent
<1>4. CASE ServeFetch \/ FetchAnswered
  <2>1. fetch.got \in Data /\ [fetch EXCEPT !.at = "read", !.got = stored] \in Fetch
    BY <1>0 DEF Fetch
  <2>2. [data |-> fetch.got, valid |-> TRUE, aged |-> FALSE] \in Entry
    BY <2>1 DEF Entry
  <2>3. fetch' \in Fetch /\ entry' \in Entry
    BY <1>0, <1>4, <2>1, <2>2, CacheOperators DEF ServeFetch, FetchAnswered
  <2> QED
    BY <1>1, <1>4, <2>3 DEF ServeFetch, FetchAnswered, TypeOK, Fetch, Entry
<1>5. CASE FetchFails
  <2>1. fails' \in 0..MaxFails
    BY <1>5, CacheAssumption DEF FetchFails, TypeOK
  <2>2. fetch' \in Fetch
    <3>1. [Sent EXCEPT !.tries = 1] \in Fetch
      BY DEF Sent, Fetch
    <3> QED
      BY <1>5, <3>1, CacheOperators, <1>0 DEF FetchFails
  <2> QED
    BY <1>0, <1>1, <1>5, <2>1, <2>2 DEF FetchFails, TypeOK, Fetch
<1>6. CASE Age \/ Collect
  <2>1. entry' \in Entry
    <3>1. [entry EXCEPT !.aged = TRUE] \in Entry
      BY <1>0 DEF Entry
    <3>2. [data |-> None, valid |-> TRUE, aged |-> FALSE] \in Entry
      BY DEF Entry
    <3> QED
      BY <1>6, <3>1, <3>2 DEF Age, Collect
  <2> QED
    BY <1>1, <1>6, <2>1 DEF Age, Collect, TypeOK, Entry
<1>7. CASE TheirWrite \/ Mutate \/ ServeMutation \/ MutationFails
  <2>1. stored' \in SUBSET Writes2
    BY <1>7 DEF TheirWrite, Mutate, ServeMutation, MutationFails, TypeOK, Writes2
  <2>2. first' \in {"idle", "sent", "served", "acked", "failed"} /\ lost' \in BOOLEAN
    BY <1>7 DEF TheirWrite, Mutate, ServeMutation, MutationFails, TypeOK
  <2> QED
    BY <1>1, <1>7, <2>1, <2>2 DEF TheirWrite, Mutate, ServeMutation, MutationFails, TypeOK
<1>8. CASE MutationAnswered
  BY <1>0, <1>1, <1>8, SuccessTypes DEF MutationAnswered, TypeOK, Fetch, Entry
<1>9. CASE Fill \/ Save
  <2>1. edit' \in Edit
    <3> DEFINE new(place, data, old) == [at |-> place, basis |-> data, old |-> old]
    <3>1. \A place \in {"filled", "sent"}, data \in Data, old \in BOOLEAN :
             new(place, data, old) \in Edit
      BY DEF Edit
    <3>2. entry.data \in Data /\ stored \in Data /\ [edit EXCEPT !.at = "sent"] \in Edit
      BY <1>0 DEF Entry, Edit
    <3>3. (first # "acked" \/ ~ Settled) \in BOOLEAN /\ (first # "acked") \in BOOLEAN
      OBVIOUS
    <3>4. CASE Fill
      <4>1. edit' = new("filled", entry.data, first # "acked" \/ ~ Settled)
        BY <3>4 DEF Fill
      <4> QED
        BY <3>1, <3>2, <3>3, <4>1
    <3>5. CASE Save
      <4>1. \/ edit' = [edit EXCEPT !.at = "sent"]
            \/ edit' = new("sent", entry.data, first # "acked" \/ ~ Settled)
            \/ edit' = new("sent", stored, first # "acked")
        BY <3>5 DEF Save
      <4> QED
        BY <3>1, <3>2, <3>3, <4>1
    <3> QED
      BY <1>9, <3>4, <3>5
  <2> QED
    BY <1>1, <1>9, <2>1 DEF Fill, Save, TypeOK, Edit
<1>10. CASE ServeEdit
  BY <1>0, <1>1, <1>10 DEF ServeEdit, TypeOK, Edit, Writes2
<1>11. CASE EditAnswered
  BY <1>0, <1>1, <1>11, SuccessTypes DEF EditAnswered, TypeOK, Fetch, Entry
<1>12. CASE UNCHANGED vars
  BY <1>1, <1>12 DEF vars, TypeOK
<1> QED
  BY <1>2, <1>3, <1>4, <1>5, <1>6, <1>7, <1>8, <1>9, <1>10, <1>11, <1>12 DEF Next

(***************************************************************************)
(* Entry, fetch and page keep their types, and no fetch is tried a third   *)
(* time, whatever fails.                                                   *)
(***************************************************************************)
THEOREM CacheTypeCorrect == Spec => []TypeOK
  BY InitType, NextType, PTL DEF Spec

----------------------------------------------------------------------------
(***************************************************************************)
(* What the user has written and is told.                                  *)
(***************************************************************************)

Told == first = "acked" /\ "mine" \in stored /\ ~ overtaken /\ ~ lost

\* What is fetched or will be shown reflects the first write.
Fresh ==
  /\ fetch.at = "read" => "mine" \in fetch.got
  /\ \/ entry.data = None \/ "mine" \in entry.data
     \/ fetch.at # "none"
     \/ ~ Observed /\ ~ entry.valid

ToldIsFresh == Told /\ query.key \in mine.refreshes => Fresh

\* Only the edit takes the first write back.
StoredUntilEdited ==
  first \in {"served", "acked"} /\ edit.at \in {"idle", "filled", "sent"} => "mine" \in stored

FreshInv == TypeOK /\ StoredUntilEdited /\ ToldIsFresh

\* An invalidation leaves nothing on show, or on its way, that is older than it.
LEMMA InvalidatedIsFresh ==
  ASSUME TypeOK, scenario' = scenario, NEW m, OnSuccess(m), query.key \in m.refreshes,
         ~ overtaken'
  PROVE  Fresh'
<1> DEFINE f == Invalidated(fetch, entry)
           e == [entry EXCEPT !.valid = (entry.data = None)]
<1>0. entry \in Entry /\ fetch \in Fetch
  BY DEF TypeOK, Entry, Fetch, Data
<1>1. /\ (~ Observed \/ entry.data = None) /\ fetch.at = "read" => "mine" \in fetch.got
      /\ entry' = e
      /\ IF m.leads = m.page THEN fetch' = f /\ at' = at ELSE Show(m.leads, f, e)
  BY DEF OnSuccess
<1>2. e.data = entry.data /\ (e.valid <=> entry.data = None)
  BY <1>0 DEF Entry
<1>3. (f.at = "read" => "mine" \in f.got) /\ (f.at = "none" => f = fetch /\ ~ Observed)
  BY <1>1 DEF Invalidated, Refetched, Sent
<1>4. query' = query /\ (Observed' <=> (at' = query.page \/ query.page = Everywhere))
  BY DEF query, Observed
<1> HIDE DEF f, e
<1>5. CASE m.leads = m.page
  BY <1>1, <1>2, <1>3, <1>4, <1>5 DEF Fresh, Observed
<1>6. CASE m.leads # m.page
  <2>1. at' = m.leads /\ fetch' = IF m.leads = query.page THEN Fetched(f, e) ELSE f
    BY <1>1, <1>6 DEF Show
  <2>2. Fetched(f, e) = f \/ Fetched(f, e).at = "sent"
    BY DEF Fetched, Sent
  <2>3. f.at = "none" /\ e.data # None => Fetched(f, e).at = "sent"
    BY <1>2 DEF Fetched, Due, Sent
  <2> QED
    BY <1>1, <1>2, <1>3, <1>4, <2>1, <2>2, <2>3 DEF Fresh, Observed
<1> QED
  BY <1>5, <1>6

\* Nothing stale is left when a page is shown, either.
LEMMA ShownIsFresh ==
  ASSUME TypeOK, scenario' = scenario, NEW p, Show(p, fetch, entry), entry' = entry, Fresh
  PROVE  Fresh'
<1>1. query' = query /\ (Observed' <=> (at' = query.page \/ query.page = Everywhere))
  BY DEF query, Observed
<1>2. at' = p /\ fetch' = IF p = query.page THEN Fetched(fetch, entry) ELSE fetch
  BY DEF Show
<1>3. Fetched(fetch, entry) = fetch \/ Fetched(fetch, entry).at = "sent"
  BY DEF Fetched, Sent
<1>4. fetch.at = "none" /\ ~ entry.valid => Fetched(fetch, entry).at = "sent"
  BY DEF Fetched, Due, Sent
<1> QED
  BY <1>1, <1>2, <1>3, <1>4 DEF Fresh, Observed

LEMMA SuccessIsFresh ==
  ASSUME TypeOK, scenario' = scenario, OnSuccess(later), ~ overtaken', Fresh
  PROVE  Fresh'
<1>1. CASE query.key \in later.refreshes
  BY <1>1, InvalidatedIsFresh
<1>2. CASE query.key \notin later.refreshes
  <2>1. entry' = entry
        /\ IF later.leads = later.page THEN fetch' = fetch /\ at' = at
           ELSE Show(later.leads, fetch, entry)
    BY <1>2 DEF OnSuccess
  <2>2. CASE later.leads = later.page
    BY <2>1, <2>2 DEF Fresh, Observed, query
  <2>3. CASE later.leads # later.page
    BY <2>1, <2>3, ShownIsFresh
  <2> QED
    BY <2>2, <2>3
<1> QED
  BY <1>1, <1>2

LEMMA NextStored ==
  FreshInv /\ [Next]_vars => StoredUntilEdited'
<1> SUFFICES ASSUME FreshInv, [Next]_vars PROVE StoredUntilEdited'
  OBVIOUS
<1>0. StoredUntilEdited /\ edit \in Edit
  BY DEF FreshInv, TypeOK, Edit, Data
<1> QED
  BY <1>0 DEF StoredUntilEdited, Edit, Next, vars, Go, Start, Hover, Poll, ServeFetch, FetchAnswered,
         FetchFails, Age, Collect, TheirWrite, Mutate, ServeMutation, MutationAnswered,
         MutationFails, Fill, Save, ServeEdit, EditAnswered

LEMMA NextFresh ==
  FreshInv /\ [Next]_vars => ToldIsFresh'
<1> SUFFICES ASSUME FreshInv, [Next]_vars, Told', (query.key \in mine.refreshes)'
             PROVE  Fresh'
  BY DEF ToldIsFresh
<1> USE DEF Told
<1>0. TypeOK /\ StoredUntilEdited /\ (Told => Fresh)
  <2>1. query' = query /\ mine' = mine
    BY DEF Next, vars, Go, Start, Hover, Poll, ServeFetch, FetchAnswered,
         FetchFails, Age, Collect, TheirWrite, Mutate, ServeMutation, MutationAnswered,
         MutationFails, Fill, Save, ServeEdit, EditAnswered, query, mine
  <2> QED
    BY <2>1 DEF FreshInv, ToldIsFresh
<1>1. ASSUME NEW p \in Pages, Go(p) PROVE Fresh'
  BY <1>0, <1>1, ShownIsFresh DEF Go
<1>2. CASE Start \/ Hover \/ Poll
  BY <1>0, <1>2 DEF Start, Hover, Poll, Fresh, Sent
<1>3. CASE ServeFetch
  <2>1. fetch'.at = "read" /\ fetch'.got = stored
    BY <1>0, <1>3 DEF ServeFetch, TypeOK
  <2> QED
    BY <1>3, <2>1 DEF ServeFetch, Fresh
<1>4. CASE FetchAnswered
  BY <1>0, <1>4 DEF FetchAnswered, Fresh, Idle
<1>5. CASE FetchFails
  <2>1. fetch.tries \in 0..1
    BY <1>0 DEF TypeOK
  <2>2. query.retries /\ fetch.tries # 1
    BY <1>5 DEF FetchFails
  <2>3. query.retries /\ fetch.tries = 0
    BY <2>1, <2>2
  <2> QED
    BY <1>5, <2>3 DEF FetchFails, Fresh, Sent
<1>6. CASE Age
  <2>1. entry'.data = entry.data /\ entry'.valid = entry.valid
    BY <1>0, <1>6 DEF Age, TypeOK
  <2> QED
    BY <1>0, <1>6, <2>1 DEF Age, Fresh, Observed, query
<1>7. CASE Collect
  BY <1>7 DEF Collect, Fresh
<1>8. CASE TheirWrite \/ Mutate \/ ServeMutation \/ MutationFails
  BY <1>0, <1>8 DEF TheirWrite, Mutate, ServeMutation, MutationFails, Fresh, Observed, query
<1>9. CASE MutationAnswered
  <2>1. OnSuccess(mine) /\ scenario' = scenario /\ query.key \in mine.refreshes
    BY <1>9 DEF MutationAnswered, query, mine
  <2> QED
    BY <1>0, <2>1, InvalidatedIsFresh
<1>10. CASE Fill \/ Save
  BY <1>0, <1>10 DEF Fill, Save, Fresh, Observed, query
<1>11. CASE ServeEdit
  <2>1. "mine" \in stored
    BY <1>0, <1>11 DEF ServeEdit, StoredUntilEdited
  <2> QED
    BY <1>0, <1>11, <2>1 DEF ServeEdit, Fresh, Observed, query
<1>12. CASE EditAnswered
  <2>1. OnSuccess(later) /\ scenario' = scenario /\ (overtaken => overtaken') /\ Told
    BY <1>12 DEF EditAnswered, OnSuccess
  <2> QED
    BY <1>0, <2>1, SuccessIsFresh
<1>13. CASE UNCHANGED vars
  BY <1>0, <1>13 DEF vars, Fresh, Observed, query
<1> QED
  BY <1>1, <1>2, <1>3, <1>4, <1>5, <1>6, <1>7, <1>8, <1>9, <1>10, <1>11, <1>12, <1>13 DEF Next

LEMMA InitFresh == Init => FreshInv
<1>1. Init => StoredUntilEdited /\ ToldIsFresh
  BY DEF Init, StoredUntilEdited, ToldIsFresh, Told
<1> QED
  BY <1>1, InitType DEF FreshInv

LEMMA NextFreshInv == FreshInv /\ [Next]_vars => FreshInv'
  BY NextType, NextStored, NextFresh DEF FreshInv

(***************************************************************************)
(* Invalidating the keys it promises to refresh is all a mutation has to   *)
(* do: then whoever has been told that a write is done sees it on any page *)
(* at rest, whatever was cached, prefetched, polled, left or led to, and   *)
(* whatever another mutation of the same user does.                        *)
(***************************************************************************)
THEOREM OwnWriteShownAlways ==
  ASSUME Invalidates
  PROVE  Spec => []OwnWriteShown
<1>1. FreshInv => OwnWriteShown
  <2> SUFFICES ASSUME FreshInv, Told, Observed, fetch.at = "none", entry.data # None,
                      Promised(query, mine), << mine, query >> \notin Unrefreshed
               PROVE  "mine" \in entry.data
    BY DEF OwnWriteShown, Told
  <2>1. query.key \in mine.refreshes
    BY DEF FreshInv, TypeOK, Invalidates, query, mine
  <2> QED
    BY <2>1 DEF FreshInv, ToldIsFresh, Fresh
<1> QED
  BY <1>1, InitFresh, NextFreshInv, PTL DEF Spec

----------------------------------------------------------------------------
(***************************************************************************)
(* What a later edit sends back.                                           *)
(***************************************************************************)
Resent == mine.writes \cap later.resends # {} /\ ~ NotShared(mine, later)

\* An edit that was filled after the first write was shown holds it.
FilledAfter ==
  edit.at \in {"filled", "sent"} /\ Resent /\ ~ edit.old /\ ~ overtaken /\ ~ lost
    => first = "acked" /\ "mine" \in edit.basis

LEMMA FilledFromFresh ==
  ASSUME FreshInv, EditsInvalidated, Resent, ~ overtaken, ~ lost,
         later.fills \in {"dialog", "cached"}, at = later.page, edit.at = "idle",
         first = "acked", Settled, entry.data # None
  PROVE  "mine" \in entry.data
<1>1. Told
  BY DEF Told, FreshInv, StoredUntilEdited
<1>2. scenario \in Scenarios
  BY DEF FreshInv, TypeOK
<1>3. later.page = query.page /\ later.basis = query.key
  BY <1>2, CacheAssumption DEF later, query
<1>4. later.basis \in mine.refreshes
  BY <1>2 DEF EditsInvalidated, Resent, later, mine
<1>5. Fresh /\ Observed
  BY <1>1, <1>3, <1>4 DEF FreshInv, ToldIsFresh, Observed
<1> QED
  BY <1>5 DEF Fresh, Settled

LEMMA NextFilled ==
  ASSUME EditsInvalidated, FreshInv, FilledAfter, [Next]_vars
  PROVE  FilledAfter'
<1>0. Resent' = Resent /\ edit \in Edit /\ StoredUntilEdited
  BY DEF Next, vars, Go, Start, Hover, Poll, ServeFetch, FetchAnswered,
         FetchFails, Age, Collect, TheirWrite, Mutate, ServeMutation, MutationAnswered,
         MutationFails, Fill, Save, ServeEdit, EditAnswered, Resent, mine, later,
         FreshInv, TypeOK, Edit, Data
<1>1. CASE Fill
  <2> SUFFICES ASSUME Resent, ~ edit'.old, ~ overtaken, ~ lost
               PROVE  first = "acked" /\ "mine" \in edit'.basis
    BY <1>0, <1>1 DEF FilledAfter, Fill
  <2>1. first = "acked" /\ Settled /\ edit'.basis = entry.data
    BY <1>1 DEF Fill
  <2> QED
    BY <1>1, <2>1, FilledFromFresh DEF Fill
<1>2. CASE Save
  <2> SUFFICES ASSUME Resent, ~ edit'.old, ~ overtaken, ~ lost
               PROVE  first = "acked" /\ "mine" \in edit'.basis
    BY <1>0, <1>2 DEF FilledAfter, Save
  <2>1. CASE edit.at = "filled" /\ edit' = [edit EXCEPT !.at = "sent"]
    BY <1>0, <2>1 DEF FilledAfter, Edit
  <2>2. CASE /\ later.fills = "cached" /\ edit.at = "idle" /\ entry.data # None
             /\ edit' = [at |-> "sent", basis |-> entry.data, old |-> first # "acked" \/ ~ Settled]
    <3>1. first = "acked" /\ Settled /\ edit'.basis = entry.data
      BY <2>2
    <3> QED
      BY <1>2, <2>2, <3>1, FilledFromFresh DEF Save
  <2>3. CASE /\ edit.at = "idle"
             /\ edit' = [at |-> "sent", basis |-> stored, old |-> first # "acked"]
    BY <1>0, <2>3 DEF StoredUntilEdited
  <2> QED
    BY <1>2, <2>1, <2>2, <2>3 DEF Save
<1>3. CASE \/ \E p \in Pages : Go(p)
           \/ ServeEdit \/ EditAnswered
  <2> DEFINE Goal == (edit' = edit /\ UNCHANGED << first, overtaken, lost >>)
                       \/ edit'.at \in {"idle", "done", "over"}
  <2>0. /\ [edit EXCEPT !.at = "idle", !.basis = None].at = "idle"
        /\ [edit EXCEPT !.at = "done"].at = "done"
    BY <1>0 DEF Edit
  <2>1. ASSUME NEW p \in Pages, Go(p) PROVE Goal
    <3>1. edit' = [edit EXCEPT !.at = "idle", !.basis = None] \/ edit' = edit
      BY <2>1 DEF Go
    <3> QED
      BY <2>0, <2>1, <3>1 DEF Go
  <2>2. ASSUME ServeEdit PROVE Goal
    <3>1. edit' = [edit EXCEPT !.at = "done"]
      BY <2>2 DEF ServeEdit
    <3> QED
      BY <2>0, <3>1
  <2>4. ASSUME EditAnswered PROVE Goal
    BY <2>4 DEF EditAnswered
  <2>3. Goal
    BY <1>3, <2>1, <2>2, <2>4
  <2> QED
    BY <1>0, <2>3 DEF FilledAfter
<1>4. CASE \/ Start \/ Hover \/ Poll
           \/ ServeFetch \/ FetchAnswered \/ FetchFails \/ Age \/ Collect
           \/ TheirWrite
           \/ Mutate \/ ServeMutation \/ MutationAnswered \/ MutationFails
           \/ UNCHANGED vars
  <2>1. edit' = edit
    BY <1>4 DEF vars, Start, Hover, Poll, ServeFetch, FetchAnswered,
         FetchFails, Age, Collect, TheirWrite, Mutate, ServeMutation, MutationAnswered,
         MutationFails
  <2>2. (overtaken => overtaken') /\ (lost => lost')
    <3>1. CASE FetchFails
      BY <3>1 DEF FetchFails
    <3>2. CASE MutationAnswered
      BY <3>2 DEF MutationAnswered, OnSuccess
    <3>3. CASE MutationFails
      BY <3>3 DEF MutationFails
    <3>4. CASE \/ Start \/ Hover \/ Poll
               \/ ServeFetch \/ FetchAnswered \/ Age \/ Collect
               \/ TheirWrite
               \/ Mutate \/ ServeMutation
               \/ UNCHANGED vars
      <4>1. overtaken' = overtaken /\ lost' = lost
        BY <3>4 DEF vars, Start, Hover, Poll, ServeFetch, FetchAnswered, Age, Collect,
                    TheirWrite, Mutate, ServeMutation
      <4> QED
        BY <4>1
    <3> QED
      BY <1>4, <3>1, <3>2, <3>3, <3>4
  <2>3. first = "acked" => first' = "acked"
    BY <1>4 DEF vars, Start, Hover, Poll, ServeFetch, FetchAnswered,
         FetchFails, Age, Collect, TheirWrite, Mutate, ServeMutation, MutationAnswered,
         MutationFails
  <2> QED
    BY <1>0, <2>1, <2>2, <2>3 DEF FilledAfter
<1> QED
  BY <1>1, <1>2, <1>3, <1>4 DEF Next

(***************************************************************************)
(* If a mutation invalidates the key of what an edit is filled from, the   *)
(* edit undoes an acknowledged write of the same user only when it was     *)
(* filled before that write was shown.                                     *)
(***************************************************************************)
THEOREM OwnWriteKeptAlways ==
  ASSUME EditsInvalidated
  PROVE  Spec => OwnWriteKept
<1> DEFINE Inv == FreshInv /\ FilledAfter
           Undoes == first = "acked" /\ "mine" \in stored /\ "mine" \notin stored'
<1>1. Init => Inv
  BY InitFresh DEF Init, FilledAfter
<1>2. Inv /\ [Next]_vars => Inv'
  BY NextFreshInv, NextFilled
<1>3. Inv /\ [Next]_vars =>
        [Undoes => edit.old \/ overtaken \/ lost \/ NotShared(mine, later)]_vars
  <2> SUFFICES ASSUME Inv, Next, Undoes, ~ edit.old, ~ overtaken, ~ lost, ~ NotShared(mine, later)
               PROVE  FALSE
    BY DEF vars
  <2>1. ServeEdit
    BY DEF Next, Go, Start, Hover, Poll, ServeFetch, FetchAnswered,
         FetchFails, Age, Collect, TheirWrite, Mutate, ServeMutation, MutationAnswered,
         MutationFails, Fill, Save, EditAnswered
  <2>2. edit.at = "sent" /\ mine.writes \cap later.resends # {} /\ "mine" \notin edit.basis
    BY <2>1 DEF ServeEdit
  <2> QED
    BY <2>2 DEF FilledAfter, Resent
<1> QED
  BY <1>1, <1>2, <1>3, PTL DEF Spec, OwnWriteKept

============================================================================
