---------------------------- MODULE ClassRosters ----------------------------
(***************************************************************************)
(* The students of a class, which a teacher removes by sending the list of *)
(* those who stay.                                                         *)
(*                                                                         *)
(* The list is what the page shows when the removal is confirmed: the      *)
(* cached answer for the class and the search, or, while that is loading,  *)
(* the answer shown before (TeacherMyClasses, view "list"), or the cached  *)
(* details of the class (TeacherClassDetails, view "details").  The server *)
(* loads the members, takes the list for the new value and saves the       *)
(* difference; it says nothing of what the teacher saw.                    *)
(***************************************************************************)
EXTENDS Naturals, FiniteSets

CONSTANTS
  Students,
  Classes,
  FirstClass,   \* the one the page of the classes opens with
  Matching,     \* those the text of a search matches
  Scenarios,    \* what the user does, and what the other users do
  MaxCalls      \* removals and additions of a behaviour

ASSUME RostersAssumption ==
  /\ FirstClass \in Classes
  /\ Matching \subseteq Students
  /\ MaxCalls \in Nat
  /\ \A s \in Scenarios : s.starts \subseteq [Classes -> SUBSET Students]

VARIABLES
  scenario,
  member,   \* the stored students of each class
  cache,    \* the answer for each key
  fetch,    \* the fetch under way of each key
  page,     \* what is shown, and the students chosen for removal
  calls,    \* the removals and additions
  others    \* changes made by other users so far

vars == << scenario, member, cache, fetch, page, calls, others >>

Keys ==
  {[view |-> "list", class |-> c, search |-> s] : c \in Classes, s \in {"all", "text"}}
    \cup {[view |-> "details", class |-> c, search |-> "all"] : c \in Classes}

NoKey == [view |-> "none", class |-> FirstClass, search |-> "all"]

\* Why an answer may differ from what is stored: other users changed the class
\* since, or this one did, in the same view or in the other; or it was in
\* flight when the change was answered, and was not cancelled.
Whys == {"others", "here", "there", "overtaken"}

Ids == 1..MaxCalls

Answers == [data : SUBSET Students, since : SUBSET Whys]
Nothing == [data |-> {}, since |-> {}]

Entries == [at : {"empty", "valid", "invalid"}, is : Answers]

Fetches == [at : {"none", "sent", "read"}, is : Answers]

\* A call, with those it is about, the list of those who stay, the members found
\* by the server, and why the list may not be theirs.
CallRecords ==
  [at : {"idle", "sent", "loaded", "saved", "over"}, does : {"remove", "add"},
   key : Keys, chosen : SUBSET Students, list : SUBSET Students,
   loaded : SUBSET Students, since : SUBSET Whys, borrowed : BOOLEAN]

TypeOK ==
  /\ scenario \in Scenarios
  /\ member \in [Classes -> SUBSET Students]
  /\ cache \in [Keys -> Entries]
  /\ fetch \in [Keys -> Fetches]
  /\ page \in [key : Keys, from : Keys \cup {NoKey}, chosen : SUBSET Students]
  /\ calls \in [Ids -> CallRecords]
  /\ others \in Nat

Idle == [at |-> "none", is |-> Nothing]
Sent == [at |-> "sent", is |-> Nothing]

FirstKey == [view |-> "list", class |-> FirstClass, search |-> "all"]

NoCall(at) ==
  [at |-> at, does |-> "add", key |-> FirstKey, chosen |-> {}, list |-> {}, loaded |-> {},
   since |-> {}, borrowed |-> FALSE]

Init ==
  /\ scenario \in Scenarios
  /\ member \in scenario.starts
  /\ cache = [k \in Keys |-> [at |-> "empty", is |-> Nothing]]
  /\ fetch = [k \in Keys |-> IF k = FirstKey THEN Sent ELSE Idle]
  /\ page = [key |-> FirstKey, from |-> NoKey, chosen |-> {}]
  /\ calls = [i \in Ids |-> NoCall("idle")]
  /\ others = 0

----------------------------------------------------------------------------
(***************************************************************************)
(* Asking and answering.                                                   *)
(***************************************************************************)
\* What the server answers for a key.
Asked(k) == IF k.search = "all" THEN member[k.class] ELSE member[k.class] \cap Matching

ServeFetch(k) ==
  /\ fetch[k].at = "sent"
  /\ fetch' = [fetch EXCEPT ![k] = [at |-> "read", is |-> [data |-> Asked(k), since |-> {}]]]
  /\ UNCHANGED << scenario, member, cache, page, calls, others >>

\* Mutant: the response is cached, not its data.
ResponseCached(k) ==
  /\ fetch[k].at = "read"
  /\ cache' = [cache EXCEPT ![k] = fetch[k]]
  /\ fetch' = [fetch EXCEPT ![k] = Idle]
  /\ page' = IF page.key = k THEN [page EXCEPT !.from = k] ELSE page
  /\ UNCHANGED << scenario, member, calls, others >>

FetchAnswered(k) ==
  /\ fetch[k].at = "read"
  /\ cache' = [cache EXCEPT ![k] = [at |-> "valid", is |-> fetch[k].is]]
  /\ fetch' = [fetch EXCEPT ![k] = Idle]
  /\ page' = IF page.key = k THEN [page EXCEPT !.from = k] ELSE page
  /\ UNCHANGED << scenario, member, calls, others >>

\* The answer whose students are shown: the one of the key, or else the one
\* shown before it.
From(k, before) == IF cache[k].at = "empty" THEN before ELSE k

Loaded == page.from # NoKey

Shown == cache[page.from].is.data

\* A key comes to be shown: it is fetched unless there is a valid answer that
\* has not aged, or a fetch under way to join.
Show(k, before) ==
  /\ page' = [key |-> k, from |-> From(k, before), chosen |-> {}]
  /\ \/ fetch[k].at = "none" /\ fetch' = [fetch EXCEPT ![k] = Sent]
     \/ (fetch[k].at # "none" \/ cache[k].at = "valid") /\ fetch' = fetch

\* Another class, or the search is typed or cleared.
Select(k) ==
  /\ page.key.view = "list" /\ k.view = "list" /\ k # page.key
  /\ k.class = page.key.class \/ k.search = page.key.search
  /\ k.class = page.key.class \/ scenario.switches
  /\ k.search = page.key.search \/ scenario.searches
  /\ Show(k, page.from)
  /\ UNCHANGED << scenario, member, cache, calls, others >>

OpenDetails ==
  /\ page.key.view = "list" /\ scenario.details
  /\ Show([view |-> "details", class |-> page.key.class, search |-> "all"], NoKey)
  /\ UNCHANGED << scenario, member, cache, calls, others >>

\* The page of the classes forgets the class it was left with.
Back ==
  /\ page.key.view = "details"
  /\ Show(FirstKey, NoKey)
  /\ UNCHANGED << scenario, member, cache, calls, others >>

----------------------------------------------------------------------------
(***************************************************************************)
(* Removing and adding.                                                    *)
(***************************************************************************)
\* A dialog asks whether these are to be removed; the list chooses several, the
\* details one.
Choose(chosen) ==
  /\ Loaded /\ page.chosen = {} /\ chosen # {}
  /\ chosen \subseteq Shown
  /\ page.key.view = "list" \/ Cardinality(chosen) = 1
  /\ page' = [page EXCEPT !.chosen = chosen]
  /\ UNCHANGED << scenario, member, cache, fetch, calls, others >>

Cancel ==
  /\ page.chosen # {}
  /\ page' = [page EXCEPT !.chosen = {}]
  /\ UNCHANGED << scenario, member, cache, fetch, calls, others >>

\* A call is given the next number, within the bound of the scenario.
Unused(i) == i <= scenario.calls /\ calls[i].at = "idle" /\ \A j \in Ids : j < i => calls[j].at # "idle"

\* Those who stay are those shown now, without the chosen.
Confirm(i) ==
  /\ Unused(i) /\ page.chosen # {}
  /\ calls' = [calls EXCEPT ![i] =
       [at |-> "sent", does |-> "remove", key |-> page.key, chosen |-> page.chosen,
        list |-> Shown \ page.chosen, loaded |-> {}, since |-> cache[page.from].is.since,
        borrowed |-> page.from # page.key]]
  /\ page' = [page EXCEPT !.chosen = {}]
  /\ UNCHANGED << scenario, member, cache, fetch, others >>

AddStudent(i, s) ==
  /\ Unused(i) /\ page.chosen = {} /\ scenario.adds
  /\ calls' = [calls EXCEPT ![i] =
       [at |-> "sent", does |-> "add", key |-> page.key, chosen |-> {s}, list |-> {}, loaded |-> {},
        since |-> {}, borrowed |-> FALSE]]
  /\ UNCHANGED << scenario, member, cache, fetch, page, others >>

\* The members of a class become others: what was read before is older, and so is
\* the list of a removal that the server has not yet begun.
Why(i, k) == IF i = 0 THEN "others" ELSE IF k.view = calls[i].key.view THEN "here" ELSE "there"

Older(i, c, k, answer) == IF k.class = c THEN [answer EXCEPT !.since = @ \cup {Why(i, k)}] ELSE answer

Becomes(i, c, m, called) ==
  /\ member' = [member EXCEPT ![c] = m]
  /\ cache' = [k \in Keys |-> IF cache[k].at = "empty" THEN cache[k]
                              ELSE [cache[k] EXCEPT !.is = Older(i, c, k, @)]]
  /\ fetch' = [k \in Keys |-> IF fetch[k].at # "read" THEN fetch[k]
                              ELSE [fetch[k] EXCEPT !.is = Older(i, c, k, @)]]
  /\ calls' = [j \in Ids |-> IF called[j].at = "sent" /\ called[j].does = "remove" /\ called[j].key.class = c
                             THEN [called[j] EXCEPT !.since = @ \cup {Why(i, called[j].key)}]
                             ELSE called[j]]

\* EditClass and AddUserToClasses find the class with its members.
LoadClass(i) ==
  /\ calls[i].at = "sent"
  /\ calls' = [calls EXCEPT ![i].at = "loaded", ![i].loaded = member[calls[i].key.class]]
  /\ UNCHANGED << scenario, member, cache, fetch, page, others >>

\* The list becomes the students of the class; or the added one joins them, unless
\* found among them.
Leaving(call) == IF call.does = "remove" THEN call.loaded \ call.list ELSE {}
Joining(call) == (IF call.does = "remove" THEN call.list ELSE call.chosen) \ call.loaded

\* Mutant: the list replaces the members.
SaveReplaces(i) ==
  LET c == calls[i].key.class IN
  /\ calls[i].at = "loaded"
  /\ Becomes(i, c, IF calls[i].does = "remove" THEN calls[i].list ELSE member[c] \cup calls[i].chosen, [calls EXCEPT ![i].at = "saved"])
  /\ UNCHANGED << scenario, page, others >>

\* A row that is there already cannot be inserted, one that is gone not deleted.
Fits(call) ==
  /\ Joining(call) \cap member[call.key.class] = {}
  /\ Leaving(call) \subseteq member[call.key.class]

\* The rows of the difference to what was loaded are deleted and inserted: all or
\* none.
SaveClass(i) ==
  LET c == calls[i].key.class IN
  /\ calls[i].at = "loaded"
  /\ IF Fits(calls[i])
     THEN Becomes(i, c, (member[c] \ Leaving(calls[i])) \cup Joining(calls[i]),
                  [calls EXCEPT ![i].at = "saved"])
     ELSE calls' = [calls EXCEPT ![i] = NoCall("over")] /\ UNCHANGED << member, cache, fetch >>
  /\ UNCHANGED << scenario, page, others >>

\* Mutant: only the key that is shown is invalidated, by its search.
HitExactly(call, k) == k.view = call.key.view /\ k.search = call.key.search

\* The list invalidates the answers for all classes and searches, the details
\* those of their class; neither those of the other.
Hit(call, k) == k.view = call.key.view /\ (k.view = "list" \/ k.class = call.key.class)

\* What is shown is fetched again; a fetch under way is cancelled for it, unless
\* it is the first.
Refetched(k) ==
  IF k = page.key /\ (fetch[k].at = "none" \/ cache[k].at # "empty") THEN Sent
  ELSE IF fetch[k].at = "read" THEN [fetch[k] EXCEPT !.is.since = @ \cup {"overtaken"}]
  ELSE fetch[k]

Answered(i) ==
  /\ calls[i].at = "saved"
  /\ calls' = [calls EXCEPT ![i] = NoCall("over")]
  /\ cache' = [k \in Keys |-> IF Hit(calls[i], k) /\ cache[k].at = "valid"
                              THEN [cache[k] EXCEPT !.at = "invalid"] ELSE cache[k]]
  /\ fetch' = [k \in Keys |-> IF Hit(calls[i], k) THEN Refetched(k) ELSE fetch[k]]
  /\ UNCHANGED << scenario, member, page, others >>

\* Another teacher or an administrator adds or removes a student.
OthersChange(c, s) ==
  /\ others < scenario.others
  /\ others' = others + 1
  /\ \/ Becomes(0, c, member[c] \cup {s}, calls)
     \/ Becomes(0, c, member[c] \ {s}, calls)
  /\ UNCHANGED << scenario, page >>

Next ==
  \/ \E k \in Keys : ServeFetch(k) \/ FetchAnswered(k) \/ Select(k)
  \/ OpenDetails \/ Back
  \/ \E chosen \in SUBSET Students : Choose(chosen)
  \/ Cancel
  \/ \E i \in Ids : Confirm(i) \/ LoadClass(i) \/ SaveClass(i) \/ Answered(i)
  \/ \E i \in Ids, s \in Students : AddStudent(i, s)
  \/ \E c \in Classes, s \in Students : OthersChange(c, s)

Spec == Init /\ [][Next]_vars

----------------------------------------------------------------------------
RemovalSaved(i) == calls[i].does = "remove" /\ calls[i].at = "loaded" /\ calls'[i].at = "saved"

Gone(i) == LET c == calls[i].key.class IN member[c] \ member'[c]
Returned(i) == LET c == calls[i].key.class IN member'[c] \ member[c]

ChosenLeave ==
  \A i \in Ids : RemovalSaved(i) =>
    \/ Gone(i) \subseteq calls[i].chosen /\ Returned(i) = {}
    \/ calls[i].key.search = "text" \/ calls[i].borrowed \/ calls[i].since # {}

\* A removal takes out the students it was confirmed for, and no one else, and
\* brings no one back, unless the list shown was that of a search, or of another
\* class or search because the new one was loading, or the class was changed
\* after the list was read and before the server began the removal.  However
\* additions, removals and other users overlap from there, they do not matter.
OnlyChosenLeave == [][ChosenLeave]_vars

\* Once its calls are answered and nothing is under way, a page shows what they
\* have done, unless a first load was overtaken by one of them.  What is done in
\* the other view, or by others, it may not show.
RestShowsOwnChanges ==
  (page.from = page.key /\ fetch[page.key].at = "none" /\ \A i \in Ids : calls[i].at \in {"idle", "over"})
  => "here" \notin cache[page.key].is.since \/ "overtaken" \in cache[page.key].is.since

\* The students of another class or search are shown, and can be removed from this
\* one, only while it is being fetched.
BorrowedWhileLoading ==
  page.from # page.key => fetch[page.key].at # "none"

\* "You are about to remove this student from the class": nobody else leaves.
RemovesOnlyTheChosen == [][\A i \in Ids : RemovalSaved(i) => Gone(i) \subseteq calls[i].chosen]_vars

============================================================================
