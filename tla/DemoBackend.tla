----------------------------- MODULE DemoBackend -----------------------------
(***************************************************************************)
(* The backend of the demo build, which runs in the browser.               *)
(*                                                                         *)
(* Every endpoint is a handler that reads one record from IndexedDB,       *)
(* computes, and writes the whole record back: the same record for every   *)
(* tab, and nothing held between the two.  A handler that wrote in between *)
(* is undone.  What a handler computes is an operator of the record it     *)
(* read, one for each endpoint that writes.                                *)
(*                                                                         *)
(* Left out: teachers, names, rows and scores.                             *)
(***************************************************************************)
EXTENDS Naturals, FiniteSets

CONSTANTS
  Slots,          \* calls that may be under way together
  StudentCount,   \* the students and the templates of a new record
  TemplateCount,
  Classes,        \* the identifiers that calls name
  Users,
  Templates,
  Variants,
  Groups,
  ArchiveAfter,
  MaxTime,
  Scenarios       \* the calls that may be made, and how many

Types == {"idnet", "subnet"}

Times == 0..MaxTime

\* Only the first students can log in.
SeedUsers == 1..StudentCount
SeedTemplates == 1..TemplateCount

ASSUME DemoAssumption ==
  /\ StudentCount \in Nat /\ TemplateCount \in Nat /\ MaxTime \in Nat /\ ArchiveAfter \in Nat
  /\ Classes \subseteq Nat /\ Users \subseteq Nat /\ Templates \subseteq Nat
  /\ Variants \subseteq Nat /\ Groups \subseteq Nat

VARIABLES
  plan,      \* the scenario
  store,     \* the record "state:demo"
  call,      \* the calls under way, with the record each one read
  made,      \* calls made
  now

vars == << plan, store, call, made, now >>

(***************************************************************************)
(* The record.                                                             *)
(***************************************************************************)
DefaultState ==
  [users |-> {[id |-> u, classIds |-> {1}] : u \in SeedUsers},
   classes |-> {1},
   assignments |-> {},
   submissions |-> {},
   templates |-> SeedTemplates]

\* A record without templates is read with the first ones again.
Shape(b) == [b EXCEPT !.templates = IF @ = {} THEN SeedTemplates ELSE @]

\* Mutant: the next identifier is how many there are, and one.
NextIdByCount(S) == 1 + Cardinality(S)

\* One more than the largest, Math.max(0, ...S) + 1.
NextId(S) == 1 + (CHOOSE m \in S \cup {0} : \A n \in S \cup {0} : n <= m)

Ids(S) == {x.id : x \in S}

VariantIds(b) == UNION {Ids(g.variants) : g \in b.assignments}

Without(S, ids) == {x \in S : x.id \notin ids}

Status(g, t) ==
  IF g.completed THEN "ended"
  ELSE IF t < g.start THEN "upcoming"
  ELSE IF t > g.deadline THEN "ended" ELSE "inProgress"

(***************************************************************************)
(* Groups and submissions.                                                 *)
(***************************************************************************)
Targets(b, r) ==
  LET students == {u.id : u \in {v \in b.users : r.class \in v.classIds}}
  IN  IF r.chosen = {} THEN students ELSE students \cap r.chosen

CreateGroupPasses(b, r) == r.class \in b.classes /\ Targets(b, r) # {}

NewVariants(b, r) ==
  LET rank(s) == Cardinality({q \in Targets(b, r) : q < s})
  IN  {[id |-> NextId(VariantIds(b)) + rank(s), student |-> s] : s \in Targets(b, r)}

NewGroup(b, r, t) ==
  [id |-> NextId(Ids(b.assignments)), type |-> r.type,
   start |-> IF r.start < t THEN r.start ELSE t, deadline |-> r.deadline,
   completed |-> FALSE, archived |-> FALSE, variants |-> NewVariants(b, r)]

CreateGroup(b, r, t) == [b EXCEPT !.assignments = @ \cup {NewGroup(b, r, t)}]

EditGroupPasses(b, r) == \E g \in b.assignments : g.id = r.id /\ g.type = r.type

EditGroup(b, r) ==
  [b EXCEPT !.assignments =
    {IF g.id = r.id /\ g.type = r.type THEN [g EXCEPT !.start = r.start, !.deadline = r.deadline] ELSE g :
       g \in @}]

\* The type of the endpoint is not looked at.
DeleteGroups(b, r) ==
  LET gone == UNION {Ids(g.variants) : g \in {h \in b.assignments : h.id \in r.ids}}
  IN  [b EXCEPT !.assignments = Without(@, r.ids),
                !.submissions = {s \in @ : s.variant \notin gone}]

Holders(b, a) == {g \in b.assignments : a \in Ids(g.variants)}

\* Mutant: whoever knows the identifier of a variant may submit it.
SubmitPassesForOthers(b, r, t) ==
  \E g \in Holders(b, r.variant) :
    /\ g.type = r.type
    /\ \A s \in b.submissions : s.variant # r.variant
    /\ Status(g, t) = "inProgress"

SubmitPasses(b, r, t) ==
  \E g \in Holders(b, r.variant) :
    /\ g.type = r.type
    /\ \E v \in g.variants : v.id = r.variant /\ v.student = r.user
    /\ \A s \in b.submissions : s.variant # r.variant
    /\ Status(g, t) = "inProgress"

\* How many students submitted, in the lists and before a group is completed.
Submitted(b, g) == Cardinality({s.student : s \in {q \in b.submissions : q.variant \in Ids(g.variants)}})

AllSubmitted(b, g) == Submitted(b, g) >= Cardinality(Ids(g.variants))

WithSubmission(b, r) == [b EXCEPT !.submissions = @ \cup {[variant |-> r.variant, student |-> r.user]}]

\* The first group found with the variant.
Holder(b, a) == CHOOSE g \in Holders(b, a) : TRUE

Submit(b, r) ==
  LET more == WithSubmission(b, r)
  IN  [more EXCEPT !.assignments =
         {IF g.id = Holder(b, r.variant).id THEN [g EXCEPT !.completed = AllSubmitted(more, g)] ELSE g : g \in @}]

\* Listing the groups archives those that ended long ago, and writes them.
Overdue(g, t) == ~g.archived /\ g.deadline + ArchiveAfter < t

ListGroupsWrites(b, t) == \E g \in b.assignments : Overdue(g, t)

\* Mutant: the list that is answered is the list that is written.
ListGroupsFiltered(b, t) == [b EXCEPT !.assignments = {g \in @ : ~Overdue(g, t)}]

ListGroups(b, t) ==
  [b EXCEPT !.assignments = {IF Overdue(g, t) THEN [g EXCEPT !.archived = TRUE] ELSE g : g \in @}]

(***************************************************************************)
(* Users, classes and templates.                                           *)
(***************************************************************************)
AddUser(b, r) == [b EXCEPT !.users = @ \cup {[id |-> NextId(Ids(b.users)), classIds |-> r.classes]}]

EditUser(b, r) ==
  [b EXCEPT !.users = {IF u.id = r.id THEN [u EXCEPT !.classIds = r.classes] ELSE u : u \in @}]

DeleteUsers(b, r) == [b EXCEPT !.users = Without(@, r.ids)]

AddStudentPasses(b, r) == r.id \in Ids(b.users) /\ r.classes # {} /\ r.classes \subseteq b.classes

AddStudent(b, r) ==
  [b EXCEPT !.users = {IF u.id = r.id THEN [u EXCEPT !.classIds = @ \cup r.classes] ELSE u : u \in @}]

CreateClass(b, r) == [b EXCEPT !.classes = @ \cup {NextId(@)}]

\* The list of students takes out those who are not in it, and adds nobody.
EditClass(b, r) ==
  [b EXCEPT !.users =
    {IF u.id \notin r.students THEN [u EXCEPT !.classIds = @ \ {r.id}] ELSE u : u \in @}]

DeleteClasses(b, r) ==
  [b EXCEPT !.classes = @ \ r.ids,
            !.users = {[u EXCEPT !.classIds = @ \ r.ids] : u \in b.users}]

CreateTemplate(b, r) == [b EXCEPT !.templates = @ \cup {NextId(@)}]

DeleteTemplates(b, r) == [b EXCEPT !.templates = @ \ r.ids]

\* The names and the settings of a template, which are left out, change.
EditTemplate(b) == b

(***************************************************************************)
(* Calls.                                                                  *)
(***************************************************************************)
Requests ==
  [op : {"createGroup"}, type : Types, class : Classes, chosen : SUBSET Users, start : Times, deadline : Times]
    \cup [op : {"editGroup"}, id : Groups, type : Types, start : Times, deadline : Times]
    \cup [op : {"deleteGroups"}, ids : (SUBSET Groups) \ {{}}]
    \cup [op : {"submit"}, variant : Variants, type : Types, user : SeedUsers]
    \cup [op : {"listGroups", "open", "reset", "createClass", "createTemplate"}]
    \cup [op : {"addUser"}, classes : SUBSET Classes]
    \cup [op : {"editUser", "addStudent"}, id : Users, classes : SUBSET Classes]
    \cup [op : {"deleteUsers"}, ids : (SUBSET Users) \ {{}}]
    \cup [op : {"editClass"}, id : Classes, students : SUBSET Users]
    \cup [op : {"deleteClasses"}, ids : (SUBSET Classes) \ {{}}]
    \cup [op : {"editTemplate"}, id : Templates]
    \cup [op : {"deleteTemplates"}, ids : (SUBSET Templates) \ {{}}]

ASSUME ScenariosAssumption == \A s \in Scenarios : s.calls \in Nat /\ s.requests \subseteq Requests

\* Whether a handler writes, rather than refuse or only answer.
Writes(r, b, t) ==
  CASE r.op = "createGroup"  -> CreateGroupPasses(b, r)
    [] r.op = "editGroup"    -> EditGroupPasses(b, r)
    [] r.op = "submit"       -> SubmitPasses(b, r, t)
    [] r.op = "listGroups"   -> ListGroupsWrites(b, t)
    [] r.op = "editUser"     -> r.id \in Ids(b.users)
    [] r.op = "addStudent"   -> AddStudentPasses(b, r)
    [] r.op = "editClass"    -> r.id \in b.classes
    [] r.op = "editTemplate" -> r.id \in b.templates
    [] OTHER                 -> TRUE

Written(r, b, t) ==
  CASE r.op = "createGroup"     -> CreateGroup(b, r, t)
    [] r.op = "editGroup"       -> EditGroup(b, r)
    [] r.op = "deleteGroups"    -> DeleteGroups(b, r)
    [] r.op = "submit"          -> Submit(b, r)
    [] r.op = "listGroups"      -> ListGroups(b, t)
    [] r.op = "addUser"         -> AddUser(b, r)
    [] r.op = "editUser"        -> EditUser(b, r)
    [] r.op = "deleteUsers"     -> DeleteUsers(b, r)
    [] r.op = "addStudent"      -> AddStudent(b, r)
    [] r.op = "createClass"     -> CreateClass(b, r)
    [] r.op = "editClass"       -> EditClass(b, r)
    [] r.op = "deleteClasses"   -> DeleteClasses(b, r)
    [] r.op = "createTemplate"  -> CreateTemplate(b, r)
    [] r.op = "deleteTemplates" -> DeleteTemplates(b, r)
    [] r.op = "editTemplate"    -> EditTemplate(b)
    [] r.op = "reset"           -> DefaultState
    [] OTHER                    -> b

Idle == [at |-> "idle"]

Init ==
  /\ plan \in Scenarios
  /\ store = DefaultState
  /\ call = [c \in Slots |-> Idle]
  /\ made = 0
  /\ now = 0

Ask(c) ==
  /\ call[c].at = "idle"
  /\ made < plan.calls
  /\ \E r \in plan.requests : call' = [call EXCEPT ![c] = [at |-> "asked", request |-> r]]
  /\ made' = made + 1
  /\ UNCHANGED << plan, store, now >>

\* From the answer of readDemoState the handler runs on to its write, or its end.
Read(c) ==
  /\ call[c].at = "asked"
  /\ LET base == Shape(store)
         r == call[c].request
     IN  call' = [call EXCEPT ![c] =
           IF Writes(r, base, now) THEN [at |-> "read", request |-> r, base |-> base, time |-> now] ELSE Idle]
  /\ UNCHANGED << plan, store, made, now >>

\* Mutant: the call is left as failed.
GenerateFailsHangs(c) ==
  /\ call[c].at = "asked"
  /\ call[c].request.op = "createGroup" /\ call[c].request.type = "subnet"
  /\ call' = [call EXCEPT ![c].at = "failed"]
  /\ UNCHANGED << plan, store, made, now >>

\* No addresses are found for the networks of a student.
GenerateFails(c) ==
  /\ call[c].at = "asked"
  /\ call[c].request.op = "createGroup" /\ call[c].request.type = "subnet"
  /\ call' = [call EXCEPT ![c] = Idle]
  /\ UNCHANGED << plan, store, made, now >>

Write(c) ==
  /\ call[c].at = "read"
  /\ store' = Written(call[c].request, call[c].base, call[c].time)
  /\ call' = [call EXCEPT ![c] = Idle]
  /\ UNCHANGED << plan, made, now >>

Tick ==
  /\ now < MaxTime
  /\ now' = now + 1
  /\ UNCHANGED << plan, store, call, made >>

Next ==
  \/ \E c \in Slots : Ask(c) \/ Read(c) \/ GenerateFails(c) \/ Write(c)
  \/ Tick

Spec == Init /\ [][Next]_vars

(***************************************************************************)
(* Properties.                                                             *)
(***************************************************************************)
GroupRecords ==
  [id : Nat, type : Types, start : Times, deadline : Times, completed : BOOLEAN, archived : BOOLEAN,
   variants : SUBSET [id : Nat, student : Nat]]

Blobs ==
  [users : SUBSET [id : Nat, classIds : SUBSET Nat], classes : SUBSET Nat, assignments : SUBSET GroupRecords,
   submissions : SUBSET [variant : Nat, student : Nat], templates : SUBSET Nat]

CallRecords ==
  [at : {"idle"}] \cup [at : {"asked"}, request : Requests]
    \cup [at : {"read"}, request : Requests, base : Blobs, time : Times]

TypeOK ==
  /\ plan \in Scenarios
  /\ store \in Blobs
  /\ call \in [Slots -> CallRecords]
  /\ made \in Nat
  /\ now \in Times

\* The identifiers of groups and of variants tell them apart, although each
\* handler draws them from the record it read.
IdsUnique(b) ==
  \A g, h \in b.assignments :
    /\ g.id = h.id => g = h
    /\ \A v \in g.variants, w \in h.variants : (v.id = w.id \/ (g = h /\ v.student = w.student)) => v = w /\ g = h

\* A submission is for a variant of its student, and is the only one.
SubmissionsHeld(b) ==
  \A s \in b.submissions :
    /\ \E g \in b.assignments : \E v \in g.variants : v.id = s.variant /\ v.student = s.student
    /\ \A q \in b.submissions : q.variant = s.variant => q = s

\* A group is completed when all its variants are submitted, and only then.
CompletedIffAll(b) ==
  \A g \in b.assignments : g.completed <=> \A v \in g.variants : \E s \in b.submissions : s.variant = v.id

(***************************************************************************)
(* Whatever handlers overlap, the record is one that some handlers could   *)
(* have left, one after another: its identifiers are unique, nobody        *)
(* submitted twice or for another, and a group is completed by its last    *)
(* submission.  Overlapping handlers lose changes whole.                   *)
(***************************************************************************)
Consistent == IdsUnique(store) /\ SubmissionsHeld(store) /\ CompletedIffAll(store)

(***************************************************************************)
(* What is in a record, whatever became of it.                             *)
(***************************************************************************)
GroupItems(b)      == {<< "group", g.id, 0 >> : g \in b.assignments}
SubmissionItems(b) == {<< "submission", s.variant, s.student >> : s \in b.submissions}
UserItems(b)       == {<< "user", u.id, 0 >> : u \in b.users}
MemberItems(b)     == UNION {{<< "member", u.id, c >> : c \in u.classIds} : u \in b.users}
ClassItems(b)      == {<< "class", c, 0 >> : c \in b.classes}
TemplateItems(b)   == {<< "template", x, 0 >> : x \in b.templates}

Items(b) ==
  GroupItems(b) \cup SubmissionItems(b) \cup UserItems(b) \cup MemberItems(b) \cup ClassItems(b) \cup TemplateItems(b)

\* What the user of a call asks to be taken out.
AsksOut(r, b, x) ==
  \/ r.op = "reset"
  \/ /\ r.op = "deleteGroups"
     /\ \/ x[1] = "group" /\ x[2] \in r.ids
        \/ x[1] = "submission" /\ \E g \in b.assignments : g.id \in r.ids /\ x[2] \in Ids(g.variants)
  \/ r.op = "deleteUsers" /\ x[1] \in {"user", "member"} /\ x[2] \in r.ids
  \/ r.op = "deleteClasses" /\ ((x[1] = "class" /\ x[2] \in r.ids) \/ (x[1] = "member" /\ x[3] \in r.ids))
  \/ r.op = "editClass" /\ x[1] = "member" /\ x[3] = r.id /\ x[2] \notin r.students
  \/ r.op = "editUser" /\ x[1] = "member" /\ x[2] = r.id /\ x[3] \notin r.classes
  \/ r.op = "deleteTemplates" /\ x[1] = "template" /\ x[2] \in r.ids

\* What the user of a call asks to be put in; a record without templates is
\* given the first ones by whoever reads it.
AsksIn(r, x) ==
  \/ r.op = "reset"
  \/ r.op = "createGroup" /\ x[1] = "group"
  \/ r.op = "submit" /\ x = << "submission", r.variant, r.user >>
  \/ r.op = "addUser" /\ (x[1] = "user" \/ (x[1] = "member" /\ x[3] \in r.classes))
  \/ r.op \in {"editUser", "addStudent"} /\ x[1] = "member" /\ x[2] = r.id /\ x[3] \in r.classes
  \/ r.op = "createClass" /\ x[1] = "class"
  \/ r.op = "createTemplate" /\ x[1] = "template"

OwnChanges(c) ==
  LET base == call[c].base
      r == call[c].request
  IN  /\ \A x \in Items(store) \ Items(store)' : AsksOut(r, base, x) \/ x \notin Items(base)
      /\ \A x \in Items(store)' \ Items(store) : AsksIn(r, x) \/ x \in Items(base)

(***************************************************************************)
(* A group, a submission, a user, a member of a class, a class or a        *)
(* template is gone, or is back, only because the call that writes was     *)
(* asked to, or because something changed after that call had read: a      *)
(* listing, an edit, or another tab that opens loses nothing by itself.    *)
(***************************************************************************)
ChangesStep == \A c \in Slots : call[c].at = "read" /\ call'[c].at = "idle" => OwnChanges(c)

OwnChangesUnlessOverlap == [][ChangesStep]_vars

\* What the pages read from the record.
DetailsRows(b, g) == {v \in g.variants : \E s \in b.submissions : s.variant = v.id}

ScoredRow(b, v) == \E s \in b.submissions : s.variant = v.id /\ s.student = v.student

UserSubmits(b, u) == {s \in b.submissions : s.student = u}

\* The first of the users that can log in as a student, whoever the token names.
DashboardStudent == 1

StudentTotal(b) == Cardinality(UserSubmits(b, DashboardStudent))

TeacherTotal(b) == Cardinality(b.submissions)

\* The page of one variant, which asks the endpoint of the type in its address.
SubmissionShown(b, a, type) ==
  \E g \in Holders(b, a) : g.type = type /\ \E s \in b.submissions : s.variant = a

ClassMembers(b, c) == {u.id : u \in {v \in b.users : c \in v.classIds}}

ClassTotal(b, c) == Cardinality({s \in b.submissions : s.student \in ClassMembers(b, c)})

StudentRows(b, u) == UNION {{v \in g.variants : v.student = u} : g \in b.assignments}

AvailableForSubmission(b, a, t) ==
  \E g \in Holders(b, a) : Status(g, t) = "inProgress" /\ \A s \in b.submissions : s.variant # a

(***************************************************************************)
(* The lists count the students who submitted, the details look for the    *)
(* submission of each variant, a student's own list for the one that is    *)
(* also theirs, and the pages of a student and of a class and the          *)
(* teacher's dashboard count submissions; and the page of a submission is  *)
(* told whether it may be submitted by conditions that the handler of the  *)
(* submit tests again.  The student's dashboard counts what the list of    *)
(* DashboardStudent shows: it agrees with the own list of no other student.*)
(***************************************************************************)
ViewsAgree ==
  /\ \A g \in store.assignments :
       /\ Submitted(store, g) = Cardinality(DetailsRows(store, g))
       /\ DetailsRows(store, g) = {v \in g.variants : ScoredRow(store, v)}
       /\ g.completed <=> Submitted(store, g) = Cardinality(g.variants)
       /\ \A v \in g.variants, type \in Types :
            SubmissionShown(store, v.id, type) <=> type = g.type /\ ScoredRow(store, v)
       /\ \A v \in g.variants :
            AvailableForSubmission(store, v.id, now)
              <=> SubmitPasses(store, [op |-> "submit", variant |-> v.id, type |-> g.type, user |-> v.student], now)
  /\ TeacherTotal(store) = Cardinality(UNION {DetailsRows(store, g) : g \in store.assignments})
  /\ \A u \in Ids(store.users) :
       Cardinality(UserSubmits(store, u)) = Cardinality({v \in StudentRows(store, u) : ScoredRow(store, v)})
  /\ StudentTotal(store) = Cardinality({v \in StudentRows(store, DashboardStudent) : ScoredRow(store, v)})
  /\ \A c \in store.classes :
       ClassTotal(store, c) = Cardinality({v \in UNION {StudentRows(store, u) : u \in ClassMembers(store, c)} :
                                             ScoredRow(store, v)})

============================================================================
