------------------------- MODULE DemoBackend_proofs -------------------------
(***************************************************************************)
(* The record of the demo stays consistent for any number of tabs, users   *)
(* and calls: each handler leaves a consistent record from a consistent    *)
(* one, and what it read was consistent when it was stored.                *)
(***************************************************************************)
EXTENDS DemoBackend, FiniteSetTheorems, WellFoundedInduction, TLAPS

Bounded(S) == \E n \in Nat : \A m \in S : m <= n

\* What every handler may rely on and must leave.
Sound(b) ==
  /\ b \in Blobs
  /\ IsFiniteSet(b.users)
  /\ Bounded(Ids(b.users)) /\ Bounded(b.classes) /\ Bounded(b.templates)
  /\ Bounded(Ids(b.assignments)) /\ Bounded(VariantIds(b))
  /\ \A g \in b.assignments : IsFiniteSet(g.variants)
  /\ IdsUnique(b) /\ SubmissionsHeld(b) /\ CompletedIffAll(b)

Inv ==
  /\ TypeOK
  /\ Sound(store)
  /\ \A c \in Slots :
       call[c].at = "read" => Sound(call[c].base) /\ Writes(call[c].request, call[c].base, call[c].time)

(***************************************************************************)
(* The identifier a handler draws is above all that are in use.            *)
(***************************************************************************)
LEMMA NextIdAbove ==
  ASSUME NEW S, S \subseteq Nat, Bounded(S)
  PROVE  /\ NextId(S) \in Nat
         /\ \A m \in S : m < NextId(S)
         /\ Bounded(S \cup {NextId(S)})
<1> DEFINE Above == {n \in Nat : \A m \in S \cup {0} : m <= n}
<1>1. PICK top \in Nat : \A m \in S : m <= top
  BY DEF Bounded
<1>2. top \in Above
  BY <1>1
<1>3. \E x \in Above : \A y \in Above : ~(<< y, x >> \in OpToRel(<, Nat))
  <2> HIDE DEF Above
  <2>1. Above \subseteq Nat /\ Above # {}
    BY <1>2 DEF Above
  <2> QED
    BY <2>1, NatLessThanWellFounded, WFMin
<1>4. PICK least \in Above : \A y \in Above : ~(y < least)
  BY <1>3 DEF OpToRel
<1>5. least \in S \cup {0}
  <2>1. SUFFICES ASSUME least \notin S \cup {0} PROVE FALSE
    OBVIOUS
  <2>2. least \in Nat /\ least # 0
    BY <2>1
  <2>3. \A m \in S \cup {0} : m <= least - 1
    BY <2>1, <2>2
  <2>4. least - 1 \in Above
    BY <2>2, <2>3
  <2> QED
    BY <1>4, <2>2, <2>4
<1>6. \E m \in S \cup {0} : \A n \in S \cup {0} : n <= m
  BY <1>5
<1> DEFINE last == CHOOSE m \in S \cup {0} : \A n \in S \cup {0} : n <= m
<1>7. last \in S \cup {0} /\ \A n \in S \cup {0} : n <= last
  BY <1>6
<1> HIDE DEF last
<1>8. NextId(S) = 1 + last
  BY DEF NextId, last
<1>9. NextId(S) \in Nat /\ \A m \in S : m < NextId(S)
  BY <1>7, <1>8
<1> QED
  BY <1>9 DEF Bounded

LEMMA BoundedSubset ==
  ASSUME NEW S, NEW T, Bounded(S), T \subseteq S
  PROVE  Bounded(T)
BY DEF Bounded

(***************************************************************************)
(* The first record, and a record read without templates.                  *)
(***************************************************************************)
LEMMA DefaultSound == Sound(DefaultState)
<1>1. DefaultState \in Blobs
  BY DemoAssumption DEF DefaultState, Blobs, SeedUsers, SeedTemplates
<1>2. IsFiniteSet(SeedUsers)
  BY DemoAssumption, FS_Interval DEF SeedUsers
<1>3. IsFiniteSet(DefaultState.users)
  <2> DEFINE f == [u \in SeedUsers |-> [id |-> u, classIds |-> {1}]]
  <2>1. f \in Surjection(SeedUsers, DefaultState.users)
    BY DEF Surjection, DefaultState
  <2> QED
    BY <1>2, <2>1, FS_Surjection
<1>4. Ids(DefaultState.users) \subseteq 1..StudentCount
  BY DEF Ids, DefaultState, SeedUsers
<1>5. /\ Bounded(Ids(DefaultState.users)) /\ Bounded(DefaultState.classes)
      /\ Bounded(DefaultState.templates)
  <2>1. Bounded(Ids(DefaultState.users))
    BY <1>4, DemoAssumption DEF Bounded
  <2>2. DefaultState.classes = {1} /\ DefaultState.templates = 1..TemplateCount
    BY DEF DefaultState, SeedTemplates
  <2>3. Bounded({1}) /\ Bounded(1..TemplateCount)
    <3>1. \A m \in {1} : m <= 1
      OBVIOUS
    <3>2. \A m \in 1..TemplateCount : m <= TemplateCount
      OBVIOUS
    <3> QED
      BY <3>1, <3>2, DemoAssumption DEF Bounded
  <2> QED
    BY <2>1, <2>2, <2>3
<1>6. Ids(DefaultState.assignments) = {} /\ VariantIds(DefaultState) = {}
  BY DEF Ids, VariantIds, DefaultState
<1> QED
  BY <1>1, <1>3, <1>5, <1>6
  DEF Sound, Bounded, IdsUnique, SubmissionsHeld, CompletedIffAll, DefaultState

LEMMA ShapeSound ==
  ASSUME NEW b, Sound(b)
  PROVE  Sound(Shape(b))
<1>1. Shape(b) \in Blobs
  BY DemoAssumption DEF Sound, Shape, Blobs, SeedTemplates
<1>2. /\ Shape(b).users = b.users /\ Shape(b).classes = b.classes
      /\ Shape(b).assignments = b.assignments /\ Shape(b).submissions = b.submissions
  BY DEF Sound, Shape, Blobs
<1>3. Bounded(Shape(b).templates)
  BY DemoAssumption DEF Sound, Shape, Blobs, Bounded, SeedTemplates
<1>4. VariantIds(Shape(b)) = VariantIds(b)
  BY <1>2 DEF VariantIds
<1> QED
  BY <1>1, <1>2, <1>3, <1>4 DEF Sound, IdsUnique, SubmissionsHeld, CompletedIffAll

(***************************************************************************)
(* Handlers that leave the groups and the submissions as they are.         *)
(***************************************************************************)
LEMMA OthersSound ==
  ASSUME NEW b, Sound(b), NEW q \in Blobs,
         q.assignments = b.assignments, q.submissions = b.submissions,
         IsFiniteSet(q.users), Bounded(Ids(q.users)), Bounded(q.classes), Bounded(q.templates)
  PROVE  Sound(q)
<1>1. VariantIds(q) = VariantIds(b)
  BY DEF VariantIds
<1> QED
  BY <1>1 DEF Sound, IdsUnique, SubmissionsHeld, CompletedIffAll

\* Users are changed one by one and keep their identifiers.
LEMMA UsersChanged ==
  ASSUME NEW S, IsFiniteSet(S), Bounded(Ids(S)), NEW T, NEW f \in [S -> T],
         T = {f[u] : u \in S}, \A u \in S : f[u].id = u.id
  PROVE  IsFiniteSet(T) /\ Bounded(Ids(T))
<1>1. f \in Surjection(S, T)
  BY DEF Surjection
<1>2. IsFiniteSet(T)
  BY <1>1, FS_Surjection
<1>3. Ids(T) \subseteq Ids(S)
  BY DEF Ids
<1> QED
  BY <1>2, <1>3, BoundedSubset

LEMMA AddUserSound ==
  ASSUME NEW b, Sound(b), NEW r, r.classes \subseteq Nat
  PROVE  Sound(AddUser(b, r))
<1> DEFINE new == [id |-> NextId(Ids(b.users)), classIds |-> r.classes]
           q == AddUser(b, r)
<1>1. Ids(b.users) \subseteq Nat
  BY DEF Sound, Blobs, Ids
<1>2. NextId(Ids(b.users)) \in Nat /\ Bounded(Ids(b.users) \cup {NextId(Ids(b.users))})
  BY <1>1, NextIdAbove DEF Sound
<1>3. new \in [id : Nat, classIds : SUBSET Nat]
  BY <1>2
<1>4. q = [b EXCEPT !.users = b.users \cup {new}]
  BY DEF AddUser
<1> HIDE DEF q
<1>5. /\ q \in Blobs /\ q.users = b.users \cup {new} /\ q.classes = b.classes /\ q.templates = b.templates
      /\ q.assignments = b.assignments /\ q.submissions = b.submissions
  BY <1>3, <1>4 DEF Sound, Blobs
<1>6. IsFiniteSet(q.users)
  BY <1>5, FS_AddElement DEF Sound
<1>7. Ids(q.users) = Ids(b.users) \cup {NextId(Ids(b.users))}
  <2>1. Ids(q.users) = Ids(b.users) \cup {new.id}
    <3> HIDE DEF new
    <3> QED
      BY <1>5 DEF Ids
  <2> QED
    BY <2>1
<1>8. Sound(q)
  BY <1>2, <1>5, <1>6, <1>7, OthersSound DEF Sound
<1> QED
  BY <1>8 DEF q

LEMMA EditUserSound ==
  ASSUME NEW b, Sound(b), NEW r, r.classes \subseteq Nat
  PROVE  Sound(EditUser(b, r))
<1> DEFINE f == [u \in b.users |-> IF u.id = r.id THEN [u EXCEPT !.classIds = r.classes] ELSE u]
           T == {f[u] : u \in b.users}
           q == EditUser(b, r)
<1>1. \A u \in b.users : f[u] \in [id : Nat, classIds : SUBSET Nat] /\ f[u].id = u.id
  BY DEF Sound, Blobs
<1>2. q = [b EXCEPT !.users = T]
  BY DEF EditUser
<1> HIDE DEF f, q
<1>3. IsFiniteSet(T) /\ Bounded(Ids(T))
  <2>1. f \in [b.users -> T]
    BY DEF f
  <2> QED
    BY <1>1, <2>1, UsersChanged DEF Sound
<1>4. /\ q \in Blobs /\ q.users = T /\ q.classes = b.classes /\ q.templates = b.templates
      /\ q.assignments = b.assignments /\ q.submissions = b.submissions
  BY <1>1, <1>2 DEF Sound, Blobs
<1>5. Sound(q)
  BY <1>3, <1>4, OthersSound DEF Sound
<1> QED
  BY <1>5 DEF q

LEMMA AddStudentSound ==
  ASSUME NEW b, Sound(b), NEW r, r.classes \subseteq Nat
  PROVE  Sound(AddStudent(b, r))
<1> DEFINE f == [u \in b.users |-> IF u.id = r.id THEN [u EXCEPT !.classIds = @ \cup r.classes] ELSE u]
           T == {f[u] : u \in b.users}
           q == AddStudent(b, r)
<1>1. \A u \in b.users : f[u] \in [id : Nat, classIds : SUBSET Nat] /\ f[u].id = u.id
  BY DEF Sound, Blobs
<1>2. q = [b EXCEPT !.users = T]
  BY DEF AddStudent
<1> HIDE DEF f, q
<1>3. IsFiniteSet(T) /\ Bounded(Ids(T))
  <2>1. f \in [b.users -> T]
    BY DEF f
  <2> QED
    BY <1>1, <2>1, UsersChanged DEF Sound
<1>4. /\ q \in Blobs /\ q.users = T /\ q.classes = b.classes /\ q.templates = b.templates
      /\ q.assignments = b.assignments /\ q.submissions = b.submissions
  BY <1>1, <1>2 DEF Sound, Blobs
<1>5. Sound(q)
  BY <1>3, <1>4, OthersSound DEF Sound
<1> QED
  BY <1>5 DEF q

LEMMA DeleteUsersSound ==
  ASSUME NEW b, Sound(b), NEW r
  PROVE  Sound(DeleteUsers(b, r))
<1> DEFINE q == DeleteUsers(b, r)
<1>1. /\ q \in Blobs /\ q.users \subseteq b.users /\ q.classes = b.classes /\ q.templates = b.templates
      /\ q.assignments = b.assignments /\ q.submissions = b.submissions
  BY DEF Sound, Blobs, DeleteUsers, Without
<1> HIDE DEF q
<1>2. IsFiniteSet(q.users)
  BY <1>1, FS_Subset DEF Sound
<1>3. Ids(q.users) \subseteq Ids(b.users)
  BY <1>1 DEF Ids
<1>4. Sound(q)
  BY <1>1, <1>2, <1>3, BoundedSubset, OthersSound DEF Sound
<1> QED
  BY <1>4 DEF q

LEMMA CreateClassSound ==
  ASSUME NEW b, Sound(b), NEW r
  PROVE  Sound(CreateClass(b, r))
<1> DEFINE q == CreateClass(b, r)
<1>1. NextId(b.classes) \in Nat /\ Bounded(b.classes \cup {NextId(b.classes)})
  BY NextIdAbove DEF Sound, Blobs
<1>2. /\ q \in Blobs /\ q.users = b.users /\ q.classes = b.classes \cup {NextId(b.classes)}
      /\ q.templates = b.templates /\ q.assignments = b.assignments /\ q.submissions = b.submissions
  BY <1>1 DEF Sound, Blobs, CreateClass
<1> HIDE DEF q
<1>3. Sound(q)
  BY <1>1, <1>2, OthersSound DEF Sound
<1> QED
  BY <1>3 DEF q

LEMMA CreateTemplateSound ==
  ASSUME NEW b, Sound(b), NEW r
  PROVE  Sound(CreateTemplate(b, r))
<1> DEFINE q == CreateTemplate(b, r)
<1>1. NextId(b.templates) \in Nat /\ Bounded(b.templates \cup {NextId(b.templates)})
  BY NextIdAbove DEF Sound, Blobs
<1>2. /\ q \in Blobs /\ q.users = b.users /\ q.classes = b.classes
      /\ q.templates = b.templates \cup {NextId(b.templates)}
      /\ q.assignments = b.assignments /\ q.submissions = b.submissions
  BY <1>1 DEF Sound, Blobs, CreateTemplate
<1> HIDE DEF q
<1>3. Sound(q)
  BY <1>1, <1>2, OthersSound DEF Sound
<1> QED
  BY <1>3 DEF q

LEMMA DeleteTemplatesSound ==
  ASSUME NEW b, Sound(b), NEW r
  PROVE  Sound(DeleteTemplates(b, r))
<1> DEFINE q == DeleteTemplates(b, r)
<1>1. /\ q \in Blobs /\ q.users = b.users /\ q.classes = b.classes /\ q.templates \subseteq b.templates
      /\ q.assignments = b.assignments /\ q.submissions = b.submissions
  BY DEF Sound, Blobs, DeleteTemplates
<1> HIDE DEF q
<1>2. Sound(q)
  BY <1>1, BoundedSubset, OthersSound DEF Sound
<1> QED
  BY <1>2 DEF q

LEMMA EditClassSound ==
  ASSUME NEW b, Sound(b), NEW r
  PROVE  Sound(EditClass(b, r))
<1> DEFINE f == [u \in b.users |-> IF u.id \notin r.students THEN [u EXCEPT !.classIds = @ \ {r.id}] ELSE u]
           T == {f[u] : u \in b.users}
           q == EditClass(b, r)
<1>1. \A u \in b.users : f[u] \in [id : Nat, classIds : SUBSET Nat] /\ f[u].id = u.id
  BY DEF Sound, Blobs
<1>2. q = [b EXCEPT !.users = T]
  BY DEF EditClass
<1> HIDE DEF f, q
<1>3. IsFiniteSet(T) /\ Bounded(Ids(T))
  <2>1. f \in [b.users -> T]
    BY DEF f
  <2> QED
    BY <1>1, <2>1, UsersChanged DEF Sound
<1>4. /\ q \in Blobs /\ q.users = T /\ q.classes = b.classes /\ q.templates = b.templates
      /\ q.assignments = b.assignments /\ q.submissions = b.submissions
  BY <1>1, <1>2 DEF Sound, Blobs
<1>5. Sound(q)
  BY <1>3, <1>4, OthersSound DEF Sound
<1> QED
  BY <1>5 DEF q

LEMMA DeleteClassesSound ==
  ASSUME NEW b, Sound(b), NEW r
  PROVE  Sound(DeleteClasses(b, r))
<1> DEFINE f == [u \in b.users |-> [u EXCEPT !.classIds = @ \ r.ids]]
           T == {f[u] : u \in b.users}
           left == b.classes \ r.ids
           q == DeleteClasses(b, r)
<1>1. \A u \in b.users : f[u] \in [id : Nat, classIds : SUBSET Nat] /\ f[u].id = u.id
  BY DEF Sound, Blobs
<1>2. q = [b EXCEPT !.classes = left, !.users = T]
  BY DEF DeleteClasses
<1> HIDE DEF f, q
<1>3. IsFiniteSet(T) /\ Bounded(Ids(T))
  <2>1. f \in [b.users -> T]
    BY DEF f
  <2> QED
    BY <1>1, <2>1, UsersChanged DEF Sound
<1>4. /\ q \in Blobs /\ q.users = T /\ q.classes \subseteq b.classes /\ q.templates = b.templates
      /\ q.assignments = b.assignments /\ q.submissions = b.submissions
  <2>1. T \subseteq [id : Nat, classIds : SUBSET Nat] /\ left \subseteq b.classes
    BY <1>1
  <2> HIDE DEF T, left
  <2> QED
    BY <1>2, <2>1 DEF Sound, Blobs
<1>5. Sound(q)
  BY <1>3, <1>4, BoundedSubset, OthersSound DEF Sound
<1> QED
  BY <1>5 DEF q

(***************************************************************************)
(* Handlers of groups that keep identifiers, variants and completion.      *)
(***************************************************************************)
LEMMA GroupsChanged ==
  ASSUME NEW b, Sound(b), NEW T, NEW f \in [b.assignments -> T], T = {f[g] : g \in b.assignments},
         \A g \in b.assignments : /\ f[g] \in GroupRecords /\ f[g].id = g.id
                                  /\ f[g].variants = g.variants /\ f[g].completed = g.completed,
         NEW q, q = [b EXCEPT !.assignments = T]
  PROVE  Sound(q)
<1>1. /\ q \in Blobs /\ q.users = b.users /\ q.classes = b.classes /\ q.templates = b.templates
      /\ q.assignments = T /\ q.submissions = b.submissions
  BY DEF Sound, Blobs
<1>2. \A h \in T : \E g \in b.assignments : h = f[g]
  OBVIOUS
<1>3. Ids(T) \subseteq Ids(b.assignments)
  BY DEF Ids
<1>4. VariantIds(q) \subseteq VariantIds(b)
  BY <1>1, <1>2 DEF VariantIds, Ids
<1>5. \A g \in T : IsFiniteSet(g.variants)
  BY <1>2 DEF Sound
<1>6. IdsUnique(q)
  <2>1. ASSUME NEW g \in b.assignments, NEW h \in b.assignments, f[g].id = f[h].id
        PROVE  f[g] = f[h]
    BY <2>1 DEF Sound, IdsUnique
  <2>2. ASSUME NEW g \in b.assignments, NEW h \in b.assignments,
               NEW v \in f[g].variants, NEW w \in f[h].variants,
               v.id = w.id \/ (f[g] = f[h] /\ v.student = w.student)
        PROVE  v = w /\ f[g] = f[h]
    <3>1. CASE v.id = w.id
      BY <3>1 DEF Sound, IdsUnique
    <3>2. CASE f[g] = f[h] /\ v.student = w.student
      <4>1. g = h
        BY <3>2 DEF Sound, IdsUnique
      <4> QED
        BY <3>2, <4>1 DEF Sound, IdsUnique
    <3> QED
      BY <2>2, <3>1, <3>2
  <2> QED
    BY <1>1, <1>2, <2>1, <2>2 DEF IdsUnique
<1>7. SubmissionsHeld(q)
  <2>1. ASSUME NEW s \in b.submissions
        PROVE  \E g \in T : \E v \in g.variants : v.id = s.variant /\ v.student = s.student
    <3>1. PICK g \in b.assignments : \E v \in g.variants : v.id = s.variant /\ v.student = s.student
      BY DEF Sound, SubmissionsHeld
    <3>2. f[g] \in T /\ f[g].variants = g.variants
      OBVIOUS
    <3> QED
      BY <3>1, <3>2
  <2> QED
    BY <1>1, <2>1 DEF Sound, SubmissionsHeld
<1>8. CompletedIffAll(q)
  BY <1>1, <1>2 DEF Sound, CompletedIffAll
<1> QED
  BY <1>1, <1>3, <1>4, <1>5, <1>6, <1>7, <1>8, BoundedSubset DEF Sound

LEMMA EditGroupSound ==
  ASSUME NEW b, Sound(b), NEW r, r.start \in Times, r.deadline \in Times
  PROVE  Sound(EditGroup(b, r))
<1> DEFINE f == [g \in b.assignments |-> IF g.id = r.id /\ g.type = r.type
                                         THEN [g EXCEPT !.start = r.start, !.deadline = r.deadline] ELSE g]
           T == {f[g] : g \in b.assignments}
<1>1. \A g \in b.assignments : /\ f[g] \in GroupRecords /\ f[g].id = g.id
                               /\ f[g].variants = g.variants /\ f[g].completed = g.completed
  BY DEF Sound, Blobs, GroupRecords
<1>2. EditGroup(b, r) = [b EXCEPT !.assignments = T]
  BY DEF EditGroup
<1>3. f \in [b.assignments -> T]
  OBVIOUS
<1> HIDE DEF f
<1> QED
  BY <1>1, <1>2, <1>3, GroupsChanged

LEMMA ListGroupsSound ==
  ASSUME NEW b, Sound(b), NEW t
  PROVE  Sound(ListGroups(b, t))
<1> DEFINE f == [g \in b.assignments |-> IF Overdue(g, t) THEN [g EXCEPT !.archived = TRUE] ELSE g]
           T == {f[g] : g \in b.assignments}
<1>1. \A g \in b.assignments : /\ f[g] \in GroupRecords /\ f[g].id = g.id
                               /\ f[g].variants = g.variants /\ f[g].completed = g.completed
  BY DEF Sound, Blobs, GroupRecords
<1>2. ListGroups(b, t) = [b EXCEPT !.assignments = T]
  BY DEF ListGroups
<1>3. f \in [b.assignments -> T]
  OBVIOUS
<1> HIDE DEF f
<1> QED
  BY <1>1, <1>2, <1>3, GroupsChanged

LEMMA DeleteGroupsSound ==
  ASSUME NEW b, Sound(b), NEW r
  PROVE  Sound(DeleteGroups(b, r))
<1> DEFINE gone == UNION {Ids(g.variants) : g \in {h \in b.assignments : h.id \in r.ids}}
           kept == {g \in b.assignments : g.id \notin r.ids}
           left == {s \in b.submissions : s.variant \notin gone}
           q == DeleteGroups(b, r)
<1>1. q = [b EXCEPT !.assignments = kept, !.submissions = left]
  BY DEF DeleteGroups, Without
<1>2. \A a : a \in gone <=> \E g \in b.assignments : g.id \in r.ids /\ \E v \in g.variants : v.id = a
  BY DEF Ids
<1> HIDE DEF q, gone
<1>3. kept \subseteq b.assignments /\ left \subseteq b.submissions
  OBVIOUS
<1>4. /\ q \in Blobs /\ q.users = b.users /\ q.classes = b.classes /\ q.templates = b.templates
      /\ q.assignments = kept /\ q.submissions = left
  <2> HIDE DEF kept, left
  <2> QED
    BY <1>1, <1>3 DEF Sound, Blobs
<1>5. Ids(kept) \subseteq Ids(b.assignments)
  BY DEF Ids
<1>6. VariantIds(q) \subseteq VariantIds(b)
  BY <1>4 DEF VariantIds
<1>7. IdsUnique(q)
  BY <1>4 DEF Sound, IdsUnique
<1>8. SubmissionsHeld(q)
  <2>1. ASSUME NEW s \in left
        PROVE  \E g \in kept : \E v \in g.variants : v.id = s.variant /\ v.student = s.student
    <3>1. PICK g \in b.assignments : \E v \in g.variants : v.id = s.variant /\ v.student = s.student
      BY DEF Sound, SubmissionsHeld
    <3>2. g.id \notin r.ids
      BY <1>2, <3>1
    <3> QED
      BY <3>1, <3>2
  <2> QED
    BY <1>4, <2>1 DEF Sound, SubmissionsHeld
<1>9. CompletedIffAll(q)
  <2>1. ASSUME NEW g \in kept, NEW v \in g.variants
        PROVE  v.id \notin gone
    BY <1>2 DEF Sound, IdsUnique
  <2>2. ASSUME NEW g \in kept
        PROVE  (\A v \in g.variants : \E s \in b.submissions : s.variant = v.id)
                 <=> (\A v \in g.variants : \E s \in left : s.variant = v.id)
    BY <2>1
  <2> QED
    BY <1>4, <2>2 DEF Sound, CompletedIffAll
<1>10. Sound(q)
  BY <1>4, <1>5, <1>6, <1>7, <1>8, <1>9, BoundedSubset DEF Sound
<1> QED
  BY <1>10 DEF q

(***************************************************************************)
(* The variants of a new group have identifiers of their own, above all    *)
(* others: the rank of a student tells the variants of the group apart.    *)
(***************************************************************************)
LEMMA NewVariantsApart ==
  ASSUME NEW b, Sound(b), NEW r
  PROVE  /\ NewVariants(b, r) \in SUBSET [id : Nat, student : Nat]
         /\ IsFiniteSet(NewVariants(b, r))
         /\ \A v, w \in NewVariants(b, r) : v.id = w.id \/ v.student = w.student => v = w
         /\ \A v \in NewVariants(b, r) : \A a \in VariantIds(b) : a < v.id
         /\ Bounded(Ids(NewVariants(b, r)))
<1> DEFINE S == Targets(b, r)
           before(s) == {q \in S : q < s}
           first == NextId(VariantIds(b))
<1>1. S \subseteq Ids(b.users) /\ Ids(b.users) \subseteq Nat
  BY DEF Targets, Ids, Sound, Blobs
<1>2. IsFiniteSet(S)
  <2>1. PICK n \in Nat : \A i \in Ids(b.users) : i <= n
    BY DEF Sound, Bounded
  <2> QED
    BY <1>1, <2>1, FS_BoundedSetOfNaturals
<1>3. VariantIds(b) \subseteq Nat
  BY DEF Sound, Blobs, VariantIds, Ids, GroupRecords
<1>4. first \in Nat /\ \A a \in VariantIds(b) : a < first
  BY <1>3, NextIdAbove DEF Sound
<1> HIDE DEF S, first
<1>5. \A s \in S : /\ IsFiniteSet(before(s)) /\ Cardinality(before(s)) \in Nat
                   /\ Cardinality(before(s)) <= Cardinality(S)
  BY <1>2, FS_Subset, FS_CardinalityType
<1>6. \A s, t \in S : s < t => Cardinality(before(s)) < Cardinality(before(t))
  <2> SUFFICES ASSUME NEW s \in S, NEW t \in S, s < t
               PROVE  Cardinality(before(s)) < Cardinality(before(t))
    OBVIOUS
  <2>1. before(s) \subseteq before(t) /\ s \in before(t) /\ s \notin before(s)
    BY <1>1
  <2>2. before(s) # before(t)
    BY <2>1
  <2>3. /\ Cardinality(before(s)) <= Cardinality(before(t))
        /\ Cardinality(before(t)) = Cardinality(before(s)) => before(t) = before(s)
    <3> HIDE DEF before
    <3> QED
      BY <1>5, <2>1, FS_Subset
  <2> QED
    BY <1>5, <2>2, <2>3
<1> DEFINE f == [s \in S |-> [id |-> first + Cardinality(before(s)), student |-> s]]
           V == NewVariants(b, r)
<1>7. V = {f[s] : s \in S}
  BY DEF NewVariants, S, first
<1>8. \A s \in S : /\ f[s] \in [id : Nat, student : Nat] /\ f[s].student = s
                   /\ f[s].id = first + Cardinality(before(s))
  <2> HIDE DEF before
  <2> QED
    BY <1>1, <1>4, <1>5
<1>9. f \in Surjection(S, V)
  <2> HIDE DEF before
  <2> QED
    BY <1>7 DEF Surjection
<1> HIDE DEF f, V, before
<1>10. IsFiniteSet(V)
  BY <1>2, <1>9, FS_Surjection
<1>11. \A v, w \in V : v.id = w.id \/ v.student = w.student => v = w
  <2> SUFFICES ASSUME NEW s \in S, NEW t \in S, f[s].id = f[t].id \/ f[s].student = f[t].student
               PROVE  s = t
    BY <1>7
  <2>1. s \in Nat /\ t \in Nat
    BY <1>1
  <2>2. s = t \/ s < t \/ t < s
    BY <2>1
  <2> QED
    BY <1>4, <1>5, <1>6, <1>8, <2>2
<1>12. \A v \in V : \A a \in VariantIds(b) : a < v.id
  BY <1>3, <1>4, <1>5, <1>7, <1>8
<1>13. Bounded(Ids(V))
  <2>1. Cardinality(S) \in Nat
    BY <1>2, FS_CardinalityType
  <2>2. \A i \in Ids(V) : i <= first + Cardinality(S)
    BY <1>4, <1>5, <1>7, <1>8, <2>1 DEF Ids
  <2> QED
    BY <1>4, <2>1, <2>2 DEF Bounded
<1>14. V \in SUBSET [id : Nat, student : Nat]
  BY <1>7, <1>8
<1> QED
  BY <1>10, <1>11, <1>12, <1>13, <1>14 DEF V

LEMMA BoundedUnion ==
  ASSUME NEW S, NEW T, S \subseteq Nat, T \subseteq Nat, Bounded(S), Bounded(T)
  PROVE  Bounded(S \cup T)
<1>1. PICK m \in Nat : \A x \in S : x <= m
  BY DEF Bounded
<1>2. PICK n \in Nat : \A x \in T : x <= n
  BY DEF Bounded
<1>3. m + n \in Nat /\ \A x \in S \cup T : x <= m + n
  BY <1>1, <1>2
<1> QED
  BY <1>3 DEF Bounded

LEMMA CreateGroupSound ==
  ASSUME NEW b, Sound(b), NEW r, NEW t \in Times,
         r.type \in Types, r.start \in Times, r.deadline \in Times, CreateGroupPasses(b, r)
  PROVE  Sound(CreateGroup(b, r, t))
<1> DEFINE V == NewVariants(b, r)
           id == NextId(Ids(b.assignments))
           start == IF r.start < t THEN r.start ELSE t
           new == [id |-> id, type |-> r.type, start |-> start, deadline |-> r.deadline,
                   completed |-> FALSE, archived |-> FALSE, variants |-> V]
           q == CreateGroup(b, r, t)
<1>1. /\ V \in SUBSET [id : Nat, student : Nat]
      /\ IsFiniteSet(V)
      /\ \A v, w \in V : v.id = w.id \/ v.student = w.student => v = w
      /\ \A v \in V : \A a \in VariantIds(b) : a < v.id
      /\ Bounded(Ids(V))
  BY NewVariantsApart
<1>2. Ids(b.assignments) \subseteq Nat
  BY DEF Sound, Blobs, GroupRecords, Ids
<1>3. id \in Nat /\ Bounded(Ids(b.assignments) \cup {id}) /\ \A a \in Ids(b.assignments) : a < id
  BY <1>2, NextIdAbove DEF Sound
<1>4. start \in Times
  OBVIOUS
<1>5. V # {}
  BY DEF NewVariants, CreateGroupPasses
<1>6. q = [b EXCEPT !.assignments = b.assignments \cup {new}]
  BY DEF CreateGroup, NewGroup
<1> HIDE DEF V, id, start, q
<1>7. /\ new \in GroupRecords /\ new.id = id /\ new.variants = V /\ new.completed = FALSE
  BY <1>1, <1>3, <1>4 DEF GroupRecords
<1> HIDE DEF new
<1>8. /\ q \in Blobs /\ q.users = b.users /\ q.classes = b.classes /\ q.templates = b.templates
      /\ q.assignments = b.assignments \cup {new} /\ q.submissions = b.submissions
  BY <1>6, <1>7 DEF Sound, Blobs
<1>9. Ids(q.assignments) = Ids(b.assignments) \cup {id}
  BY <1>7, <1>8 DEF Ids
<1>10. VariantIds(q) = VariantIds(b) \cup Ids(V)
  BY <1>7, <1>8 DEF VariantIds
<1>11. Bounded(VariantIds(q))
  <2>1. VariantIds(b) \subseteq Nat /\ Ids(V) \subseteq Nat
    BY <1>1 DEF VariantIds, Ids, Sound, Blobs, GroupRecords
  <2> QED
    BY <1>1, <1>10, <2>1, BoundedUnion DEF Sound
<1>12. \A g \in b.assignments : g.id # id /\ \A v \in g.variants, w \in V : v.id # w.id
  <2>1. ASSUME NEW g \in b.assignments
        PROVE  g.id < id /\ g.id \in Nat
    BY <1>2, <1>3 DEF Ids
  <2>2. ASSUME NEW g \in b.assignments, NEW v \in g.variants, NEW w \in V
        PROVE  v.id < w.id /\ v.id \in Nat /\ w.id \in Nat
    <3>1. v.id \in VariantIds(b)
      BY DEF VariantIds, Ids
    <3>2. v.id \in Nat /\ w.id \in Nat
      BY <1>1 DEF Sound, Blobs, GroupRecords
    <3> QED
      BY <1>1, <3>1, <3>2
  <2>3. ASSUME NEW g \in b.assignments
        PROVE  g.id # id
    BY <2>1, <1>3
  <2>4. ASSUME NEW g \in b.assignments, NEW v \in g.variants, NEW w \in V
        PROVE  v.id # w.id
    BY <2>2
  <2> QED
    BY <2>3, <2>4
<1>13. IdsUnique(q)
  BY <1>1, <1>7, <1>8, <1>12 DEF Sound, IdsUnique
<1>14. SubmissionsHeld(q)
  BY <1>8 DEF Sound, SubmissionsHeld
<1>15. CompletedIffAll(q)
  <2>1. \A v \in V : \A s \in b.submissions : s.variant # v.id
    BY <1>12 DEF Sound, SubmissionsHeld
  <2> QED
    BY <1>5, <1>7, <1>8, <2>1 DEF Sound, CompletedIffAll
<1>16. \A g \in q.assignments : IsFiniteSet(g.variants)
  BY <1>1, <1>7, <1>8 DEF Sound
<1>17. Sound(q)
  BY <1>3, <1>8, <1>9, <1>11, <1>13, <1>14, <1>15, <1>16 DEF Sound
<1> QED
  BY <1>17 DEF q

(***************************************************************************)
(* The last submission of a group, and no other, completes it: as many     *)
(* students have submitted as there are variants exactly when every        *)
(* variant is submitted.                                                   *)
(***************************************************************************)
LEMMA CountIsAll ==
  ASSUME NEW V \in SUBSET [id : Nat, student : Nat], IsFiniteSet(V),
         \A v, w \in V : v.id = w.id \/ v.student = w.student => v = w,
         NEW Q, \A s \in Q : \E v \in V : v.id = s.variant /\ v.student = s.student
  PROVE  Cardinality({s.student : s \in Q}) >= Cardinality(Ids(V)) <=> \A v \in V : \E s \in Q : s.variant = v.id
<1> DEFINE D == {v.student : v \in V}
           A == {s.student : s \in Q}
           f == [v \in V |-> v.id]
           g == [v \in V |-> v.student]
<1>1. f \in Bijection(V, Ids(V)) /\ g \in Bijection(V, D)
  <2>1. f \in [V -> Ids(V)] /\ g \in [V -> D]
    BY DEF Ids
  <2>2. /\ \A v, w \in V : f[v] = f[w] => v = w
        /\ \A v, w \in V : g[v] = g[w] => v = w
    OBVIOUS
  <2>3. (\A i \in Ids(V) : \E v \in V : f[v] = i) /\ (\A s \in D : \E v \in V : g[v] = s)
    BY DEF Ids
  <2> HIDE DEF f, g, D
  <2> QED
    BY <2>1, <2>2, <2>3 DEF Bijection, Injection, IsInjective, Surjection
<1>2. ExistsBijection(V, Ids(V)) /\ ExistsBijection(V, D)
  <2> HIDE DEF D, f, g
  <2> QED
    BY <1>1 DEF ExistsBijection
<1>3. /\ IsFiniteSet(D) /\ Cardinality(D) = Cardinality(V)
      /\ Cardinality(Ids(V)) = Cardinality(V)
  <2> HIDE DEF D
  <2> QED
    BY <1>2, FS_Bijection
<1>4. A \subseteq D
  OBVIOUS
<1>5. /\ Cardinality(A) <= Cardinality(D)
      /\ Cardinality(D) = Cardinality(A) => D = A
      /\ Cardinality(A) \in Nat /\ Cardinality(D) \in Nat
  <2> HIDE DEF A, D
  <2> QED
    BY <1>3, <1>4, FS_Subset, FS_CardinalityType
<1>6. Cardinality(A) >= Cardinality(Ids(V)) <=> A = D
  <2> HIDE DEF A, D
  <2> QED
    BY <1>3, <1>5
<1>7. A = D <=> \A v \in V : \E s \in Q : s.variant = v.id
  <2>1. ASSUME A = D, NEW v \in V
        PROVE  \E s \in Q : s.variant = v.id
    <3>1. v.student \in A
      BY <2>1
    <3>2. PICK s \in Q : s.student = v.student
      BY <3>1
    <3>3. PICK w \in V : w.id = s.variant /\ w.student = s.student
      OBVIOUS
    <3>4. w = v
      BY <3>2, <3>3
    <3> QED
      BY <3>3, <3>4
  <2>2. ASSUME \A v \in V : \E s \in Q : s.variant = v.id, NEW v \in V
        PROVE  v.student \in A
    <3>1. PICK s \in Q : s.variant = v.id
      BY <2>2
    <3>2. PICK w \in V : w.id = s.variant /\ w.student = s.student
      OBVIOUS
    <3> QED
      BY <3>1, <3>2
  <2> QED
    BY <1>4, <2>1, <2>2
<1> QED
  BY <1>6, <1>7

LEMMA SubmitSound ==
  ASSUME NEW b, Sound(b), NEW r, NEW t, r.variant \in Nat, r.user \in Nat, SubmitPasses(b, r, t)
  PROVE  Sound(Submit(b, r))
<1> DEFINE new == [variant |-> r.variant, student |-> r.user]
           subs == b.submissions \cup {new}
           more == WithSubmission(b, r)
           all(g) == AllSubmitted(more, g)
           group == Holder(b, r.variant)
           f == [g \in b.assignments |-> IF g.id = group.id THEN [g EXCEPT !.completed = all(g)] ELSE g]
           T == {f[g] : g \in b.assignments}
           q == Submit(b, r)
<1>1. PICK h \in b.assignments :
        /\ \E v \in h.variants : v.id = r.variant /\ v.student = r.user
        /\ \A s \in b.submissions : s.variant # r.variant
  BY DEF SubmitPasses, Holders
<1>2. Holders(b, r.variant) = {h}
  <2>1. h \in Holders(b, r.variant)
    BY <1>1 DEF Holders, Ids
  <2>2. ASSUME NEW g \in Holders(b, r.variant)
        PROVE  g = h
    BY <1>1, <2>2 DEF Holders, Ids, Sound, IdsUnique
  <2> QED
    BY <2>1, <2>2
<1>3. group = h
  BY <1>2 DEF Holder
<1>4. new \in [variant : Nat, student : Nat] /\ new.variant = r.variant /\ new.student = r.user
  OBVIOUS
<1>5. q = [more EXCEPT !.assignments = T]
  <2>1. more.assignments = b.assignments
    BY DEF Sound, Blobs, WithSubmission
  <2>2. q = [more EXCEPT !.assignments =
               {IF g.id = group.id THEN [g EXCEPT !.completed = all(g)] ELSE g : g \in more.assignments}]
    BY DEF Submit
  <2>3. T = {IF g.id = group.id THEN [g EXCEPT !.completed = all(g)] ELSE g : g \in more.assignments}
    BY <2>1
  <2> HIDE DEF T, more
  <2> QED
    BY <2>2, <2>3
<1> HIDE DEF group, q
<1>6. more = [b EXCEPT !.submissions = subs] /\ more.submissions = subs
  BY DEF Sound, Blobs, WithSubmission, new
<1>7. \A g \in b.assignments : all(g) \in BOOLEAN
  BY DEF AllSubmitted
<1> HIDE DEF new
<1> HIDE DEF all
<1>8. \A g \in b.assignments :
        /\ f[g] \in GroupRecords /\ f[g].id = g.id /\ f[g].variants = g.variants
        /\ f[g].completed = IF g = h THEN all(g) ELSE g.completed
  <2>1. \A g \in b.assignments : g.id = group.id <=> g = h
    BY <1>3 DEF Sound, IdsUnique
  <2> QED
    BY <1>7, <2>1 DEF Sound, Blobs, GroupRecords
<1> HIDE DEF f
<1>9. /\ q \in Blobs /\ q.users = b.users /\ q.classes = b.classes /\ q.templates = b.templates
      /\ q.assignments = T /\ q.submissions = subs
  <2>1. T \subseteq GroupRecords
    BY <1>8
  <2>2. subs \subseteq [variant : Nat, student : Nat]
    BY <1>4 DEF Sound, Blobs
  <2> HIDE DEF T, subs
  <2> QED
    BY <1>5, <1>6, <2>1, <2>2 DEF Sound, Blobs
<1>10. \A x \in T : \E g \in b.assignments : x = f[g]
  OBVIOUS
<1>11. Ids(T) \subseteq Ids(b.assignments)
  BY <1>8 DEF Ids
<1>12. VariantIds(q) \subseteq VariantIds(b)
  BY <1>8, <1>9, <1>10 DEF VariantIds
<1>13. \A g \in T : IsFiniteSet(g.variants)
  BY <1>8, <1>10 DEF Sound
<1>14. IdsUnique(q)
  <2>1. ASSUME NEW g \in b.assignments, NEW k \in b.assignments, f[g].id = f[k].id
        PROVE  g = k
    BY <1>8, <2>1 DEF Sound, IdsUnique
  <2>2. ASSUME NEW g \in b.assignments, NEW k \in b.assignments,
               NEW v \in f[g].variants, NEW w \in f[k].variants,
               v.id = w.id \/ (f[g] = f[k] /\ v.student = w.student)
        PROVE  v = w /\ f[g] = f[k]
    <3>1. CASE v.id = w.id
      BY <1>8, <3>1 DEF Sound, IdsUnique
    <3>2. CASE f[g] = f[k] /\ v.student = w.student
      <4>1. g = k
        BY <2>1, <3>2
      <4> QED
        BY <1>8, <3>2, <4>1 DEF Sound, IdsUnique
    <3> QED
      BY <2>2, <3>1, <3>2
  <2> QED
    BY <1>9, <1>10, <2>1, <2>2 DEF IdsUnique
<1>15. SubmissionsHeld(q)
  <2>1. ASSUME NEW s \in subs
        PROVE  \E g \in b.assignments : \E v \in g.variants : v.id = s.variant /\ v.student = s.student
    BY <1>1, <1>4 DEF Sound, SubmissionsHeld
  <2>2. ASSUME NEW s \in subs
        PROVE  \E g \in T : \E v \in g.variants : v.id = s.variant /\ v.student = s.student
    <3>1. PICK g \in b.assignments : \E v \in g.variants : v.id = s.variant /\ v.student = s.student
      BY <2>1
    <3>2. f[g] \in T /\ f[g].variants = g.variants
      BY <1>8
    <3> QED
      BY <3>1, <3>2
  <2>3. \A s, p \in subs : s.variant = p.variant => s = p
    BY <1>1, <1>4 DEF Sound, SubmissionsHeld
  <2> QED
    BY <1>9, <2>2, <2>3 DEF SubmissionsHeld
<1>16. all(h) <=> \A v \in h.variants : \E s \in subs : s.variant = v.id
  <2> DEFINE Q == {s \in subs : s.variant \in Ids(h.variants)}
  <2>1. \A s \in Q : \E v \in h.variants : v.id = s.variant /\ v.student = s.student
    <3> SUFFICES ASSUME NEW s \in subs, s.variant \in Ids(h.variants)
                 PROVE  \E v \in h.variants : v.id = s.variant /\ v.student = s.student
      OBVIOUS
    <3>1. PICK g \in b.assignments : \E v \in g.variants : v.id = s.variant /\ v.student = s.student
      BY <1>1, <1>4 DEF Sound, SubmissionsHeld
    <3>2. g = h
      BY <3>1 DEF Ids, Sound, IdsUnique
    <3> QED
      BY <3>1, <3>2
  <2>2. h.variants \in SUBSET [id : Nat, student : Nat] /\ IsFiniteSet(h.variants)
    BY DEF Sound, Blobs, GroupRecords
  <2>3. \A v, w \in h.variants : v.id = w.id \/ v.student = w.student => v = w
    BY DEF Sound, IdsUnique
  <2> HIDE DEF Q
  <2>4. Cardinality({s.student : s \in Q}) >= Cardinality(Ids(h.variants))
          <=> \A v \in h.variants : \E s \in Q : s.variant = v.id
    BY <2>1, <2>2, <2>3, CountIsAll
  <2>5. all(h) <=> Cardinality({s.student : s \in Q}) >= Cardinality(Ids(h.variants))
    BY <1>6 DEF all, AllSubmitted, Submitted, Q
  <2>6. (\A v \in h.variants : \E s \in Q : s.variant = v.id)
          <=> \A v \in h.variants : \E s \in subs : s.variant = v.id
    BY DEF Q, Ids
  <2> QED
    BY <2>4, <2>5, <2>6
<1>17. CompletedIffAll(q)
  <2>1. ASSUME NEW g \in b.assignments
        PROVE  f[g].completed <=> \A v \in f[g].variants : \E s \in subs : s.variant = v.id
    <3>1. CASE g = h
      BY <1>8, <1>16, <3>1
    <3>2. CASE g # h
      <4>1. \A v \in g.variants : v.id # r.variant
        BY <1>1, <3>2 DEF Sound, IdsUnique
      <4> QED
        BY <1>4, <1>8, <3>2, <4>1 DEF Sound, CompletedIffAll
    <3> QED
      BY <3>1, <3>2
  <2> QED
    BY <1>9, <1>10, <2>1 DEF CompletedIffAll
<1>18. Sound(q)
  BY <1>9, <1>11, <1>12, <1>13, <1>14, <1>15, <1>17, BoundedSubset DEF Sound
<1> QED
  BY <1>18 DEF q

(***************************************************************************)
(* Every handler leaves a sound record.                                    *)
(***************************************************************************)
LEMMA WrittenSound ==
  ASSUME NEW b, Sound(b), NEW r \in Requests, NEW t \in Times, Writes(r, b, t)
  PROVE  Sound(Written(r, b, t))
<1>1. CASE r.op = "createGroup"
  <2>1. r.type \in Types /\ r.start \in Times /\ r.deadline \in Times
    BY <1>1 DEF Requests
  <2>2. CreateGroupPasses(b, r) /\ Written(r, b, t) = CreateGroup(b, r, t)
    BY <1>1 DEF Writes, Written
  <2> QED
    BY <2>1, <2>2, CreateGroupSound
<1>2. CASE r.op = "editGroup"
  <2>1. r.start \in Times /\ r.deadline \in Times
    BY <1>2 DEF Requests
  <2>2. Written(r, b, t) = EditGroup(b, r)
    BY <1>2 DEF Written
  <2> QED
    BY <2>1, <2>2, EditGroupSound
<1>3. CASE r.op = "deleteGroups"
  <2>1. Written(r, b, t) = DeleteGroups(b, r)
    BY <1>3 DEF Written
  <2> QED
    BY <2>1, DeleteGroupsSound
<1>4. CASE r.op = "submit"
  <2>1. r.variant \in Nat /\ r.user \in Nat
    <3>1. r.variant \in Variants /\ r.user \in SeedUsers
      BY <1>4 DEF Requests
    <3>2. Variants \subseteq Nat /\ StudentCount \in Nat
      BY DemoAssumption
    <3>3. \A u \in 1..StudentCount : u \in Nat
      OBVIOUS
    <3> QED
      BY <3>1, <3>2, <3>3 DEF SeedUsers
  <2>2. SubmitPasses(b, r, t) /\ Written(r, b, t) = Submit(b, r)
    BY <1>4 DEF Writes, Written
  <2> QED
    BY <2>1, <2>2, SubmitSound
<1>5. CASE r.op = "listGroups"
  <2>1. Written(r, b, t) = ListGroups(b, t)
    BY <1>5 DEF Written
  <2> QED
    BY <2>1, ListGroupsSound
<1>6. CASE r.op = "addUser"
  <2>1. r.classes \subseteq Nat
    BY <1>6, DemoAssumption DEF Requests
  <2>2. Written(r, b, t) = AddUser(b, r)
    BY <1>6 DEF Written
  <2> QED
    BY <2>1, <2>2, AddUserSound
<1>7. CASE r.op = "editUser"
  <2>1. r.classes \subseteq Nat
    BY <1>7, DemoAssumption DEF Requests
  <2>2. Written(r, b, t) = EditUser(b, r)
    BY <1>7 DEF Written
  <2> QED
    BY <2>1, <2>2, EditUserSound
<1>8. CASE r.op = "deleteUsers"
  <2>1. Written(r, b, t) = DeleteUsers(b, r)
    BY <1>8 DEF Written
  <2> QED
    BY <2>1, DeleteUsersSound
<1>9. CASE r.op = "addStudent"
  <2>1. r.classes \subseteq Nat
    BY <1>9, DemoAssumption DEF Requests
  <2>2. Written(r, b, t) = AddStudent(b, r)
    BY <1>9 DEF Written
  <2> QED
    BY <2>1, <2>2, AddStudentSound
<1>10. CASE r.op = "createClass"
  <2>1. Written(r, b, t) = CreateClass(b, r)
    BY <1>10 DEF Written
  <2> QED
    BY <2>1, CreateClassSound
<1>11. CASE r.op = "editClass"
  <2>1. Written(r, b, t) = EditClass(b, r)
    BY <1>11 DEF Written
  <2> QED
    BY <2>1, EditClassSound
<1>12. CASE r.op = "deleteClasses"
  <2>1. Written(r, b, t) = DeleteClasses(b, r)
    BY <1>12 DEF Written
  <2> QED
    BY <2>1, DeleteClassesSound
<1>13. CASE r.op = "createTemplate"
  <2>1. Written(r, b, t) = CreateTemplate(b, r)
    BY <1>13 DEF Written
  <2> QED
    BY <2>1, CreateTemplateSound
<1>14. CASE r.op = "deleteTemplates"
  <2>1. Written(r, b, t) = DeleteTemplates(b, r)
    BY <1>14 DEF Written
  <2> QED
    BY <2>1, DeleteTemplatesSound
<1>15. CASE r.op = "reset"
  <2>1. Written(r, b, t) = DefaultState
    BY <1>15 DEF Written
  <2> QED
    BY <2>1, DefaultSound
<1>16. CASE r.op \in {"open", "editTemplate"}
  <2>1. Written(r, b, t) = b
    BY <1>16 DEF Written, EditTemplate
  <2> QED
    BY <2>1
<1> QED
  BY <1>1, <1>2, <1>3, <1>4, <1>5, <1>6, <1>7, <1>8, <1>9, <1>10, <1>11, <1>12, <1>13, <1>14, <1>15, <1>16
  DEF Requests

(***************************************************************************)
(* The invariant.                                                          *)
(***************************************************************************)
LEMMA InitInv == Init => Inv
<1> SUFFICES ASSUME Init PROVE Inv
  OBVIOUS
<1>1. Sound(store)
  BY DefaultSound DEF Init
<1>2. \A c \in Slots : call[c] = Idle
  BY DEF Init
<1>3. TypeOK
  BY <1>1, <1>2, DemoAssumption DEF Init, TypeOK, Sound, CallRecords, Idle, Times
<1> QED
  BY <1>1, <1>2, <1>3 DEF Inv, Idle

LEMMA NextInv == Inv /\ [Next]_vars => Inv'
<1> SUFFICES ASSUME Inv, [Next]_vars PROVE Inv'
  OBVIOUS
<1> USE DEF Inv
<1>1. ASSUME NEW c \in Slots, Ask(c) PROVE Inv'
  <2>1. PICK r \in plan.requests : call' = [call EXCEPT ![c] = [at |-> "asked", request |-> r]]
    BY <1>1 DEF Ask
  <2>2. r \in Requests
    BY <2>1, ScenariosAssumption DEF TypeOK
  <2>3. [at |-> "asked", request |-> r] \in CallRecords
    BY <2>2 DEF CallRecords
  <2>4. call' \in [Slots -> CallRecords]
    BY <2>1, <2>3 DEF TypeOK
  <2>5. \A d \in Slots : call'[d].at = "read" => call'[d] = call[d]
    BY <2>1 DEF TypeOK
  <2> QED
    BY <1>1, <2>4, <2>5 DEF Ask, TypeOK
<1>2. ASSUME NEW c \in Slots, Read(c) PROVE Inv'
  <2> DEFINE base == Shape(store)
             r == call[c].request
             read == [at |-> "read", request |-> r, base |-> base, time |-> now]
             q == IF Writes(r, base, now) THEN read ELSE Idle
  <2>1. r \in Requests
    BY <1>2 DEF Read, TypeOK, CallRecords
  <2>2. Sound(base)
    BY ShapeSound
  <2>3. call' = [call EXCEPT ![c] = q]
    BY <1>2 DEF Read
  <2>4. base \in Blobs
    BY <2>2 DEF Sound
  <2> HIDE DEF base, r
  <2>5. read \in CallRecords /\ Idle \in CallRecords
    BY <2>1, <2>4 DEF CallRecords, Idle, TypeOK
  <2>6. q \in CallRecords /\ (q.at = "read" => q = read /\ Writes(r, base, now))
    BY <2>5 DEF Idle
  <2> HIDE DEF q
  <2>7. call' \in [Slots -> CallRecords]
    BY <2>3, <2>6 DEF TypeOK
  <2>8. \A d \in Slots : call'[d] = IF d = c THEN q ELSE call[d]
    BY <2>3 DEF TypeOK
  <2>9. \A d \in Slots : call'[d].at = "read" =>
          Sound(call'[d].base) /\ Writes(call'[d].request, call'[d].base, call'[d].time)
    BY <2>2, <2>6, <2>8
  <2> QED
    BY <1>2, <2>7, <2>9 DEF Read, TypeOK
<1>3. ASSUME NEW c \in Slots, GenerateFails(c) PROVE Inv'
  <2>1. Idle \in CallRecords /\ Idle.at # "read"
    BY DEF CallRecords, Idle
  <2>2. call' = [call EXCEPT ![c] = Idle]
    BY <1>3 DEF GenerateFails
  <2>3. call' \in [Slots -> CallRecords]
    BY <2>1, <2>2 DEF TypeOK
  <2>4. \A d \in Slots : call'[d].at = "read" => call'[d] = call[d]
    BY <2>1, <2>2 DEF TypeOK
  <2> QED
    BY <1>3, <2>3, <2>4 DEF GenerateFails, TypeOK
<1>4. ASSUME NEW c \in Slots, Write(c) PROVE Inv'
  <2>1. /\ call[c].request \in Requests /\ call[c].time \in Times /\ Sound(call[c].base)
        /\ Writes(call[c].request, call[c].base, call[c].time)
    BY <1>4 DEF Write, TypeOK, CallRecords
  <2>2. Idle \in CallRecords /\ Idle.at # "read"
    BY DEF CallRecords, Idle
  <2>3. call' = [call EXCEPT ![c] = Idle]
    BY <1>4 DEF Write
  <2>4. call' \in [Slots -> CallRecords]
    BY <2>2, <2>3 DEF TypeOK
  <2>5. \A d \in Slots : call'[d].at = "read" => call'[d] = call[d]
    BY <2>2, <2>3 DEF TypeOK
  <2>6. Sound(store')
    BY <1>4, <2>1, WrittenSound DEF Write
  <2>7. store' \in Blobs
    BY <2>6 DEF Sound
  <2> QED
    BY <1>4, <2>4, <2>5, <2>6, <2>7 DEF Write, TypeOK
<1>5. CASE Tick
  BY <1>5, DemoAssumption DEF Tick, TypeOK, Times
<1>6. CASE UNCHANGED vars
  BY <1>6 DEF vars, TypeOK
<1> QED
  BY <1>1, <1>2, <1>3, <1>4, <1>5, <1>6 DEF Next

(***************************************************************************)
(* Type correctness, for any number of tabs, users and calls.              *)
(***************************************************************************)
THEOREM DemoTypeCorrect == Spec => []TypeOK
<1>1. Inv => TypeOK
  BY DEF Inv
<1> QED
  BY <1>1, InitInv, NextInv, PTL DEF Spec

(***************************************************************************)
(* The record is consistent whatever handlers overlap.                     *)
(***************************************************************************)
THEOREM ConsistentAlways == Spec => []Consistent
<1>1. Inv => Consistent
  BY DEF Inv, Sound, Consistent
<1> QED
  BY <1>1, InitInv, NextInv, PTL DEF Spec

(***************************************************************************)
(* What a handler takes out of the record it read, and puts in.            *)
(***************************************************************************)
Asked(r, b, q) ==
  /\ \A x \in Items(b) \ Items(q) : AsksOut(r, b, x)
  /\ \A x \in Items(q) \ Items(b) : AsksIn(r, x)

\* The part of the record that a handler changes, and what it does there.
Part(r, b, old, new) ==
  /\ \A x \in old \ new : AsksOut(r, b, x)
  /\ \A x \in new \ old : AsksIn(r, x)

LEMMA AskedByParts ==
  ASSUME NEW r, NEW b, NEW q,
         Part(r, b, GroupItems(b), GroupItems(q)), Part(r, b, SubmissionItems(b), SubmissionItems(q)),
         Part(r, b, UserItems(b), UserItems(q)), Part(r, b, MemberItems(b), MemberItems(q)),
         Part(r, b, ClassItems(b), ClassItems(q)), Part(r, b, TemplateItems(b), TemplateItems(q))
  PROVE  Asked(r, b, q)
BY DEF Asked, Part, Items

LEMMA SamePart ==
  ASSUME NEW r, NEW b, NEW S
  PROVE  Part(r, b, S, S)
BY DEF Part

\* Parts that are equal need no more.
LEMMA EqualParts ==
  ASSUME NEW b, NEW q
  PROVE  /\ q.assignments = b.assignments => GroupItems(q) = GroupItems(b)
         /\ q.submissions = b.submissions => SubmissionItems(q) = SubmissionItems(b)
         /\ q.users = b.users => UserItems(q) = UserItems(b) /\ MemberItems(q) = MemberItems(b)
         /\ q.classes = b.classes => ClassItems(q) = ClassItems(b)
         /\ q.templates = b.templates => TemplateItems(q) = TemplateItems(b)
BY DEF GroupItems, SubmissionItems, UserItems, MemberItems, ClassItems, TemplateItems

LEMMA CreateGroupAsked ==
  ASSUME NEW b \in Blobs, NEW r, NEW t, r.op = "createGroup"
  PROVE  Asked(r, b, CreateGroup(b, r, t))
<1> DEFINE q == CreateGroup(b, r, t)
<1>1. /\ b.assignments \subseteq q.assignments /\ q.submissions = b.submissions /\ q.users = b.users
      /\ q.classes = b.classes /\ q.templates = b.templates
  BY DEF Blobs, CreateGroup, NewGroup
<1> HIDE DEF q
<1>2. Part(r, b, GroupItems(b), GroupItems(q))
  BY <1>1 DEF Part, GroupItems, AsksIn
<1>3. Asked(r, b, q)
  BY <1>1, <1>2, SamePart, EqualParts, AskedByParts
<1> QED
  BY <1>3 DEF q

LEMMA DeleteGroupsAsked ==
  ASSUME NEW b \in Blobs, NEW r, r.op = "deleteGroups"
  PROVE  Asked(r, b, DeleteGroups(b, r))
<1> DEFINE gone == UNION {Ids(g.variants) : g \in {h \in b.assignments : h.id \in r.ids}}
           q == DeleteGroups(b, r)
<1>1. /\ q.assignments = {g \in b.assignments : g.id \notin r.ids}
      /\ q.submissions = {s \in b.submissions : s.variant \notin gone}
      /\ q.users = b.users /\ q.classes = b.classes /\ q.templates = b.templates
  BY DEF Blobs, DeleteGroups, Without
<1>2. \A a \in gone : \E g \in b.assignments : g.id \in r.ids /\ a \in Ids(g.variants)
  OBVIOUS
<1> HIDE DEF q, gone
<1>3. Part(r, b, GroupItems(b), GroupItems(q))
  BY <1>1 DEF Part, GroupItems, AsksOut
<1>4. Part(r, b, SubmissionItems(b), SubmissionItems(q))
  BY <1>1, <1>2 DEF Part, SubmissionItems, AsksOut
<1>5. Asked(r, b, q)
  BY <1>1, <1>3, <1>4, SamePart, EqualParts, AskedByParts
<1> QED
  BY <1>5 DEF q

\* Groups that keep their identifiers, and nothing else changed.
LEMMA GroupsKept ==
  ASSUME NEW b, NEW q, NEW r, NEW f, q.assignments = {f[g] : g \in b.assignments},
         \A g \in b.assignments : f[g].id = g.id,
         q.submissions = b.submissions, q.users = b.users, q.classes = b.classes, q.templates = b.templates
  PROVE  Asked(r, b, q)
<1>1. GroupItems(q) = GroupItems(b)
  BY DEF GroupItems
<1> QED
  BY <1>1, SamePart, EqualParts, AskedByParts

LEMMA EditGroupAsked ==
  ASSUME NEW b \in Blobs, NEW r
  PROVE  Asked(r, b, EditGroup(b, r))
<1> DEFINE f == [g \in b.assignments |-> IF g.id = r.id /\ g.type = r.type
                                         THEN [g EXCEPT !.start = r.start, !.deadline = r.deadline] ELSE g]
           T == {f[g] : g \in b.assignments}
           q == EditGroup(b, r)
<1>1. \A g \in b.assignments : f[g].id = g.id
  BY DEF Blobs, GroupRecords
<1>2. q = [b EXCEPT !.assignments = T]
  BY DEF EditGroup
<1> HIDE DEF f, q
<1>3. /\ q.assignments = T /\ q.submissions = b.submissions /\ q.users = b.users
      /\ q.classes = b.classes /\ q.templates = b.templates
  BY <1>2 DEF Blobs
<1>4. Asked(r, b, q)
  BY <1>1, <1>3, GroupsKept
<1> QED
  BY <1>4 DEF q

LEMMA ListGroupsAsked ==
  ASSUME NEW b \in Blobs, NEW r, NEW t
  PROVE  Asked(r, b, ListGroups(b, t))
<1> DEFINE f == [g \in b.assignments |-> IF Overdue(g, t) THEN [g EXCEPT !.archived = TRUE] ELSE g]
           T == {f[g] : g \in b.assignments}
           q == ListGroups(b, t)
<1>1. \A g \in b.assignments : f[g].id = g.id
  BY DEF Blobs, GroupRecords
<1>2. q = [b EXCEPT !.assignments = T]
  BY DEF ListGroups
<1> HIDE DEF f, q
<1>3. /\ q.assignments = T /\ q.submissions = b.submissions /\ q.users = b.users
      /\ q.classes = b.classes /\ q.templates = b.templates
  BY <1>2 DEF Blobs
<1>4. Asked(r, b, q)
  BY <1>1, <1>3, GroupsKept
<1> QED
  BY <1>4 DEF q

LEMMA SubmitAsked ==
  ASSUME NEW b \in Blobs, NEW r, r.op = "submit"
  PROVE  Asked(r, b, Submit(b, r))
<1> DEFINE new == [variant |-> r.variant, student |-> r.user]
           more == WithSubmission(b, r)
           f == [g \in b.assignments |-> IF g.id = Holder(b, r.variant).id
                                         THEN [g EXCEPT !.completed = AllSubmitted(more, g)] ELSE g]
           T == {f[g] : g \in b.assignments}
           q == Submit(b, r)
<1>1. /\ more.assignments = b.assignments /\ more.submissions = b.submissions \cup {new} /\ more.users = b.users
      /\ more.classes = b.classes /\ more.templates = b.templates
      /\ more = [b EXCEPT !.submissions = b.submissions \cup {new}]
  BY DEF Blobs, WithSubmission
<1>2. \A g \in b.assignments : f[g].id = g.id
  BY DEF Blobs, GroupRecords
<1>3. q = [more EXCEPT !.assignments = T]
  <2>1. q = [more EXCEPT !.assignments =
               {IF g.id = Holder(b, r.variant).id THEN [g EXCEPT !.completed = AllSubmitted(more, g)] ELSE g :
                  g \in more.assignments}]
    BY DEF Submit
  <2>2. T = {IF g.id = Holder(b, r.variant).id THEN [g EXCEPT !.completed = AllSubmitted(more, g)] ELSE g :
               g \in more.assignments}
    BY <1>1
  <2> HIDE DEF T, more
  <2> QED
    BY <2>1, <2>2
<1>4. new.variant = r.variant /\ new.student = r.user
  OBVIOUS
<1> HIDE DEF f, q, more, new
<1>5. /\ q.assignments = T /\ q.submissions = b.submissions \cup {new} /\ q.users = b.users
      /\ q.classes = b.classes /\ q.templates = b.templates
  <2>1. DOMAIN more = DOMAIN b /\ DOMAIN b = {"users", "classes", "assignments", "submissions", "templates"}
    BY <1>1 DEF Blobs
  <2> HIDE DEF T
  <2> QED
    BY <1>1, <1>3, <2>1
<1>6. GroupItems(q) = GroupItems(b)
  BY <1>2, <1>5 DEF GroupItems
<1>7. Part(r, b, SubmissionItems(b), SubmissionItems(q))
  <2>1. SubmissionItems(q) = SubmissionItems(b) \cup {<< "submission", r.variant, r.user >>}
    BY <1>4, <1>5 DEF SubmissionItems
  <2> QED
    BY <2>1 DEF Part, AsksIn
<1>8. Asked(r, b, q)
  BY <1>5, <1>6, <1>7, SamePart, EqualParts, AskedByParts
<1> QED
  BY <1>8 DEF q

\* Users that keep their identifiers, and whose classes change as asked.
LEMMA MembersPart ==
  ASSUME NEW b, NEW q, NEW r, NEW f, q.users = {f[u] : u \in b.users},
         \A u \in b.users :
           /\ f[u].id = u.id
           /\ \A c \in u.classIds \ f[u].classIds : AsksOut(r, b, << "member", u.id, c >>)
           /\ \A c \in f[u].classIds \ u.classIds : AsksIn(r, << "member", u.id, c >>)
  PROVE  UserItems(q) = UserItems(b) /\ Part(r, b, MemberItems(b), MemberItems(q))
<1>1. UserItems(q) = UserItems(b)
  BY DEF UserItems
<1>2. ASSUME NEW x \in MemberItems(b), x \notin MemberItems(q)
      PROVE  AsksOut(r, b, x)
  <2>1. PICK u \in b.users : \E c \in u.classIds : x = << "member", u.id, c >>
    BY DEF MemberItems
  <2>2. PICK c \in u.classIds : x = << "member", u.id, c >>
    BY <2>1
  <2>3. c \notin f[u].classIds
    <3> SUFFICES ASSUME c \in f[u].classIds PROVE FALSE
      OBVIOUS
    <3>1. f[u] \in q.users /\ x = << "member", f[u].id, c >>
      BY <2>2
    <3> QED
      BY <1>2, <3>1 DEF MemberItems
  <2> QED
    BY <2>2, <2>3
<1>3. ASSUME NEW x \in MemberItems(q), x \notin MemberItems(b)
      PROVE  AsksIn(r, x)
  <2>1. PICK u \in b.users : \E c \in f[u].classIds : x = << "member", f[u].id, c >>
    BY DEF MemberItems
  <2>2. PICK c \in f[u].classIds : x = << "member", u.id, c >>
    BY <2>1
  <2>3. c \notin u.classIds
    BY <1>3, <2>2 DEF MemberItems
  <2> QED
    BY <2>2, <2>3
<1> QED
  BY <1>1, <1>2, <1>3 DEF Part

LEMMA EditUserAsked ==
  ASSUME NEW b \in Blobs, NEW r, r.op = "editUser"
  PROVE  Asked(r, b, EditUser(b, r))
<1> DEFINE f == [u \in b.users |-> IF u.id = r.id THEN [u EXCEPT !.classIds = r.classes] ELSE u]
           T == {f[u] : u \in b.users}
           q == EditUser(b, r)
<1>1. \A u \in b.users :
        /\ f[u].id = u.id
        /\ \A c \in u.classIds \ f[u].classIds : AsksOut(r, b, << "member", u.id, c >>)
        /\ \A c \in f[u].classIds \ u.classIds : AsksIn(r, << "member", u.id, c >>)
  BY DEF Blobs, AsksOut, AsksIn
<1>2. q = [b EXCEPT !.users = T]
  BY DEF EditUser
<1> HIDE DEF f, q
<1>3. /\ q.users = T /\ q.assignments = b.assignments /\ q.submissions = b.submissions
      /\ q.classes = b.classes /\ q.templates = b.templates
  BY <1>2 DEF Blobs
<1>4. UserItems(q) = UserItems(b) /\ Part(r, b, MemberItems(b), MemberItems(q))
  BY <1>1, <1>3, MembersPart
<1>5. Asked(r, b, q)
  BY <1>3, <1>4, SamePart, EqualParts, AskedByParts
<1> QED
  BY <1>5 DEF q

LEMMA AddStudentAsked ==
  ASSUME NEW b \in Blobs, NEW r, r.op = "addStudent"
  PROVE  Asked(r, b, AddStudent(b, r))
<1> DEFINE f == [u \in b.users |-> IF u.id = r.id THEN [u EXCEPT !.classIds = @ \cup r.classes] ELSE u]
           T == {f[u] : u \in b.users}
           q == AddStudent(b, r)
<1>1. \A u \in b.users :
        /\ f[u].id = u.id
        /\ \A c \in u.classIds \ f[u].classIds : AsksOut(r, b, << "member", u.id, c >>)
        /\ \A c \in f[u].classIds \ u.classIds : AsksIn(r, << "member", u.id, c >>)
  BY DEF Blobs, AsksOut, AsksIn
<1>2. q = [b EXCEPT !.users = T]
  BY DEF AddStudent
<1> HIDE DEF f, q
<1>3. /\ q.users = T /\ q.assignments = b.assignments /\ q.submissions = b.submissions
      /\ q.classes = b.classes /\ q.templates = b.templates
  BY <1>2 DEF Blobs
<1>4. UserItems(q) = UserItems(b) /\ Part(r, b, MemberItems(b), MemberItems(q))
  BY <1>1, <1>3, MembersPart
<1>5. Asked(r, b, q)
  BY <1>3, <1>4, SamePart, EqualParts, AskedByParts
<1> QED
  BY <1>5 DEF q

LEMMA EditClassAsked ==
  ASSUME NEW b \in Blobs, NEW r, r.op = "editClass"
  PROVE  Asked(r, b, EditClass(b, r))
<1> DEFINE f == [u \in b.users |-> IF u.id \notin r.students THEN [u EXCEPT !.classIds = @ \ {r.id}] ELSE u]
           T == {f[u] : u \in b.users}
           q == EditClass(b, r)
<1>1. \A u \in b.users :
        /\ f[u].id = u.id
        /\ \A c \in u.classIds \ f[u].classIds : AsksOut(r, b, << "member", u.id, c >>)
        /\ \A c \in f[u].classIds \ u.classIds : AsksIn(r, << "member", u.id, c >>)
  BY DEF Blobs, AsksOut, AsksIn
<1>2. q = [b EXCEPT !.users = T]
  BY DEF EditClass
<1> HIDE DEF f, q
<1>3. /\ q.users = T /\ q.assignments = b.assignments /\ q.submissions = b.submissions
      /\ q.classes = b.classes /\ q.templates = b.templates
  BY <1>2 DEF Blobs
<1>4. UserItems(q) = UserItems(b) /\ Part(r, b, MemberItems(b), MemberItems(q))
  BY <1>1, <1>3, MembersPart
<1>5. Asked(r, b, q)
  BY <1>3, <1>4, SamePart, EqualParts, AskedByParts
<1> QED
  BY <1>5 DEF q

LEMMA DeleteClassesAsked ==
  ASSUME NEW b \in Blobs, NEW r, r.op = "deleteClasses"
  PROVE  Asked(r, b, DeleteClasses(b, r))
<1> DEFINE f == [u \in b.users |-> [u EXCEPT !.classIds = @ \ r.ids]]
           T == {f[u] : u \in b.users}
           left == b.classes \ r.ids
           q == DeleteClasses(b, r)
<1>1. \A u \in b.users :
        /\ f[u].id = u.id
        /\ \A c \in u.classIds \ f[u].classIds : AsksOut(r, b, << "member", u.id, c >>)
        /\ \A c \in f[u].classIds \ u.classIds : AsksIn(r, << "member", u.id, c >>)
  BY DEF Blobs, AsksOut, AsksIn
<1>2. q = [b EXCEPT !.classes = left, !.users = T]
  BY DEF DeleteClasses
<1> HIDE DEF f, q
<1>3. /\ q.users = T /\ q.assignments = b.assignments /\ q.submissions = b.submissions
      /\ q.classes = left /\ q.templates = b.templates
  <2> HIDE DEF T, left
  <2> QED
    BY <1>2 DEF Blobs
<1>4. UserItems(q) = UserItems(b) /\ Part(r, b, MemberItems(b), MemberItems(q))
  BY <1>1, <1>3, MembersPart
<1>5. Part(r, b, ClassItems(b), ClassItems(q))
  BY <1>3 DEF Part, ClassItems, AsksOut
<1>6. Asked(r, b, q)
  BY <1>3, <1>4, <1>5, SamePart, EqualParts, AskedByParts
<1> QED
  BY <1>6 DEF q

LEMMA AddUserAsked ==
  ASSUME NEW b \in Blobs, NEW r, r.op = "addUser"
  PROVE  Asked(r, b, AddUser(b, r))
<1> DEFINE new == [id |-> NextId(Ids(b.users)), classIds |-> r.classes]
           q == AddUser(b, r)
<1>1. /\ q.users = b.users \cup {new} /\ q.assignments = b.assignments /\ q.submissions = b.submissions
      /\ q.classes = b.classes /\ q.templates = b.templates
  BY DEF Blobs, AddUser
<1>2. new.classIds = r.classes
  OBVIOUS
<1> HIDE DEF new, q
<1>3. Part(r, b, UserItems(b), UserItems(q))
  BY <1>1 DEF Part, UserItems, AsksIn
<1>4. Part(r, b, MemberItems(b), MemberItems(q))
  <2>1. MemberItems(q) = MemberItems(b) \cup {<< "member", new.id, c >> : c \in new.classIds}
    BY <1>1 DEF MemberItems
  <2> QED
    BY <1>2, <2>1 DEF Part, AsksIn
<1>5. Asked(r, b, q)
  BY <1>1, <1>3, <1>4, SamePart, EqualParts, AskedByParts
<1> QED
  BY <1>5 DEF q

LEMMA DeleteUsersAsked ==
  ASSUME NEW b \in Blobs, NEW r, r.op = "deleteUsers"
  PROVE  Asked(r, b, DeleteUsers(b, r))
<1> DEFINE q == DeleteUsers(b, r)
<1>1. /\ q.users = {u \in b.users : u.id \notin r.ids} /\ q.assignments = b.assignments
      /\ q.submissions = b.submissions /\ q.classes = b.classes /\ q.templates = b.templates
  BY DEF Blobs, DeleteUsers, Without
<1> HIDE DEF q
<1>2. Part(r, b, UserItems(b), UserItems(q))
  BY <1>1 DEF Part, UserItems, AsksOut
<1>3. Part(r, b, MemberItems(b), MemberItems(q))
  <2>1. MemberItems(q) \subseteq MemberItems(b)
    BY <1>1 DEF MemberItems
  <2>2. ASSUME NEW x \in MemberItems(b), x \notin MemberItems(q)
        PROVE  AsksOut(r, b, x)
    <3>1. PICK u \in b.users : \E c \in u.classIds : x = << "member", u.id, c >>
      BY DEF MemberItems
    <3>2. PICK c \in u.classIds : x = << "member", u.id, c >>
      BY <3>1
    <3>3. u.id \in r.ids
      BY <1>1, <2>2, <3>2 DEF MemberItems
    <3> QED
      BY <3>2, <3>3 DEF AsksOut
  <2> QED
    BY <2>1, <2>2 DEF Part
<1>4. Asked(r, b, q)
  BY <1>1, <1>2, <1>3, SamePart, EqualParts, AskedByParts
<1> QED
  BY <1>4 DEF q

LEMMA CreateClassAsked ==
  ASSUME NEW b \in Blobs, NEW r, r.op = "createClass"
  PROVE  Asked(r, b, CreateClass(b, r))
<1> DEFINE q == CreateClass(b, r)
<1>1. /\ b.classes \subseteq q.classes /\ q.users = b.users /\ q.assignments = b.assignments
      /\ q.submissions = b.submissions /\ q.templates = b.templates
  BY DEF Blobs, CreateClass
<1> HIDE DEF q
<1>2. Part(r, b, ClassItems(b), ClassItems(q))
  BY <1>1 DEF Part, ClassItems, AsksIn
<1>3. Asked(r, b, q)
  BY <1>1, <1>2, SamePart, EqualParts, AskedByParts
<1> QED
  BY <1>3 DEF q

LEMMA TemplatesAsked ==
  ASSUME NEW b \in Blobs, NEW r
  PROVE  /\ r.op = "createTemplate" => Asked(r, b, CreateTemplate(b, r))
         /\ r.op = "deleteTemplates" => Asked(r, b, DeleteTemplates(b, r))
<1>1. ASSUME NEW q, r.op = "createTemplate", q = CreateTemplate(b, r) PROVE Asked(r, b, q)
  <2>1. /\ b.templates \subseteq q.templates /\ q.users = b.users /\ q.assignments = b.assignments
        /\ q.submissions = b.submissions /\ q.classes = b.classes
    BY <1>1 DEF Blobs, CreateTemplate
  <2>2. Part(r, b, TemplateItems(b), TemplateItems(q))
    BY <1>1, <2>1 DEF Part, TemplateItems, AsksIn
  <2> QED
    BY <2>1, <2>2, SamePart, EqualParts, AskedByParts
<1>2. ASSUME NEW q, r.op = "deleteTemplates", q = DeleteTemplates(b, r) PROVE Asked(r, b, q)
  <2>1. /\ q.templates = b.templates \ r.ids /\ q.users = b.users /\ q.assignments = b.assignments
        /\ q.submissions = b.submissions /\ q.classes = b.classes
    BY <1>2 DEF Blobs, DeleteTemplates
  <2>2. Part(r, b, TemplateItems(b), TemplateItems(q))
    BY <1>2, <2>1 DEF Part, TemplateItems, AsksOut
  <2> QED
    BY <2>1, <2>2, SamePart, EqualParts, AskedByParts
<1> QED
  BY <1>1, <1>2

(***************************************************************************)
(* Every handler changes what it is asked to, in the record it read.       *)
(***************************************************************************)
LEMMA WrittenAsked ==
  ASSUME NEW b \in Blobs, NEW r \in Requests, NEW t
  PROVE  Asked(r, b, Written(r, b, t))
<1>1. CASE r.op = "createGroup"
  <2>1. Written(r, b, t) = CreateGroup(b, r, t)
    BY <1>1 DEF Written
  <2> QED
    BY <1>1, <2>1, CreateGroupAsked
<1>2. CASE r.op = "editGroup"
  <2>1. Written(r, b, t) = EditGroup(b, r)
    BY <1>2 DEF Written
  <2> QED
    BY <1>2, <2>1, EditGroupAsked
<1>3. CASE r.op = "deleteGroups"
  <2>1. Written(r, b, t) = DeleteGroups(b, r)
    BY <1>3 DEF Written
  <2> QED
    BY <1>3, <2>1, DeleteGroupsAsked
<1>4. CASE r.op = "submit"
  <2>1. Written(r, b, t) = Submit(b, r)
    BY <1>4 DEF Written
  <2> QED
    BY <1>4, <2>1, SubmitAsked
<1>5. CASE r.op = "listGroups"
  <2>1. Written(r, b, t) = ListGroups(b, t)
    BY <1>5 DEF Written
  <2> QED
    BY <1>5, <2>1, ListGroupsAsked
<1>6. CASE r.op = "addUser"
  <2>1. Written(r, b, t) = AddUser(b, r)
    BY <1>6 DEF Written
  <2> QED
    BY <1>6, <2>1, AddUserAsked
<1>7. CASE r.op = "editUser"
  <2>1. Written(r, b, t) = EditUser(b, r)
    BY <1>7 DEF Written
  <2> QED
    BY <1>7, <2>1, EditUserAsked
<1>8. CASE r.op = "deleteUsers"
  <2>1. Written(r, b, t) = DeleteUsers(b, r)
    BY <1>8 DEF Written
  <2> QED
    BY <1>8, <2>1, DeleteUsersAsked
<1>9. CASE r.op = "addStudent"
  <2>1. Written(r, b, t) = AddStudent(b, r)
    BY <1>9 DEF Written
  <2> QED
    BY <1>9, <2>1, AddStudentAsked
<1>10. CASE r.op = "createClass"
  <2>1. Written(r, b, t) = CreateClass(b, r)
    BY <1>10 DEF Written
  <2> QED
    BY <1>10, <2>1, CreateClassAsked
<1>11. CASE r.op = "editClass"
  <2>1. Written(r, b, t) = EditClass(b, r)
    BY <1>11 DEF Written
  <2> QED
    BY <1>11, <2>1, EditClassAsked
<1>12. CASE r.op = "deleteClasses"
  <2>1. Written(r, b, t) = DeleteClasses(b, r)
    BY <1>12 DEF Written
  <2> QED
    BY <1>12, <2>1, DeleteClassesAsked
<1>13. CASE r.op = "createTemplate"
  <2>1. Written(r, b, t) = CreateTemplate(b, r)
    BY <1>13 DEF Written
  <2> QED
    BY <1>13, <2>1, TemplatesAsked
<1>14. CASE r.op = "deleteTemplates"
  <2>1. Written(r, b, t) = DeleteTemplates(b, r)
    BY <1>14 DEF Written
  <2> QED
    BY <1>14, <2>1, TemplatesAsked
<1>15. CASE r.op = "reset"
  BY <1>15 DEF Asked, AsksOut, AsksIn
<1>16. CASE r.op \in {"open", "editTemplate"}
  <2>1. Written(r, b, t) = b
    BY <1>16 DEF Written, EditTemplate
  <2> QED
    BY <2>1 DEF Asked
<1> QED
  BY <1>1, <1>2, <1>3, <1>4, <1>5, <1>6, <1>7, <1>8, <1>9, <1>10, <1>11, <1>12, <1>13, <1>14, <1>15, <1>16
  DEF Requests

(***************************************************************************)
(* A call takes out and puts in what it was asked to, and otherwise only   *)
(* what changed after it had read: for any number of tabs and calls.       *)
(***************************************************************************)
THEOREM OwnChangesAlways == Spec => OwnChangesUnlessOverlap
<1>1. Inv /\ [Next]_vars => [ChangesStep]_vars
  <2> SUFFICES ASSUME Inv, [Next]_vars, NEW c \in Slots, call[c].at = "read", call'[c].at = "idle"
               PROVE  OwnChanges(c)
    BY DEF ChangesStep
  <2> DEFINE r == call[c].request
             b == call[c].base
  <2>1. Write(c)
    <3>1. CASE \E d \in Slots : Ask(d)
      BY <3>1 DEF Ask, Inv, TypeOK
    <3>2. CASE \E d \in Slots : Read(d)
      <4>1. PICK d \in Slots : Read(d)
        BY <3>2
      <4>2. d # c
        BY <4>1 DEF Read
      <4> QED
        BY <4>1, <4>2 DEF Read, Inv, TypeOK
    <3>3. CASE \E d \in Slots : GenerateFails(d)
      <4>1. PICK d \in Slots : GenerateFails(d)
        BY <3>3
      <4>2. d # c
        BY <4>1 DEF GenerateFails
      <4> QED
        BY <4>1, <4>2 DEF GenerateFails, Inv, TypeOK
    <3>4. CASE \E d \in Slots : Write(d)
      BY <3>4 DEF Write, Inv, TypeOK
    <3>5. CASE Tick \/ UNCHANGED vars
      BY <3>5 DEF Tick, vars
    <3> QED
      BY <3>1, <3>2, <3>3, <3>4, <3>5 DEF Next
  <2>2. r \in Requests /\ b \in Blobs
    BY <2>1 DEF Write, Inv, TypeOK, CallRecords
  <2>3. Asked(r, b, store')
    BY <2>1, <2>2, WrittenAsked DEF Write
  <2>4. Items(store)' = Items(store')
    OBVIOUS
  <2>5. \A x \in Items(store) \ Items(store') : AsksOut(r, b, x) \/ x \notin Items(b)
    BY <2>3 DEF Asked
  <2>6. \A x \in Items(store') \ Items(store) : AsksIn(r, x) \/ x \in Items(b)
    BY <2>3 DEF Asked
  <2> QED
    BY <2>4, <2>5, <2>6 DEF OwnChanges
<1> QED
  BY <1>1, InitInv, NextInv, PTL DEF Spec, OwnChangesUnlessOverlap

----------------------------------------------------------------------------
(***************************************************************************)
(* What the pages count.                                                   *)
(***************************************************************************)
AllVariants(b) == UNION {g.variants : g \in b.assignments}

SubmissionOf(v) == [variant |-> v.id, student |-> v.student]

LEMMA SoundParts ==
  ASSUME NEW b, Sound(b)
  PROVE  /\ \A g \in b.assignments :
              g.variants \in SUBSET [id : Nat, student : Nat] /\ IsFiniteSet(g.variants) /\ g.type \in Types
         /\ \A s \in b.submissions : s \in [variant : Nat, student : Nat]
         /\ \A g, h \in b.assignments : \A v \in g.variants, w \in h.variants :
              v.id = w.id \/ (g = h /\ v.student = w.student) => v = w /\ g = h
         /\ \A s \in b.submissions : \E g \in b.assignments : \E v \in g.variants :
              v.id = s.variant /\ v.student = s.student
         /\ \A s, q \in b.submissions : q.variant = s.variant => q = s
  BY DEF Sound, Blobs, GroupRecords, IdsUnique, SubmissionsHeld

\* A variant is submitted when its own student has submitted it.
LEMMA ScoredIsSubmitted ==
  ASSUME NEW b, Sound(b), NEW v \in AllVariants(b)
  PROVE  /\ ScoredRow(b, v) <=> \E s \in b.submissions : s.variant = v.id
         /\ ScoredRow(b, v) <=> SubmissionOf(v) \in b.submissions
<1>1. PICK g \in b.assignments : v \in g.variants
  BY DEF AllVariants
<1>2. ASSUME NEW s \in b.submissions, s.variant = v.id
      PROVE  s.student = v.student
  <2>1. PICK h \in b.assignments : \E w \in h.variants :
           w.id = s.variant /\ w.student = s.student
    BY SoundParts
  <2>1a. PICK w \in h.variants : w.id = s.variant /\ w.student = s.student
    BY <2>1
  <2>2. w = v
    BY <1>1, <1>2, <2>1a, SoundParts
  <2> QED
    BY <2>1a, <2>2
<1>3. ASSUME NEW s \in b.submissions, s.variant = v.id, s.student = v.student
      PROVE  s = SubmissionOf(v)
  BY <1>3, SoundParts DEF SubmissionOf
<1>4. SubmissionOf(v).variant = v.id /\ SubmissionOf(v).student = v.student
  BY DEF SubmissionOf
<1> QED
  BY <1>2, <1>3, <1>4 DEF ScoredRow

LEMMA SubmissionsFinite ==
  ASSUME NEW b, Sound(b)
  PROVE  IsFiniteSet(b.submissions)
<1> DEFINE f == [s \in b.submissions |-> s.variant]
<1>1. VariantIds(b) \subseteq Nat
  BY SoundParts DEF VariantIds, Ids
<1>2. PICK n \in Nat : \A m \in VariantIds(b) : m <= n
  BY DEF Sound, Bounded
<1>3. IsFiniteSet(VariantIds(b))
  BY <1>1, <1>2, FS_BoundedSetOfNaturals
<1>4. f \in [b.submissions -> VariantIds(b)]
  BY SoundParts DEF VariantIds, Ids
<1>5. \A s, q \in b.submissions : f[s] = f[q] => s = q
  BY SoundParts
<1> HIDE DEF f
<1>6. f \in Injection(b.submissions, VariantIds(b))
  BY <1>4, <1>5 DEF Injection, IsInjective
<1> QED
  BY <1>3, <1>6, FS_Injection

(***************************************************************************)
(* Counting submissions is counting the variants they are for, whichever   *)
(* of them are asked about.                                                *)
(***************************************************************************)
LEMMA RowsAreSubmissions ==
  ASSUME NEW b, Sound(b),
         NEW subs \in SUBSET b.submissions, NEW rows \in SUBSET AllVariants(b),
         \A v \in AllVariants(b) : v \in rows <=> SubmissionOf(v) \in subs
  PROVE  Cardinality(subs) = Cardinality(rows)
<1> DEFINE f == [v \in rows |-> SubmissionOf(v)]
<1>1. f \in [rows -> subs]
  OBVIOUS
<1>2. ASSUME NEW v \in rows, NEW w \in rows, f[v] = f[w]
      PROVE  v = w
  <2>1. v.id = w.id
    BY <1>2 DEF SubmissionOf
  <2>2. PICK g \in b.assignments, h \in b.assignments : v \in g.variants /\ w \in h.variants
    BY DEF AllVariants
  <2> QED
    BY <2>1, <2>2, SoundParts
<1>3. ASSUME NEW s \in subs
      PROVE  \E v \in rows : f[v] = s
  <2>1. PICK g \in b.assignments : \E v \in g.variants :
           v.id = s.variant /\ v.student = s.student
    BY SoundParts
  <2>1a. PICK v \in g.variants : v.id = s.variant /\ v.student = s.student
    BY <2>1
  <2>2. SubmissionOf(v) = s
    BY <2>1a, SoundParts DEF SubmissionOf
  <2>3. v \in AllVariants(b)
    BY DEF AllVariants
  <2> QED
    BY <2>2, <2>3
<1> HIDE DEF f
<1>4. f \in Injection(rows, subs) /\ f \in Surjection(rows, subs)
  BY <1>1, <1>2, <1>3 DEF Injection, IsInjective, Surjection
<1>5. IsFiniteSet(subs)
  BY SubmissionsFinite, FS_Subset
<1> QED
  BY <1>4, <1>5, FS_Injection

(***************************************************************************)
(* In one group, the students who submitted are as many as the variants    *)
(* that are submitted.                                                     *)
(***************************************************************************)
LEMMA StudentsCounted ==
  ASSUME NEW b, Sound(b), NEW g \in b.assignments
  PROVE  /\ Submitted(b, g) = Cardinality(DetailsRows(b, g))
         /\ DetailsRows(b, g) = {v \in g.variants : ScoredRow(b, v)}
         /\ g.completed <=> Submitted(b, g) = Cardinality(g.variants)
<1> DEFINE Who == {s.student : s \in {q \in b.submissions : q.variant \in Ids(g.variants)}}
           rows == DetailsRows(b, g)
           f == [v \in rows |-> v.student]
<1>0. \A v \in g.variants : v \in AllVariants(b)
  BY DEF AllVariants
<1>1. rows = {v \in g.variants : ScoredRow(b, v)}
  BY <1>0, ScoredIsSubmitted DEF DetailsRows
<1>2. IsFiniteSet(g.variants) /\ rows \subseteq g.variants
  BY SoundParts DEF DetailsRows
<1>3. f \in [rows -> Who]
  <2> SUFFICES ASSUME NEW v \in rows PROVE v.student \in Who
    OBVIOUS
  <2>1. SubmissionOf(v) \in b.submissions /\ v \in g.variants
    BY <1>0, <1>1, ScoredIsSubmitted
  <2>2. SubmissionOf(v).student = v.student /\ SubmissionOf(v).variant \in Ids(g.variants)
    BY <2>1 DEF SubmissionOf, Ids
  <2> QED
    BY <2>1, <2>2
<1>4. \A v, w \in rows : f[v] = f[w] => v = w
  BY <1>2, SoundParts
<1>5. ASSUME NEW x \in Who
      PROVE  \E v \in rows : f[v] = x
  <2>1. PICK s \in b.submissions : s.variant \in Ids(g.variants) /\ s.student = x
    OBVIOUS
  <2>2. PICK v \in g.variants : v.id = s.variant
    BY <2>1 DEF Ids
  <2>3. v \in rows
    BY <2>2 DEF DetailsRows
  <2>4. PICK h \in b.assignments : \E w \in h.variants :
           w.id = s.variant /\ w.student = s.student
    BY SoundParts
  <2>4a. PICK w \in h.variants : w.id = s.variant /\ w.student = s.student
    BY <2>4
  <2>5. w = v
    BY <2>2, <2>4a, SoundParts
  <2> QED
    BY <2>1, <2>3, <2>4a, <2>5
<1>6. Submitted(b, g) = Cardinality(Who)
  BY DEF Submitted
<1> HIDE DEF f, rows, Who
<1>7. f \in Surjection(rows, Who) /\ f \in Injection(rows, Who)
  BY <1>3, <1>4, <1>5 DEF Surjection, Injection, IsInjective
<1>8. IsFiniteSet(rows) /\ (Cardinality(g.variants) = Cardinality(rows) => g.variants = rows)
  BY <1>2, FS_Subset
<1>9. Cardinality(Who) = Cardinality(rows)
  BY <1>7, <1>8, FS_Surjection
<1>10. g.completed <=> rows = g.variants
  BY DEF Sound, CompletedIffAll, rows, DetailsRows
<1>11. rows = DetailsRows(b, g)
  BY DEF rows
<1> QED
  BY <1>1, <1>6, <1>8, <1>9, <1>10, <1>11

\* The pages of one variant find it in its group and in no other.
LEMMA OneHolder ==
  ASSUME NEW b, Sound(b), NEW g \in b.assignments, NEW v \in g.variants
  PROVE  Holders(b, v.id) = {g}
<1>1. v.id \in Ids(g.variants)
  BY DEF Ids
<1>2. ASSUME NEW h \in b.assignments, v.id \in Ids(h.variants)
      PROVE  h = g
  <2>1. PICK w \in h.variants : w.id = v.id
    BY <1>2 DEF Ids
  <2> QED
    BY <2>1, SoundParts
<1> QED
  BY <1>1, <1>2 DEF Holders

LEMMA VariantShown ==
  ASSUME NEW b, Sound(b), NEW g \in b.assignments, NEW v \in g.variants, NEW t
  PROVE  /\ \A type \in Types :
              SubmissionShown(b, v.id, type) <=> type = g.type /\ ScoredRow(b, v)
         /\ AvailableForSubmission(b, v.id, t)
              <=> SubmitPasses(b, [op |-> "submit", variant |-> v.id, type |-> g.type, user |-> v.student], t)
<1>1. Holders(b, v.id) = {g} /\ v \in AllVariants(b)
  BY OneHolder DEF AllVariants
<1>2. ScoredRow(b, v) <=> \E s \in b.submissions : s.variant = v.id
  BY <1>1, ScoredIsSubmitted
<1> QED
  BY <1>1, <1>2 DEF SubmissionShown, AvailableForSubmission, SubmitPasses

\* The rows of some students, and what they submitted.
LEMMA SomeCounted ==
  ASSUME NEW b, Sound(b), NEW P
  PROVE  Cardinality({s \in b.submissions : s.student \in P})
           = Cardinality({v \in AllVariants(b) : v.student \in P /\ ScoredRow(b, v)})
<1> DEFINE subs == {s \in b.submissions : s.student \in P}
           rows == {v \in AllVariants(b) : v.student \in P /\ ScoredRow(b, v)}
<1>1. ASSUME NEW v \in AllVariants(b)
      PROVE  v \in rows <=> SubmissionOf(v) \in subs
  BY <1>1, ScoredIsSubmitted DEF SubmissionOf
<1>2. subs \in SUBSET b.submissions /\ rows \in SUBSET AllVariants(b)
  OBVIOUS
<1> HIDE DEF subs, rows
<1>3. Cardinality(subs) = Cardinality(rows)
  BY <1>1, <1>2, RowsAreSubmissions
<1> QED
  BY <1>3 DEF subs, rows

LEMMA TotalsAgree ==
  ASSUME NEW b, Sound(b)
  PROVE  /\ TeacherTotal(b) = Cardinality(UNION {DetailsRows(b, g) : g \in b.assignments})
         /\ \A u : Cardinality(UserSubmits(b, u)) = Cardinality({v \in StudentRows(b, u) : ScoredRow(b, v)})
         /\ \A c : ClassTotal(b, c)
                     = Cardinality({v \in UNION {StudentRows(b, u) : u \in ClassMembers(b, c)} : ScoredRow(b, v)})
<1>1. TeacherTotal(b) = Cardinality(UNION {DetailsRows(b, g) : g \in b.assignments})
  <2> DEFINE rows == UNION {DetailsRows(b, g) : g \in b.assignments}
  <2>1. ASSUME NEW v \in AllVariants(b)
        PROVE  v \in rows <=> SubmissionOf(v) \in b.submissions
    <3>1. v \in rows <=> \E s \in b.submissions : s.variant = v.id
      BY DEF AllVariants, DetailsRows
    <3> QED
      BY <3>1, ScoredIsSubmitted
  <2>2. rows \in SUBSET AllVariants(b)
    BY DEF AllVariants, DetailsRows
  <2> HIDE DEF rows
  <2>3. Cardinality(b.submissions) = Cardinality(rows)
    BY <2>1, <2>2, RowsAreSubmissions
  <2> QED
    BY <2>3 DEF TeacherTotal, rows
<1>2. ASSUME NEW u
      PROVE  Cardinality(UserSubmits(b, u)) = Cardinality({v \in StudentRows(b, u) : ScoredRow(b, v)})
  <2>1. {v \in StudentRows(b, u) : ScoredRow(b, v)}
          = {v \in AllVariants(b) : v.student \in {u} /\ ScoredRow(b, v)}
    BY DEF StudentRows, AllVariants
  <2>2. UserSubmits(b, u) = {s \in b.submissions : s.student \in {u}}
    BY DEF UserSubmits
  <2> QED
    BY <2>1, <2>2, SomeCounted
<1>3. ASSUME NEW c
      PROVE  ClassTotal(b, c)
               = Cardinality({v \in UNION {StudentRows(b, u) : u \in ClassMembers(b, c)} : ScoredRow(b, v)})
  <2> DEFINE P == ClassMembers(b, c)
  <2> HIDE DEF P
  <2>1. {v \in UNION {StudentRows(b, u) : u \in P} : ScoredRow(b, v)}
          = {v \in AllVariants(b) : v.student \in P /\ ScoredRow(b, v)}
    BY DEF StudentRows, AllVariants
  <2>2. ClassTotal(b, c) = Cardinality({s \in b.submissions : s.student \in P})
    BY DEF ClassTotal, P
  <2>3. Cardinality({v \in UNION {StudentRows(b, u) : u \in P} : ScoredRow(b, v)}) = ClassTotal(b, c)
    BY <2>1, <2>2, SomeCounted
  <2> QED
    BY <2>3 DEF P
<1> QED
  BY <1>1, <1>2, <1>3

(***************************************************************************)
(* The lists, the details, the pages of a student and of a class and the   *)
(* teacher's dashboard agree on who has submitted, for any students,       *)
(* classes and groups and whatever handlers overlap, although each counts  *)
(* something else; and so does the student's dashboard, for the one        *)
(* student it counts whoever looks.                                        *)
(***************************************************************************)
THEOREM ViewsAgreeAlways == Spec => []ViewsAgree
<1>1. Inv => ViewsAgree
  <2> SUFFICES ASSUME Inv PROVE ViewsAgree
    OBVIOUS
  <2>1. Sound(store)
    BY DEF Inv
  <2>2. StudentTotal(store) = Cardinality({v \in StudentRows(store, DashboardStudent) : ScoredRow(store, v)})
    BY <2>1, TotalsAgree DEF StudentTotal
  <2>3. /\ TeacherTotal(store) = Cardinality(UNION {DetailsRows(store, g) : g \in store.assignments})
        /\ \A u \in Ids(store.users) :
             Cardinality(UserSubmits(store, u)) = Cardinality({v \in StudentRows(store, u) : ScoredRow(store, v)})
        /\ \A c \in store.classes :
             ClassTotal(store, c) = Cardinality({v \in UNION {StudentRows(store, u) : u \in ClassMembers(store, c)} :
                                                   ScoredRow(store, v)})
    BY <2>1, TotalsAgree
  <2> QED
    BY <2>1, <2>2, <2>3, StudentsCounted, VariantShown DEF ViewsAgree
<1> QED
  BY <1>1, InitInv, NextInv, PTL DEF Spec

============================================================================
