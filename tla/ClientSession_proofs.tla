------------------------ MODULE ClientSession_proofs ------------------------
(***************************************************************************)
(* Type correctness of the session of a tab, and that at rest it shows the *)
(* user of its token, whatever was answered in whatever order.             *)
(***************************************************************************)
EXTENDS ClientSession, TLAPS

(***************************************************************************)
(* The inductive invariant.                                                *)
(***************************************************************************)
\* What the tab holds is of the right kind, of the tokens o.
Held(q, o) ==
  /\ q \in TabRecords
  /\ {q.token, q.timer} \cup q.calls \subseteq 0..Len(o)
  /\ \A t \in Tokens : q.checks[t] > 0 => t <= Len(o)

\* A token whose user is not known is being validated.
Pending(q) == q.token # NoToken /\ ~q.auth.in => q.loading /\ q.checks[q.token] > 0

\* Nobody logs in while there is a token.
SignsIn(q) == q.signing.in => q.token = NoToken

\* The user is the one of the token, unless late.
Owned(q, o) == q.auth.in /\ ~q.late => q.token # NoToken /\ q.auth.user = o[q.token]

\* With a token, calls are under way from pages only.
CallsFromPages(q) == q.location.at # "page" /\ q.token # NoToken => q.calls = {}

Entered(q, o) == Held(q, o) /\ SignsIn(q) /\ Owned(q, o)

Good(q, o) == Entered(q, o) /\ Pending(q) /\ CallsFromPages(q)

Counted ==
  /\ owner \in Seq(Accounts) /\ Len(owner) <= MaxLogins
  /\ expired \in 0..Len(owner)
  /\ moves \in 0..MaxMoves

SessionInv == Counted /\ Good(tab, owner)

(***************************************************************************)
(* Pages and locations.                                                    *)
(***************************************************************************)
Paths == Seq(Segments) \ {<< >>}

LEMMA PathsJoin ==
  ASSUME NEW s \in Paths, NEW t \in Paths
  PROVE  s \o t \in Paths
<1>1. s \o t \in Seq(Segments) /\ Len(s \o t) = Len(s) + Len(t)
  BY DEF Paths
<1>2. Len(s) \in Nat \ {0} /\ Len(t) \in Nat
  BY DEF Paths
<1> QED
  BY <1>1, <1>2 DEF Paths

LEMMA PagesTyped ==
  ASSUME NEW role \in Roles
  PROVE  PagesOf(role) \subseteq Paths
<1>1. /\ AGroups \in Paths /\ Assigned \in Paths
      /\ << "TYPE" >> \in Paths /\ << "create" >> \in Paths
      /\ << "edit", "ID" >> \in Paths /\ << "details", "ID" >> \in Paths
      /\ << "details", "ID", "SUBMIT" >> \in Paths /\ << "archive" >> \in Paths
      /\ << "templates" >> \in Paths /\ << "templates", "create" >> \in Paths
      /\ << "templates", "edit", "ID" >> \in Paths
  BY DEF Paths, Segments, AGroups, Assigned
<1>2. /\ << "archive", "TYPE", "details", "ID" >> \in Paths
      /\ << "archive", "TYPE", "details", "ID", "SUBMIT" >> \in Paths
      /\ << "TYPE", "submit", "ID" >> \in Paths /\ << "TYPE", "details", "ID" >> \in Paths
      /\ << "dashboard" >> \in Paths /\ << "users" >> \in Paths /\ << "users", "details", "ID" >> \in Paths
      /\ << "classes" >> \in Paths /\ << "classes", "details", "ID" >> \in Paths
      /\ << "gns3" >> \in Paths /\ << "gns3", "all-sessions" >> \in Paths /\ << "settings" >> \in Paths
      /\ << "my-classes" >> \in Paths /\ << "my-classes", "student-details", "ID" >> \in Paths
      /\ << "my-classes", "class-details", "ID" >> \in Paths
  BY DEF Paths, Segments
<1> HIDE DEF Paths
<1>3. AGType \in Paths
  BY <1>1, PathsJoin DEF AGType
<1>4. GroupPages \subseteq Paths
  BY <1>1, <1>2, <1>3, PathsJoin DEF GroupPages
<1>5. AdminPages \subseteq Paths /\ TeacherPages \subseteq Paths
  BY <1>2, <1>4 DEF AdminPages, TeacherPages
<1>6. StudentPages \subseteq Paths
  BY <1>1, <1>2, PathsJoin DEF StudentPages
<1> QED
  BY <1>5, <1>6 DEF PagesOf, Roles

LEMMA PageLocated ==
  ASSUME NEW role \in Roles, NEW path \in Paths
  PROVE  Page(role, path) \in Located /\ Page(role, path).at = "page"
BY DEF Page, Located, Paths

LEMMA DashboardLocated ==
  ASSUME NEW role \in Roles
  PROVE  Dashboard(role) \in Located /\ Dashboard(role).at = "page"
<1>1. << "dashboard" >> \in Paths
  BY DEF Paths, Segments
<1> QED
  BY <1>1, PageLocated DEF Dashboard

LEMMA LocationKinds ==
  /\ \A l \in Located : l.at # "login"
  /\ \A l \in Located : l.at = "page" => l.role \in Roles /\ l.path \in Paths
  /\ \A l \in Logins : l.at = "login" /\ l.redirect \in Located \cup {Nowhere}
  /\ \A l \in Located : LoginFrom(l) \in Logins
  /\ Login \in Logins
  /\ Nowhere.at # "page"
BY DEF Located, Logins, LoginFrom, Login, Nowhere, Elsewhere, Paths

LEMMA HomeLocated ==
  ASSUME NEW l \in Located \cup {Nowhere}, NEW role \in Roles
  PROVE  HomeOf(l, role) \in Located /\ HomeOf(l, role).at = "page"
BY LocationKinds, DashboardLocated DEF HomeOf, IsRedirectFor

LEMMA TargetTyped ==
  ASSUME NEW S, NEW a \in S, NEW b \in S, NEW c \in S, NEW role \in Roles
  PROVE  Target(a, b, c)[role] \in S
BY DEF Target, Roles

LEMMA SectionTyped ==
  ASSUME NEW section, NEW role \in Roles
  PROVE  SectionTargets(section)[role] \in Seq(Segments)
<1> DEFINE S == Seq(Segments)
<1>1. /\ AGroups \in S /\ Assigned \in S /\ << >> \in S /\ << "dashboard" >> \in S
      /\ << "classes" >> \in S /\ << "my-classes" >> \in S /\ << "users" >> \in S
      /\ << "gns3" >> \in S /\ << "settings" >> \in S
  BY DEF AGroups, Assigned, Segments
<1> HIDE DEF S
<1>2. \E a, b, c \in S : SectionTargets(section) = Target(a, b, c)
  BY <1>1, Zenon DEF SectionTargets
<1>3. SectionTargets(section)[role] \in S
  BY <1>2, TargetTyped
<1> QED
  BY <1>3 DEF S

LEMMA RoleRedirectLocated ==
  ASSUME NEW l, NEW role \in Roles
  PROVE  RoleRedirect(l, role) \in Located /\ RoleRedirect(l, role).at = "page"
<1> DEFINE path == SectionTargets(Head(l.path))[role]
<1>1. path \in Seq(Segments)
  BY SectionTyped
<1> HIDE DEF path
<1>2. CASE path = << >>
  BY <1>2, DashboardLocated DEF RoleRedirect, path
<1>3. CASE path # << >>
  <2>1. path \in Paths
    BY <1>1, <1>3 DEF Paths
  <2>2. RoleRedirect(l, role) = Page(role, path)
    BY <1>3 DEF RoleRedirect, path
  <2> QED
    BY <2>1, <2>2, PageLocated
<1> QED
  BY <1>2, <1>3

(***************************************************************************)
(* What the tab holds after each kind of update.                           *)
(***************************************************************************)
LEMMA ClearHeld ==
  ASSUME NEW q, NEW o \in Seq(Accounts), NEW redirect \in BOOLEAN, Held(q, o)
  PROVE  /\ Held(ClearAuthState(q, redirect), o)
         /\ ClearAuthState(q, redirect).token = NoToken
         /\ ClearAuthState(q, redirect).auth = Out
         /\ ClearAuthState(q, redirect).calls = q.calls
<1> DEFINE r == ClearAuthState(q, redirect)
<1>1. q \in TabRecords /\ {q.token, q.timer} \cup q.calls \subseteq 0..Len(o)
  BY DEF Held
<1>2. (IF redirect /\ q.location.at # "login" THEN LoginFrom(q.location) ELSE q.location) \in Located \cup Logins
  BY <1>1, LocationKinds DEF TabRecords
<1>3. Out \in Seen
  BY DEF Seen
<1>4. r \in TabRecords
  BY <1>1, <1>2, <1>3 DEF ClearAuthState, TabRecords, NoToken
<1>5. /\ r.token = NoToken /\ r.auth = Out /\ r.calls = q.calls
      /\ r.timer = q.timer /\ r.checks = q.checks
  BY <1>1 DEF ClearAuthState, TabRecords
<1>6. NoToken \in 0..Len(o)
  BY DEF NoToken
<1> QED
  BY <1>4, <1>5, <1>6 DEF Held

LEMMA LoadedHeld ==
  ASSUME NEW q, NEW o \in Seq(Accounts), Held(q, o)
  PROVE  /\ Held([q EXCEPT !.loading = FALSE], o)
         /\ [q EXCEPT !.loading = FALSE].token = q.token
         /\ [q EXCEPT !.loading = FALSE].auth = q.auth
         /\ [q EXCEPT !.loading = FALSE].calls = q.calls
<1> DEFINE r == [q EXCEPT !.loading = FALSE]
<1>1. q \in TabRecords
  BY DEF Held
<1>2. r \in TabRecords
  BY <1>1 DEF TabRecords
<1>3. r.token = q.token /\ r.auth = q.auth /\ r.calls = q.calls /\ r.timer = q.timer /\ r.checks = q.checks
  BY <1>1 DEF TabRecords
<1> QED
  BY <1>2, <1>3 DEF Held

LEMMA TimerHeld ==
  ASSUME NEW q, NEW o \in Seq(Accounts), Held(q, o), NEW k \in {NoToken, q.token}
  PROVE  /\ Held([q EXCEPT !.timer = k], o)
         /\ [q EXCEPT !.timer = k].token = q.token
         /\ [q EXCEPT !.timer = k].auth = q.auth
         /\ \A x \in {"calls", "signing", "late", "loading", "checks", "location"} : [q EXCEPT !.timer = k][x] = q[x]
<1> DEFINE r == [q EXCEPT !.timer = k]
<1>1. q \in TabRecords /\ q.token \in 0..Len(o)
  BY DEF Held
<1>2. k \in 0..Len(o) /\ k \in Nat
  BY <1>1 DEF NoToken
<1>3. r \in TabRecords
  <2> HIDE DEF NoToken
  <2> QED
    BY ONLY <1>1, <1>2 DEF TabRecords
<1>4. r.token = q.token /\ r.auth = q.auth /\ r.calls = q.calls /\ r.timer = k /\ r.checks = q.checks
  BY <1>1 DEF TabRecords
<1>5. \A x \in {"calls", "signing", "late", "loading", "checks", "location"} : r[x] = q[x]
  BY <1>1 DEF TabRecords
<1> QED
  BY <1>2, <1>3, <1>4, <1>5 DEF Held

\* Without a token and a user there is nothing to keep.
LEMMA LoggedOutGood ==
  ASSUME NEW q, NEW o \in Seq(Accounts), Held(q, o), q.token = NoToken, ~q.auth.in
  PROVE  Good(q, o)
BY DEF Good, Entered, SignsIn, Owned, Pending, CallsFromPages

LEMMA OutIsOut == ~Out.in
BY DEF Out

LEMMA ClearGood ==
  ASSUME NEW q, NEW o \in Seq(Accounts), NEW redirect \in BOOLEAN, Held(q, o)
  PROVE  Good(ClearAuthState(q, redirect), o)
BY ClearHeld, LoggedOutGood, OutIsOut

\* What a refresh of q leaves.
Refreshed(r, q, o) ==
  /\ Entered(r, o) /\ Pending(r) /\ r.calls = q.calls
  /\ r.token # NoToken => r.token = q.token /\ r.location = q.location

LEMMA RefreshGood ==
  ASSUME NEW q, NEW o \in Seq(Accounts), Len(o) <= MaxLogins, Entered(q, o)
  PROVE  Refreshed(RefreshAuth(q), q, o)
<1> DEFINE r == RefreshAuth(q)
<1>1. Held(q, o)
  BY DEF Entered
<1>2. ASSUME NEW redirect \in BOOLEAN, r = [ClearAuthState(q, redirect) EXCEPT !.loading = FALSE]
      PROVE  Good(r, o) /\ r.calls = q.calls /\ r.token = NoToken
  <2> DEFINE c == ClearAuthState(q, redirect)
  <2>1. Held(c, o) /\ c.token = NoToken /\ c.auth = Out /\ c.calls = q.calls
    BY <1>1, ClearHeld
  <2> HIDE DEF c
  <2>2. LET d == [c EXCEPT !.loading = FALSE]
        IN  Held(d, o) /\ d.token = NoToken /\ d.auth = Out /\ d.calls = q.calls
    BY <2>1, LoadedHeld
  <2>3. r = [c EXCEPT !.loading = FALSE]
    BY <1>2 DEF c
  <2> QED
    BY <2>2, <2>3, LoggedOutGood, OutIsOut
<1>3. CASE q.token = NoToken
  <2>1. r = [ClearAuthState(q, FALSE) EXCEPT !.loading = FALSE]
    BY <1>3 DEF RefreshAuth
  <2> HIDE DEF r
  <2>2. Good(r, o) /\ r.calls = q.calls /\ r.token = NoToken
    BY <2>1, <1>2
  <2> QED
    BY <2>2 DEF Good, Refreshed, r
<1>4. CASE q.token # NoToken /\ Expired(q.token)
  <2>1. r = [ClearAuthState(q, TRUE) EXCEPT !.loading = FALSE]
    BY <1>4 DEF RefreshAuth
  <2> HIDE DEF r
  <2>2. Good(r, o) /\ r.calls = q.calls /\ r.token = NoToken
    BY <2>1, <1>2
  <2> QED
    BY <2>2 DEF Good, Refreshed, r
<1>5. CASE q.token # NoToken /\ ~Expired(q.token)
  <2>1. q \in TabRecords /\ q.token \in 0..Len(o) /\ q.token \in Tokens
    BY <1>1, <1>5, SessionAssumption DEF Held, NoToken, Tokens
  <2>2. r = [q EXCEPT !.loading = TRUE, !.checks[q.token] = @ + 1]
    BY <1>5 DEF RefreshAuth
  <2> DEFINE more == [q.checks EXCEPT ![q.token] = @ + 1]
  <2>3. q.checks \in [Tokens -> Nat] /\ more \in [Tokens -> Nat]
    BY <2>1 DEF TabRecords
  <2>4. more[q.token] > 0 /\ \A t \in Tokens : more[t] > 0 => t = q.token \/ q.checks[t] > 0
    BY <2>1, <2>3
  <2>5. r = [q EXCEPT !.loading = TRUE, !.checks = more]
    BY <2>1, <2>2 DEF TabRecords
  <2> HIDE DEF more
  <2>6. r \in TabRecords
    BY <2>1, <2>3, <2>5 DEF TabRecords
  <2>7. /\ r.token = q.token /\ r.timer = q.timer /\ r.calls = q.calls /\ r.checks = more /\ r.loading
        /\ r.auth = q.auth /\ r.signing = q.signing /\ r.late = q.late /\ r.location = q.location
    BY <2>1, <2>5 DEF TabRecords
  <2>8. Held(r, o)
    BY <1>1, <2>1, <2>4, <2>6, <2>7 DEF Held
  <2>9. SignsIn(r) /\ Owned(r, o)
    BY <2>7 DEF Entered, SignsIn, Owned
  <2>10. Pending(r)
    BY <2>4, <2>7 DEF Pending
  <2> QED
    BY <2>7, <2>8, <2>9, <2>10 DEF Entered, Refreshed
<1> QED
  BY <1>3, <1>4, <1>5

LEMMA StartGood ==
  ASSUME NEW token, NEW l \in Located \cup Logins, NEW o \in Seq(Accounts), Len(o) <= MaxLogins,
         token \in 0..Len(o)
  PROVE  Good(Start(token, l), o)
<1> DEFINE b == Blank(token, l)
<1>1. NoChecks \in [Tokens -> Nat] /\ \A t \in Tokens : ~(NoChecks[t] > 0)
  BY DEF NoChecks
<1>2. b \in TabRecords
  BY <1>1, OutIsOut DEF Blank, TabRecords, Seen, NoToken
<1>3. /\ b.token = token /\ b.timer = NoToken /\ b.calls = {} /\ b.checks = NoChecks
      /\ b.signing = Out /\ b.auth = Out
  BY DEF Blank
<1> HIDE DEF b
<1>4. Held(b, o)
  BY <1>1, <1>2, <1>3 DEF Held, NoToken
<1>5. Entered(b, o)
  BY <1>3, <1>4, OutIsOut DEF Entered, SignsIn, Owned
<1> DEFINE c == RefreshAuth(b)
<1>6. Entered(c, o) /\ c.calls = {}
  BY <1>3, <1>5, RefreshGood DEF Refreshed
<1> HIDE DEF c
<1>7. Refreshed(RefreshAuth(c), c, o)
  BY <1>6, RefreshGood
<1>8. Start(token, l) = RefreshAuth(c)
  BY DEF Start, b, c
<1> QED
  BY <1>6, <1>7, <1>8 DEF Good, CallsFromPages, Refreshed

(***************************************************************************)
(* What the routes do with a tab that is rendered.                         *)
(***************************************************************************)
LEMMA OnPageLocated ==
  ASSUME SessionInv, OnPage
  PROVE  /\ tab.location \in Located /\ tab.location.at = "page"
         /\ tab.location.role \in Roles
BY LocationKinds DEF SessionInv, Good, Entered, Held, TabRecords, OnPage

\* A user who is shown has a role.
LEMMA ShownAccount ==
  ASSUME SessionInv, Rendered, tab.shown.in
  PROVE  tab.shown.user \in Accounts /\ RoleOf[tab.shown.user] \in Roles
<1>1. tab.auth \in Seen /\ tab.shown.user = tab.auth.user /\ tab.shown.in = tab.auth.in
  BY DEF SessionInv, Good, Entered, Held, TabRecords, Rendered, Current
<1> QED
  BY <1>1, OutIsOut, SessionAssumption DEF Seen

\* Nobody is shown once loaded only without a token.
LEMMA NobodyNoToken ==
  ASSUME SessionInv, Rendered, ~tab.shown.loading, ~tab.shown.in
  PROVE  tab.token = NoToken
<1>1. tab.shown.loading = tab.loading /\ tab.shown.in = tab.auth.in
  BY DEF Rendered, Current
<1> QED
  BY <1>1 DEF SessionInv, Good, Pending

LEMMA RoutedGood ==
  ASSUME SessionInv, Rendered, NEW l, l = Routed(tab.location, tab.shown)
  PROVE  /\ l \in Located \cup Logins
         /\ l.at # "page" /\ tab.token # NoToken => tab.calls = {}
<1>1. /\ tab.location \in Located \cup Logins
      /\ tab.location.at # "page" /\ tab.token # NoToken => tab.calls = {}
  BY DEF SessionInv, Good, Entered, Held, TabRecords, CallsFromPages
<1>2. CASE tab.location.at = "elsewhere"
  BY <1>1, <1>2, LocationKinds DEF Routed
<1>3. CASE tab.location.at # "elsewhere" /\ tab.shown.loading
  BY <1>1, <1>3 DEF Routed
<1>4. CASE ~tab.shown.loading /\ tab.location.at = "login"
  <2>1. l = PublicRoute(tab.location, tab.shown)
    BY <1>4 DEF Routed
  <2>2. CASE tab.shown.in
    <3>1. tab.location.redirect \in Located \cup {Nowhere}
      BY <1>1, <1>4, LocationKinds
    <3>2. l = HomeOf(tab.location.redirect, RoleOf[tab.shown.user])
      BY <2>1, <2>2 DEF PublicRoute
    <3> QED
      BY <2>2, <3>1, <3>2, HomeLocated, ShownAccount
  <2>3. CASE ~tab.shown.in
    BY <1>1, <2>1, <2>3 DEF PublicRoute
  <2> QED
    BY <2>2, <2>3
<1>5. CASE /\ ~tab.shown.loading
           /\ tab.location.at # "elsewhere" /\ tab.location.at # "login"
  <2>1. l = ProtectedRoute(tab.location, tab.shown) /\ tab.location \in Located
    BY <1>1, <1>5, LocationKinds DEF Routed
  <2>2. CASE ~tab.shown.in
    <3>1. l = LoginFrom(tab.location)
      BY <2>1, <2>2 DEF ProtectedRoute
    <3> QED
      BY <1>5, <2>1, <2>2, <3>1, NobodyNoToken, LocationKinds
  <2>3. CASE tab.shown.in
    <3>1. l = RoleRedirect(tab.location, RoleOf[tab.shown.user]) \/ l = tab.location
      BY <2>1, <2>3 DEF ProtectedRoute
    <3> QED
      BY <1>1, <2>3, <3>1, ShownAccount, RoleRedirectLocated
  <2> QED
    BY <2>2, <2>3
<1> QED
  BY <1>2, <1>3, <1>4, <1>5

(***************************************************************************)
(* Each action keeps the invariant of the tab.                             *)
(***************************************************************************)
LEMMA InvFacts ==
  ASSUME SessionInv
  PROVE  /\ owner \in Seq(Accounts) /\ Len(owner) \in Nat /\ Len(owner) <= MaxLogins
         /\ Held(tab, owner) /\ tab \in TabRecords /\ tab.token \in 0..Len(owner)
BY DEF SessionInv, Counted, Good, Entered, Held

\* A location that leaves the calls of the tab where they may be.
LEMMA MoveGood ==
  ASSUME NEW q, NEW o \in Seq(Accounts), Entered(q, o), Pending(q), NEW l \in Located \cup Logins,
         l.at # "page" /\ q.token # NoToken => q.calls = {}
  PROVE  Good([q EXCEPT !.location = l], o)
<1> DEFINE r == [q EXCEPT !.location = l]
<1>1. q \in TabRecords
  BY DEF Entered, Held
<1>2. r \in TabRecords
  BY <1>1 DEF TabRecords
<1>3. /\ r.token = q.token /\ r.timer = q.timer /\ r.calls = q.calls /\ r.checks = q.checks
      /\ r.loading = q.loading /\ r.auth = q.auth /\ r.signing = q.signing /\ r.late = q.late
      /\ r.location = l
  BY <1>1 DEF TabRecords
<1> HIDE DEF r
<1>4. Good(r, o)
  BY <1>2, <1>3 DEF Good, Entered, Held, SignsIn, Owned, Pending, CallsFromPages
<1> QED
  BY <1>4 DEF r

LEMMA LoadGood ==
  ASSUME SessionInv, NEW l \in Typed, Load(l)
  PROVE  Good(tab', owner')
<1>1. l \in Located \cup Logins
  BY TypedAssumption
<1>2. Good(Start(tab.token, l), owner)
  BY <1>1, InvFacts, StartGood
<1> QED
  BY <1>2 DEF Load

LEMMA VisitGood ==
  ASSUME SessionInv, NEW path, Visit(path)
  PROVE  Good(tab', owner')
<1> DEFINE l == Page(tab.location.role, path)
<1>1. tab.location.role \in Roles
  BY OnPageLocated DEF Visit
<1>2. path \in PagesOf(tab.location.role)
  BY DEF Visit, MenuOf, Crumbs
<1>3. l \in Located /\ l.at = "page"
  BY <1>1, <1>2, PagesTyped, PageLocated
<1> HIDE DEF l
<1>4. Good([tab EXCEPT !.location = l], owner)
  BY <1>3, InvFacts, MoveGood DEF SessionInv, Good
<1> QED
  BY <1>4 DEF Visit, l

LEMMA AskLoginGood ==
  ASSUME SessionInv, NEW u \in Accounts, AskLogin(u)
  PROVE  Good(tab', owner')
<1>1. tab.token = NoToken
  BY NobodyNoToken DEF AskLogin
<1>2. tab.location.redirect \in Located \cup {Nowhere}
  BY InvFacts, LocationKinds DEF AskLogin, TabRecords
<1> DEFINE s == [in |-> TRUE, user |-> u]
<1> DEFINE from == tab.location.redirect
<1>3. s \in Seen
  BY DEF Seen
<1>4. tab' = [tab EXCEPT !.signing = s, !.from = from] /\ owner' = owner
  BY DEF AskLogin
<1> HIDE DEF s, from
<1>5. tab' \in TabRecords
  BY <1>2, <1>3, <1>4, InvFacts DEF TabRecords, from
<1>6. /\ tab'.token = tab.token /\ tab'.timer = tab.timer /\ tab'.calls = tab.calls /\ tab'.checks = tab.checks
      /\ tab'.loading = tab.loading /\ tab'.auth = tab.auth /\ tab'.late = tab.late
      /\ tab'.location = tab.location
  BY <1>4, InvFacts DEF TabRecords
<1> QED
  BY <1>1, <1>4, <1>5, <1>6 DEF SessionInv, Good, Entered, Held, SignsIn, Owned, Pending, CallsFromPages

LEMMA RedirectGood ==
  ASSUME SessionInv, Redirect
  PROVE  Good(tab', owner')
<1> DEFINE l == Routed(tab.location, tab.shown)
<1>1. /\ l \in Located \cup Logins
      /\ l.at # "page" /\ tab.token # NoToken => tab.calls = {}
  BY RoutedGood DEF Redirect
<1>2. tab' = [tab EXCEPT !.location = l] /\ owner' = owner
  BY DEF Redirect
<1> HIDE DEF l
<1> QED
  BY <1>1, <1>2, InvFacts, MoveGood DEF SessionInv, Good

LEMMA LogoutGood ==
  ASSUME SessionInv, Logout
  PROVE  Good(tab', owner')
<1> DEFINE q == [tab EXCEPT !.token = NoToken]
<1> DEFINE out == RefreshAuth(q)
<1>1. PICK l \in {Login, LoginFrom(tab.location)} :
        tab' = [out EXCEPT !.shown = Current(out), !.timer = NoToken, !.location = l]
  BY DEF Logout
<1>2. l \in Located \cup Logins
  BY OnPageLocated, LocationKinds DEF Logout
<1>3. q.token = NoToken /\ Held(q, owner)
  <2>1. q \in TabRecords
    BY InvFacts DEF TabRecords, NoToken
  <2>2. q.token = NoToken /\ q.timer = tab.timer /\ q.calls = tab.calls /\ q.checks = tab.checks
    BY InvFacts DEF TabRecords
  <2> QED
    BY <2>1, <2>2, InvFacts DEF Held, NoToken
<1>4. out = [ClearAuthState(q, FALSE) EXCEPT !.loading = FALSE]
  BY <1>3 DEF RefreshAuth
<1> HIDE DEF q
<1>5. Held(out, owner) /\ out.token = NoToken /\ out.auth = Out
  <2> DEFINE c == ClearAuthState(q, FALSE)
  <2>1. Held(c, owner) /\ c.token = NoToken /\ c.auth = Out
    BY <1>3, InvFacts, ClearHeld
  <2> HIDE DEF c
  <2>2. LET d == [c EXCEPT !.loading = FALSE]
        IN  Held(d, owner) /\ d.token = NoToken /\ d.auth = Out
    BY <2>1, InvFacts, LoadedHeld
  <2> QED
    BY <1>4, <2>2 DEF c
<1> HIDE DEF out
<1>6. Current(out) \in [in : BOOLEAN, user : Accounts \cup {NoUser}, loading : BOOLEAN]
  BY <1>5 DEF Held, TabRecords, Current, Out
<1> DEFINE now == Current(out)
<1> HIDE DEF now
<1>7. tab' \in TabRecords
  BY <1>1, <1>2, <1>5, <1>6 DEF Held, TabRecords, NoToken, now
<1>8. tab'.token = NoToken /\ tab'.timer = NoToken /\ tab'.calls = out.calls /\ tab'.checks = out.checks
      /\ tab'.auth = Out
  BY <1>1, <1>5 DEF Held, TabRecords
<1>9. Held(tab', owner)
  BY <1>5, <1>7, <1>8 DEF Held, NoToken
<1>10. owner' = owner
  BY DEF Logout
<1> QED
  BY <1>8, <1>9, <1>10, InvFacts, LoggedOutGood, OutIsOut

LEMMA LoginAnsweredGood ==
  ASSUME SessionInv, LoginAnswered
  PROVE  Good(tab', owner') /\ owner' \in Seq(Accounts) /\ Len(owner') = Len(owner) + 1
<1> DEFINE o == Append(owner, tab.signing.user)
<1> DEFINE q == [tab EXCEPT !.token = Len(o), !.signing = Out]
<1> DEFINE l == HomeOf(tab.from, RoleOf[tab.signing.user])
<1>1. tab.signing.in /\ Len(owner) < MaxLogins /\ owner' = o /\ tab' = [RefreshAuth(q) EXCEPT !.location = l]
  BY DEF LoginAnswered
<1>2. tab.signing.user \in Accounts /\ tab.from \in Located \cup {Nowhere}
  BY <1>1, InvFacts, OutIsOut DEF TabRecords, Seen
<1>3. o \in Seq(Accounts) /\ Len(o) = Len(owner) + 1 /\ Len(o) <= MaxLogins
      /\ \A k \in 1..Len(owner) : o[k] = owner[k]
  BY <1>1, <1>2, InvFacts, SessionAssumption
<1>4. tab.token = NoToken
  BY <1>1 DEF SessionInv, Good, Entered, SignsIn
<1>5. l \in Located /\ l.at = "page"
  BY <1>2, HomeLocated, SessionAssumption
<1> DEFINE len == Len(o)
<1> HIDE DEF o, l, len
<1>6. len \in Nat /\ len = Len(owner) + 1 /\ len = Len(o)
  BY <1>3, InvFacts DEF len
<1>7. q = [tab EXCEPT !.token = len, !.signing = Out]
  BY DEF len
<1> HIDE DEF q
<1>8. q \in TabRecords
  BY <1>6, <1>7, InvFacts DEF TabRecords, Seen
<1>9. /\ q.token = len /\ q.timer = tab.timer /\ q.calls = tab.calls /\ q.checks = tab.checks
      /\ q.signing = Out /\ q.auth = tab.auth /\ q.late = tab.late
  BY <1>7, InvFacts DEF TabRecords
<1>10. Held(q, o)
  <2>1. {tab.timer} \cup tab.calls \subseteq 0..len /\ len \in 0..len
    BY <1>6, InvFacts DEF Held
  <2>2. \A t \in Tokens : tab.checks[t] > 0 => t <= len
    BY <1>6, InvFacts, SessionAssumption DEF Held, Tokens
  <2> QED
    BY <1>6, <1>8, <1>9, <2>1, <2>2 DEF Held
<1>11. Entered(q, o)
  BY <1>4, <1>9, <1>10, OutIsOut DEF Entered, SignsIn, Owned, SessionInv, Good
<1> DEFINE r == RefreshAuth(q)
<1>12. Refreshed(r, q, o)
  BY <1>3, <1>11, RefreshGood
<1> HIDE DEF r
<1>13. Good([r EXCEPT !.location = l], o)
  BY <1>3, <1>5, <1>12, MoveGood DEF Refreshed
<1> QED
  BY <1>1, <1>3, <1>13 DEF r

LEMMA LoginFailsGood ==
  ASSUME SessionInv, LoginFails
  PROVE  Good(tab', owner')
<1>1. tab' = [tab EXCEPT !.signing = Out] /\ owner' = owner
  BY DEF LoginFails
<1>2. tab' \in TabRecords
  BY <1>1, InvFacts DEF TabRecords, Seen
<1>3. /\ tab'.token = tab.token /\ tab'.timer = tab.timer /\ tab'.calls = tab.calls /\ tab'.checks = tab.checks
      /\ tab'.loading = tab.loading /\ tab'.auth = tab.auth /\ tab'.late = tab.late
      /\ tab'.location = tab.location /\ tab'.signing = Out
  BY <1>1, InvFacts DEF TabRecords
<1> QED
  BY <1>1, <1>2, <1>3, OutIsOut DEF SessionInv, Good, Entered, Held, SignsIn, Owned, Pending, CallsFromPages

\* An answer is one less to come.
LEMMA CheckedFacts ==
  ASSUME SessionInv, NEW t \in Tokens, tab.checks[t] > 0
  PROVE  LET c == Checked(t)
         IN  /\ Held(c, owner) /\ ~c.loading /\ t \in 1..Len(owner)
             /\ c.token = tab.token /\ c.calls = tab.calls /\ c.signing = tab.signing /\ c.location = tab.location
<1> DEFINE fewer == [tab.checks EXCEPT ![t] = @ - 1]
<1> DEFINE c == Checked(t)
<1>1. tab.checks \in [Tokens -> Nat] /\ fewer \in [Tokens -> Nat]
  BY InvFacts DEF TabRecords
<1>2. \A k \in Tokens : fewer[k] > 0 => tab.checks[k] > 0
  BY <1>1
<1>3. t \in 1..Len(owner)
  BY InvFacts, SessionAssumption DEF Held, Tokens
<1>4. c = [tab EXCEPT !.checks = fewer, !.loading = FALSE]
  BY InvFacts DEF Checked, TabRecords
<1> HIDE DEF fewer, c
<1>5. c \in TabRecords
  BY <1>1, <1>4, InvFacts DEF TabRecords
<1>6. /\ c.token = tab.token /\ c.timer = tab.timer /\ c.calls = tab.calls /\ c.checks = fewer
      /\ c.signing = tab.signing /\ c.location = tab.location /\ c.loading = FALSE
  BY <1>4, InvFacts DEF TabRecords
<1>7. Held(c, owner)
  BY <1>2, <1>5, <1>6, InvFacts DEF Held
<1> QED
  BY <1>3, <1>6, <1>7 DEF c

LEMMA ValidatedGood ==
  ASSUME SessionInv, NEW t \in Tokens, Validated(t)
  PROVE  Good(tab', owner')
<1> DEFINE c == Checked(t)
<1> DEFINE known == [in |-> TRUE, user |-> owner[t]]
<1> DEFINE stray == (t # tab.token)
<1>1. /\ Held(c, owner) /\ t \in 1..Len(owner)
      /\ c.token = tab.token /\ c.calls = tab.calls /\ c.signing = tab.signing /\ c.location = tab.location
  BY CheckedFacts DEF Validated
<1>2. owner' = owner /\ tab' = [c EXCEPT !.auth = known, !.late = stray, !.strayed = @ \/ stray]
  BY DEF Validated
<1> HIDE DEF c
<1>3. known \in Seen
  BY <1>1, InvFacts DEF Seen
<1>4. known.in /\ known.user = owner[t]
  OBVIOUS
<1>5. c \in TabRecords
  BY <1>1 DEF Held
<1> DEFINE strayed == c.strayed \/ stray
<1>6. tab' = [c EXCEPT !.auth = known, !.late = stray, !.strayed = strayed]
  BY <1>2, <1>5 DEF TabRecords
<1>7. stray \in BOOLEAN /\ strayed \in BOOLEAN
  OBVIOUS
<1> HIDE DEF known, strayed
<1>8. tab' \in TabRecords
  <2> HIDE DEF stray
  <2> QED
    BY <1>3, <1>5, <1>6, <1>7 DEF TabRecords
<1>9. /\ tab'.token = c.token /\ tab'.timer = c.timer /\ tab'.calls = c.calls /\ tab'.checks = c.checks
      /\ tab'.signing = c.signing /\ tab'.location = c.location
      /\ tab'.auth = known /\ tab'.late = stray
  <2> HIDE DEF stray
  <2> QED
    BY <1>5, <1>6 DEF TabRecords
<1>10. Held(tab', owner)
  BY <1>1, <1>8, <1>9 DEF Held
<1>11. SignsIn(tab') /\ CallsFromPages(tab')
  BY <1>1, <1>9 DEF SessionInv, Good, Entered, SignsIn, CallsFromPages
<1>12. Pending(tab')
  BY <1>4, <1>9 DEF Pending
<1>13. Owned(tab', owner)
  <2>1. SUFFICES ASSUME ~tab'.late PROVE tab'.token # NoToken /\ tab'.auth.user = owner[tab'.token]
    BY DEF Owned
  <2>2. ~stray
    BY <1>9, <2>1, Zenon
  <2>3. t = tab'.token /\ t # 0
    BY <1>1, <1>9, <2>2
  <2>4. tab'.auth.user = owner[t]
    BY <1>4, <1>9
  <2> QED
    BY <2>3, <2>4 DEF NoToken
<1> QED
  BY <1>2, <1>10, <1>11, <1>12, <1>13 DEF Good, Entered

LEMMA NotValidatedGood ==
  ASSUME SessionInv, NEW t \in Tokens, NotValidated(t)
  PROVE  Good(tab', owner')
BY CheckedFacts, ClearGood, InvFacts DEF NotValidated

LEMMA CallsGood ==
  ASSUME SessionInv, NEW S, S \subseteq 0..Len(owner), tab' = [tab EXCEPT !.calls = S], owner' = owner,
         tab.location.at # "page" /\ tab.token # NoToken => S = {}
  PROVE  Good(tab', owner')
<1>1. S \in SUBSET Nat
  BY InvFacts
<1>2. tab' \in TabRecords
  BY <1>1, InvFacts DEF TabRecords
<1>3. /\ tab'.token = tab.token /\ tab'.timer = tab.timer /\ tab'.calls = S /\ tab'.checks = tab.checks
      /\ tab'.loading = tab.loading /\ tab'.auth = tab.auth /\ tab'.late = tab.late
      /\ tab'.location = tab.location /\ tab'.signing = tab.signing
  BY InvFacts DEF TabRecords
<1> QED
  BY <1>2, <1>3 DEF SessionInv, Good, Entered, Held, SignsIn, Owned, Pending, CallsFromPages

LEMMA CallGood ==
  ASSUME SessionInv, Call
  PROVE  Good(tab', owner')
<1> DEFINE S == tab.calls \cup {tab.token}
<1>1. tab.location.at = "page" /\ S \subseteq 0..Len(owner)
  BY OnPageLocated, InvFacts DEF Call, Held
<1>2. tab' = [tab EXCEPT !.calls = S] /\ owner' = owner
  BY InvFacts DEF Call, TabRecords
<1> HIDE DEF S
<1> QED
  BY <1>1, <1>2, CallsGood

LEMMA CallAnsweredGood ==
  ASSUME SessionInv, NEW t, CallAnswered(t)
  PROVE  Good(tab', owner')
<1> DEFINE S == tab.calls \ {t}
<1>1. S \subseteq 0..Len(owner) /\ (tab.location.at # "page" /\ tab.token # NoToken => S = {})
  BY InvFacts DEF Held, SessionInv, Good, CallsFromPages
<1>2. tab' = [tab EXCEPT !.calls = S] /\ owner' = owner
  BY InvFacts DEF CallAnswered, TabRecords
<1> HIDE DEF S
<1> QED
  BY <1>1, <1>2, CallsGood

LEMMA CallRefusedGood ==
  ASSUME SessionInv, NEW t, CallRefused(t)
  PROVE  Good(tab', owner')
<1>1. t \in tab.calls /\ owner' = owner
  BY DEF CallRefused
<1>2. CASE tab.location.at = "login"
  <2> DEFINE S == tab.calls \ {t}
  <2>1. tab.token = NoToken
    BY <1>1, <1>2 DEF SessionInv, Good, CallsFromPages
  <2>2. S \subseteq 0..Len(owner)
    BY InvFacts DEF Held
  <2>3. tab' = [tab EXCEPT !.calls = S, !.token = NoToken]
    BY <1>2, InvFacts DEF CallRefused, TabRecords
  <2> HIDE DEF S
  <2>4. [tab EXCEPT !.calls = S, !.token = NoToken] = [tab EXCEPT !.calls = S]
    BY <2>1, InvFacts DEF TabRecords
  <2> QED
    BY <1>1, <2>1, <2>2, <2>3, <2>4, CallsGood
<1>3. CASE tab.location.at # "login"
  <2>1. tab' = Start(NoToken, Login)
    BY <1>3 DEF CallRefused
  <2>2. NoToken \in 0..Len(owner)
    BY InvFacts DEF NoToken
  <2> QED
    BY <1>1, <2>1, <2>2, InvFacts, LocationKinds, StartGood
<1> QED
  BY <1>2, <1>3

LEMMA TimerFiresGood ==
  ASSUME SessionInv, TimerFires
  PROVE  Good(tab', owner')
<1> DEFINE c == ClearAuthState(tab, TRUE)
<1>1. Held(c, owner) /\ c.token = NoToken /\ c.auth = Out
  BY InvFacts, ClearHeld
<1>2. tab' = [c EXCEPT !.timer = NoToken] /\ owner' = owner
  BY DEF TimerFires
<1> HIDE DEF c
<1>3. LET d == [c EXCEPT !.timer = NoToken] IN Held(d, owner) /\ d.token = NoToken /\ d.auth = Out
  BY <1>1, InvFacts, TimerHeld
<1> QED
  BY <1>2, <1>3, InvFacts, LoggedOutGood, OutIsOut

LEMMA ExpireGood ==
  ASSUME SessionInv, Expire
  PROVE  Good(tab', owner')
BY DEF SessionInv, Expire

\* A timer for the token of the moment, or none.
LEMMA TimedGood ==
  ASSUME NEW q, NEW o \in Seq(Accounts), Good(q, o), NEW k \in {NoToken, q.token}
  PROVE  Good([q EXCEPT !.timer = k], o)
<1> DEFINE r == [q EXCEPT !.timer = k]
<1>1. Held(r, o) /\ r.token = q.token /\ r.auth = q.auth
      /\ \A x \in {"calls", "signing", "late", "loading", "checks", "location"} : r[x] = q[x]
  BY TimerHeld DEF Good, Entered
<1> HIDE DEF r
<1>2. /\ r.calls = q.calls /\ r.checks = q.checks /\ r.loading = q.loading /\ r.late = q.late
      /\ r.location = q.location /\ r.signing = q.signing
  BY <1>1
<1>3. Good(r, o)
  BY <1>1, <1>2 DEF Good, Entered, SignsIn, Owned, Pending, CallsFromPages
<1> QED
  BY <1>3 DEF r

LEMMA CurrentTyped ==
  ASSUME tab \in TabRecords
  PROVE  Current(tab) \in [in : BOOLEAN, user : Accounts \cup {NoUser}, loading : BOOLEAN]
<1>1. tab.auth \in Seen /\ tab.loading \in BOOLEAN
  BY DEF TabRecords
<1>2. tab.auth.in \in BOOLEAN /\ tab.auth.user \in Accounts \cup {NoUser}
  <2>1. CASE tab.auth = Out
    BY <2>1 DEF Out
  <2>2. CASE tab.auth \in [in : {TRUE}, user : Accounts]
    <3>1. tab.auth.in \in {TRUE} /\ tab.auth.user \in Accounts
      BY <2>2
    <3> QED
      BY <3>1
  <2> QED
    BY <1>1, <2>1, <2>2 DEF Seen
<1> QED
  BY <1>1, <1>2 DEF Current

LEMMA RenderGood ==
  ASSUME SessionInv, Render
  PROVE  Good(tab', owner')
<1> DEFINE q == Committed
<1>1. Good(q, owner)
  <2> DEFINE now == Current(tab)
  <2>1. now \in [in : BOOLEAN, user : Accounts \cup {NoUser}, loading : BOOLEAN]
    BY InvFacts, CurrentTyped
  <2>2. q = [tab EXCEPT !.shown = now]
    BY DEF Committed
  <2> HIDE DEF now, q
  <2>3. q \in TabRecords
    BY <2>1, <2>2, InvFacts DEF TabRecords
  <2>4. /\ q.token = tab.token /\ q.timer = tab.timer /\ q.calls = tab.calls /\ q.checks = tab.checks
        /\ q.loading = tab.loading /\ q.auth = tab.auth /\ q.late = tab.late
        /\ q.location = tab.location /\ q.signing = tab.signing
    BY <2>2, InvFacts DEF TabRecords
  <2> QED
    BY <2>3, <2>4 DEF SessionInv, Good, Entered, Held, SignsIn, Owned, Pending, CallsFromPages
<1>2. owner' = owner /\ (tab' = q \/ tab' = ExpiryEffect(q) \/ tab' = [q EXCEPT !.timer = NoToken])
  BY DEF Render
<1> HIDE DEF q
<1>3. Good(ClearAuthState(q, TRUE), owner)
  BY <1>1, InvFacts, ClearGood DEF Good, Entered
<1>4. Good([q EXCEPT !.timer = q.token], owner) /\ Good([q EXCEPT !.timer = NoToken], owner)
  BY <1>1, InvFacts, TimedGood
<1> QED
  BY <1>1, <1>2, <1>3, <1>4 DEF ExpiryEffect

(***************************************************************************)
(* The invariant is inductive.                                             *)
(***************************************************************************)
LEMMA InitGood ==
  ASSUME SessionInit
  PROVE  SessionInv
<1>1. owner \in Seq(Accounts) /\ Len(owner) = 0 /\ NoToken \in 0..Len(owner)
  BY DEF SessionInit, NoToken
<1>2. PICK l \in Typed : tab = Start(NoToken, l)
  BY DEF SessionInit
<1>3. l \in Located \cup Logins /\ Len(owner) <= MaxLogins
  BY <1>1, TypedAssumption, SessionAssumption
<1>4. Good(Start(NoToken, l), owner)
  BY <1>1, <1>3, StartGood
<1> QED
  BY <1>1, <1>2, <1>4, SessionAssumption DEF SessionInit, SessionInv, Counted

\* The tokens, the expired ones and the moves are counted.
LEMMA CountsKept ==
  ASSUME SessionInv, [SessionNext]_sessionVars
  PROVE  Counted'
<1>1. owner' \in Seq(Accounts) /\ Len(owner') \in Nat /\ Len(owner') <= MaxLogins /\ Len(owner) <= Len(owner')
  <2>1. CASE LoginAnswered
    BY <2>1, LoginAnsweredGood, InvFacts, SessionAssumption DEF LoginAnswered
  <2>2. CASE owner' = owner
    BY <2>2, InvFacts
  <2> QED
    BY <2>1, <2>2 DEF SessionNext, sessionVars, Load, Visit, AskLogin, Answer, Validated, NotValidated,
       CallAnswered, CallRefused, Logout, LoginFails, Call, TimerFires, Expire, Render, Redirect
<1>2. expired' \in 0..Len(owner')
  <2>1. CASE Expire
    BY <1>1, <2>1, InvFacts DEF SessionInv, Counted, Expire
  <2>2. CASE expired' = expired
    BY <1>1, <2>2, InvFacts DEF SessionInv, Counted
  <2> QED
    BY <2>1, <2>2 DEF SessionNext, sessionVars, Load, Visit, AskLogin, Answer, Validated, NotValidated,
       CallAnswered, CallRefused, Logout, LoginAnswered, LoginFails, Call, TimerFires, Render, Redirect
<1>3. moves' \in 0..MaxMoves
  <2>1. CASE Move
    BY <2>1, SessionAssumption DEF SessionInv, Counted, Move
  <2>2. CASE moves' = moves
    BY <2>2 DEF SessionInv, Counted
  <2> QED
    BY <2>1, <2>2 DEF SessionNext, sessionVars, Load, Visit, AskLogin, Answer, Validated, NotValidated,
       CallAnswered, CallRefused, Logout, LoginAnswered, LoginFails, Call, TimerFires, Expire, Render, Redirect
<1> QED
  BY <1>1, <1>2, <1>3 DEF Counted

LEMMA StepGood ==
  ASSUME SessionInv, [SessionNext]_sessionVars
  PROVE  SessionInv'
<1>1. Good(tab', owner')
  <2>1. CASE \E l \in Typed : Load(l)
    BY <2>1, LoadGood
  <2>2. CASE \E role \in Roles : \E path \in PagesOf(role) : Visit(path)
    BY <2>2, VisitGood
  <2>3. CASE \E u \in Accounts : AskLogin(u)
    BY <2>3, AskLoginGood
  <2>4. CASE \E t \in Tokens : Answer(t)
    BY <2>4, ValidatedGood, NotValidatedGood DEF Answer
  <2>5. CASE \E t \in Tokens \cup {NoToken} : CallAnswered(t) \/ CallRefused(t)
    BY <2>5, CallAnsweredGood, CallRefusedGood
  <2>6. CASE Logout
    BY <2>6, LogoutGood
  <2>7. CASE LoginAnswered
    BY <2>7, LoginAnsweredGood
  <2>8. CASE LoginFails
    BY <2>8, LoginFailsGood
  <2>9. CASE Call
    BY <2>9, CallGood
  <2>10. CASE TimerFires
    BY <2>10, TimerFiresGood
  <2>11. CASE Expire
    BY <2>11, ExpireGood
  <2>12. CASE Render
    BY <2>12, RenderGood
  <2>13. CASE Redirect
    BY <2>13, RedirectGood
  <2>14. CASE UNCHANGED sessionVars
    BY <2>14 DEF SessionInv, sessionVars
  <2> QED
    BY <2>1, <2>2, <2>3, <2>4, <2>5, <2>6, <2>7, <2>8, <2>9, <2>10, <2>11, <2>12, <2>13, <2>14 DEF SessionNext
<1>2. Counted'
  BY CountsKept
<1> QED
  BY <1>1, <1>2 DEF SessionInv

(***************************************************************************)
(* The tab is always at a page or a login and its tokens are issued ones,  *)
(* for any users, locations typed, logins and moves (App, AuthContext).    *)
(***************************************************************************)
THEOREM SessionTypeCorrect == SessionSpec => []SessionTypeOK
<1>1. SessionInit => SessionInv
  BY InitGood
<1>2. SessionInv /\ [SessionNext]_sessionVars => SessionInv'
  BY StepGood
<1>3. SessionInv => SessionTypeOK
  BY DEF SessionInv, Counted, Good, Entered, Held, SessionTypeOK
<1> QED
  BY <1>1, <1>2, <1>3, PTL DEF SessionSpec

(***************************************************************************)
(* Whatever is answered in whatever order, a tab at rest shows the user of *)
(* the token it sends, and nobody without one, but for what came with the  *)
(* answer for an earlier token (AuthContext, axiosConfig).                 *)
(***************************************************************************)
THEOREM RestShowsTokenUserAlways == SessionSpec => []RestShowsTokenUser
<1>1. SessionInit => SessionInv
  BY InitGood
<1>2. SessionInv /\ [SessionNext]_sessionVars => SessionInv'
  BY StepGood
<1>3. SessionInv => RestShowsTokenUser
  <2>1. SUFFICES ASSUME SessionInv, Rendered, tab.checks = NoChecks, ~tab.late
        PROVE  IF tab.token = NoToken THEN ~tab.shown.in
               ELSE tab.shown.in /\ tab.shown.user = owner[tab.token]
    BY DEF RestShowsTokenUser
  <2>2. tab.shown.in = tab.auth.in /\ tab.shown.user = tab.auth.user
    BY <2>1 DEF Rendered, Current
  <2>3. CASE tab.token = NoToken
    BY <2>1, <2>2, <2>3 DEF SessionInv, Good, Entered, Owned
  <2>4. CASE tab.token # NoToken
    <3>1. tab.token \in Tokens
      BY <2>1, <2>4, InvFacts, SessionAssumption DEF Tokens, NoToken
    <3>2. tab.auth.in
      BY <2>1, <2>4, <3>1 DEF SessionInv, Good, Pending, NoChecks
    <3> QED
      BY <2>1, <2>2, <2>4, <3>2 DEF SessionInv, Good, Entered, Owned
  <2> QED
    BY <2>3, <2>4
<1> QED
  BY <1>1, <1>2, <1>3, PTL DEF SessionSpec

(***************************************************************************)
(* Where a step leads.                                                     *)
(***************************************************************************)
\* The page of each role for a section is one of its pages.
LEMMA SectionsArePages ==
  ASSUME NEW section, NEW role \in Roles, SectionTargets(section)[role] # << >>
  PROVE  SectionTargets(section)[role] \in PagesOf(role)
<1> DEFINE Known(admin, teacher, student) ==
      /\ admin \in AdminPages \cup {<< >>}
      /\ teacher \in TeacherPages \cup {<< >>}
      /\ student \in StudentPages \cup {<< >>}
<1>1. /\ Known(<< "dashboard" >>, << "dashboard" >>, << "dashboard" >>)
      /\ Known(AGroups, AGroups, Assigned)
      /\ Known(<< "classes" >>, << "my-classes" >>, << >>)
      /\ Known(<< "users" >>, << "my-classes" >>, << >>)
      /\ Known(<< "gns3" >>, << "gns3" >>, << "gns3" >>)
      /\ Known(<< "settings" >>, << >>, << >>)
      /\ Known(<< >>, << >>, << >>)
  BY Zenon DEF AdminPages, TeacherPages, StudentPages, GroupPages
<1> HIDE DEF Known
<1>2. \E a, b, c : Known(a, b, c) /\ SectionTargets(section) = Target(a, b, c)
  BY <1>1, Zenon DEF SectionTargets
<1>3. PICK a, b, c : Known(a, b, c) /\ SectionTargets(section) = Target(a, b, c)
  BY <1>2
<1>4. CASE role = "admin"
  BY <1>3, <1>4 DEF Target, Known, PagesOf
<1>5. CASE role = "teacher"
  BY <1>3, <1>5 DEF Target, Known, PagesOf
<1>6. CASE role = "student"
  BY <1>3, <1>6 DEF Target, Known, PagesOf
<1> QED
  BY <1>4, <1>5, <1>6 DEF Roles

LEMMA DashboardIsPage ==
  ASSUME NEW role \in Roles
  PROVE  /\ Dashboard(role).at = "page" /\ Dashboard(role).role = role
         /\ Dashboard(role).path \in PagesOf(role)
<1>1. << "dashboard" >> \in PagesOf(role)
  BY DEF PagesOf, Roles, AdminPages, TeacherPages, StudentPages
<1> QED
  BY <1>1 DEF Dashboard, Page

LEMMA RoleRedirectIsPage ==
  ASSUME NEW l, NEW role \in Roles
  PROVE  /\ RoleRedirect(l, role).at = "page" /\ RoleRedirect(l, role).role = role
         /\ RoleRedirect(l, role).path \in PagesOf(role)
<1> DEFINE path == SectionTargets(Head(l.path))[role]
<1>1. RoleRedirect(l, role) = IF path = << >> THEN Dashboard(role) ELSE Page(role, path)
  BY DEF RoleRedirect
<1>2. path # << >> => path \in PagesOf(role)
  BY SectionsArePages
<1> HIDE DEF path
<1> QED
  BY <1>1, <1>2, DashboardIsPage DEF Page

LEMMA HomeIsPage ==
  ASSUME NEW l, NEW role \in Roles
  PROVE  /\ HomeOf(l, role).at = "page" /\ HomeOf(l, role).role = role
         /\ HomeOf(l, role) = l \/ HomeOf(l, role).path \in PagesOf(role)
BY DashboardIsPage DEF HomeOf, IsRedirectFor

LEMMA VisitLands ==
  ASSUME SessionInv, NEW path, Visit(path)
  PROVE  LandsStep
<1>1. Rendered /\ tab.location.at = "page" /\ ~tab.shown.loading /\ Routed(tab.location, tab.shown) = tab.location
  BY DEF Visit, OnPage
<1>2. ProtectedRoute(tab.location, tab.shown) = tab.location
  BY <1>1 DEF Routed
<1>3. tab.shown.in
  BY <1>1, <1>2 DEF ProtectedRoute, LoginFrom
<1>4. RoleOf[tab.shown.user] = tab.location.role
  BY <1>1, <1>2, <1>3, ShownAccount, RoleRedirectIsPage DEF ProtectedRoute
<1>5. path \in PagesOf(tab.location.role)
  BY DEF Visit, MenuOf, Crumbs
<1>6. tab'.location = Page(tab.location.role, path)
  BY InvFacts DEF Visit, TabRecords
<1> QED
  BY <1>1, <1>3, <1>4, <1>5, <1>6, ShownAccount DEF LandsStep, Page

LEMMA RedirectLands ==
  ASSUME SessionInv, Redirect
  PROVE  LandsStep
<1> DEFINE l == Routed(tab.location, tab.shown)
<1>1. tab'.location = l /\ l # tab.location
  BY InvFacts DEF Redirect, TabRecords
<1>2. Rendered
  BY DEF Redirect
<1>3. CASE l.at = "login"
  BY <1>1, <1>3 DEF LandsStep
<1>4. CASE /\ ~tab.shown.loading
           /\ tab.location.at = "login"
  <2>1. l = PublicRoute(tab.location, tab.shown)
    BY <1>4 DEF Routed
  <2>2. tab.shown.in /\ l = HomeOf(tab.location.redirect, RoleOf[tab.shown.user])
    BY <1>1, <2>1 DEF PublicRoute
  <2> QED
    BY <1>1, <1>2, <1>4, <2>2, ShownAccount, HomeIsPage DEF LandsStep
<1>5. CASE /\ ~tab.shown.loading
           /\ tab.location.at # "elsewhere" /\ tab.location.at # "login"
  <2>1. l = ProtectedRoute(tab.location, tab.shown)
    BY <1>5 DEF Routed
  <2>2. CASE ~tab.shown.in
    BY <1>1, <2>1, <2>2 DEF ProtectedRoute, LoginFrom, LandsStep
  <2>3. CASE tab.shown.in
    <3>1. l = RoleRedirect(tab.location, RoleOf[tab.shown.user])
      BY <1>1, <2>1, <2>3 DEF ProtectedRoute
    <3> QED
      BY <1>1, <1>2, <2>3, <3>1, ShownAccount, RoleRedirectIsPage DEF LandsStep
  <2> QED
    BY <2>2, <2>3
<1>6. CASE tab.location.at = "elsewhere" \/ tab.shown.loading
  BY <1>1, <1>6 DEF Routed, Login, LandsStep
<1> QED
  BY <1>3, <1>4, <1>5, <1>6

LEMMA LoginAnsweredLands ==
  ASSUME SessionInv, LoginAnswered
  PROVE  LandsStep
<1> DEFINE u == tab.signing.user
<1> DEFINE q == [tab EXCEPT !.token = Len(owner'), !.signing = Out]
<1>1. tab.signing.in /\ tab' = [RefreshAuth(q) EXCEPT !.location = HomeOf(tab.from, RoleOf[u])]
  BY DEF LoginAnswered
<1>2. u \in Accounts /\ RoleOf[u] \in Roles
  BY <1>1, InvFacts, OutIsOut, SessionAssumption DEF TabRecords, Seen
<1>3. "location" \in DOMAIN RefreshAuth(q)
  <2>1. "location" \in DOMAIN tab
    BY InvFacts DEF TabRecords
  <2>2. "location" \in DOMAIN q
    BY <2>1
  <2> HIDE DEF q
  <2> QED
    BY <2>2 DEF RefreshAuth, ClearAuthState
<1> HIDE DEF q
<1>4. tab'.location = HomeOf(tab.from, RoleOf[u])
  BY <1>1, <1>3
<1> QED
  BY <1>2, <1>4, HomeIsPage DEF LandsStep

\* Who is cleared stays or is sent to the login.
LEMMA ClearLocation ==
  ASSUME NEW q \in TabRecords, NEW redirect \in BOOLEAN
  PROVE  LET r == ClearAuthState(q, redirect) IN r.location = q.location \/ r.location.at = "login"
BY DEF ClearAuthState, TabRecords, LoginFrom

LEMMA StepLands ==
  ASSUME SessionInv, [SessionNext]_sessionVars, tab'.location # tab.location
  PROVE  LandsStep
<1>1. CASE \E l \in Typed : Load(l)
  BY <1>1 DEF Load, LandsStep
<1>2. CASE \E role \in Roles : \E path \in PagesOf(role) : Visit(path)
  BY <1>2, VisitLands
<1>3. CASE Redirect
  BY <1>3, RedirectLands
<1>4. CASE LoginAnswered
  BY <1>4, LoginAnsweredLands
<1>5. CASE Logout
  <2>1. tab'.location \in {Login, LoginFrom(tab.location)}
    <3> DEFINE q == [tab EXCEPT !.token = NoToken]
    <3>1. PICK l \in {Login, LoginFrom(tab.location)} :
            tab' = [RefreshAuth(q) EXCEPT !.shown = Current(RefreshAuth(q)), !.timer = NoToken, !.location = l]
      BY <1>5 DEF Logout
    <3>2. "location" \in DOMAIN tab
      BY InvFacts DEF TabRecords
    <3>3. "location" \in DOMAIN q
      BY <3>2
    <3> HIDE DEF q
    <3>4. "location" \in DOMAIN RefreshAuth(q)
      BY <3>3 DEF RefreshAuth, ClearAuthState
    <3> QED
      BY <3>1, <3>4
  <2> QED
    BY <2>1 DEF LandsStep, Login, LoginFrom
<1>6. CASE \E t \in Tokens : Answer(t)
  <2>1. PICK t \in Tokens : Validated(t) \/ NotValidated(t)
    BY <1>6 DEF Answer
  <2>2. Checked(t) \in TabRecords /\ Checked(t).location = tab.location
    BY <2>1, CheckedFacts DEF Held, Validated, NotValidated
  <2>3. CASE Validated(t)
    <3>1. tab'.location = Checked(t).location
      <4> DEFINE c == Checked(t)
      <4>1. c \in TabRecords /\ \E a, b, d : tab' = [c EXCEPT !.auth = a, !.late = b, !.strayed = d]
        BY <2>2, <2>3 DEF Validated, TabRecords
      <4> HIDE DEF c
      <4>2. tab'.location = c.location
        BY <4>1 DEF TabRecords
      <4> QED
        BY <4>2 DEF c
    <3> QED
      BY <2>2, <3>1
  <2>4. CASE NotValidated(t)
    BY <2>2, <2>4, ClearLocation DEF NotValidated, LandsStep
  <2> QED
    BY <2>1, <2>3, <2>4
<1>7. CASE \E t \in Tokens \cup {NoToken} : CallAnswered(t) \/ CallRefused(t)
  <2>1. PICK t \in Tokens \cup {NoToken} : CallAnswered(t) \/ CallRefused(t)
    BY <1>7
  <2>2. CASE CallAnswered(t)
    BY <2>2, InvFacts DEF CallAnswered, TabRecords
  <2>3. CASE CallRefused(t) /\ tab.location.at = "login"
    BY <2>3, InvFacts DEF CallRefused, TabRecords
  <2>4. CASE CallRefused(t) /\ tab.location.at # "login"
    <3>1. tab' = Start(NoToken, Login)
      BY <2>4 DEF CallRefused
    <3>2. Start(NoToken, Login).location = Login
      BY DEF Start, Blank, RefreshAuth, ClearAuthState, NoToken
    <3> QED
      BY <3>1, <3>2 DEF LandsStep, Login
  <2> QED
    BY <2>1, <2>2, <2>3, <2>4
<1>8. CASE TimerFires
  <2> DEFINE c == ClearAuthState(tab, TRUE)
  <2>1. c \in TabRecords /\ (c.location = tab.location \/ c.location.at = "login")
    BY InvFacts, ClearHeld, ClearLocation DEF Held
  <2>2. tab' = [c EXCEPT !.timer = NoToken]
    BY <1>8 DEF TimerFires
  <2> HIDE DEF c
  <2>3. tab'.location = c.location
    BY <2>1, <2>2 DEF TabRecords
  <2> QED
    BY <2>1, <2>3 DEF LandsStep
<1>9. CASE Render
  <2> DEFINE q == Committed
  <2>1. q \in TabRecords /\ q.location = tab.location
    <3>1. q = [tab EXCEPT !.shown = Current(tab)]
      BY DEF Committed
    <3>2. Current(tab) \in [in : BOOLEAN, user : Accounts \cup {NoUser}, loading : BOOLEAN]
      BY InvFacts, CurrentTyped
    <3> DEFINE now == Current(tab)
    <3> HIDE DEF now, q
    <3> QED
      BY <3>1, <3>2, InvFacts DEF TabRecords, now
  <2>2. tab' = q \/ tab' = ExpiryEffect(q) \/ tab' = [q EXCEPT !.timer = NoToken]
    BY <1>9 DEF Render
  <2> HIDE DEF q
  <2>3. ExpiryEffect(q) = ClearAuthState(q, TRUE) \/ ExpiryEffect(q) = [q EXCEPT !.timer = q.token]
    BY DEF ExpiryEffect
  <2>4. /\ [q EXCEPT !.timer = q.token].location = q.location
        /\ [q EXCEPT !.timer = NoToken].location = q.location
    BY <2>1 DEF TabRecords
  <2> QED
    BY <2>1, <2>2, <2>3, <2>4, ClearLocation DEF LandsStep
<1>10. CASE \E u \in Accounts : AskLogin(u)
  BY <1>10, InvFacts DEF AskLogin, TabRecords
<1>11. CASE LoginFails \/ Call
  BY <1>11, InvFacts DEF LoginFails, Call, TabRecords
<1>12. CASE Expire \/ UNCHANGED sessionVars
  BY <1>12 DEF Expire, sessionVars
<1> QED
  BY <1>1, <1>2, <1>3, <1>4, <1>5, <1>6, <1>7, <1>8, <1>9, <1>10, <1>11, <1>12 DEF SessionNext

(***************************************************************************)
(* Whatever the tab moves to by itself or by a link is the login, a page   *)
(* of the role of who is logged in, or where that user was turned away     *)
(* from (router, ProtectedRoute, PublicRoute, RoleRedirect, Login).        *)
(***************************************************************************)
THEOREM LandsAlways == SessionSpec => Lands
<1>1. SessionInit => SessionInv
  BY InitGood
<1>2. SessionInv /\ [SessionNext]_sessionVars => SessionInv'
  BY StepGood
<1>3. SessionInv /\ [SessionNext]_sessionVars => [tab'.location # tab.location => LandsStep]_sessionVars
  BY StepLands
<1> QED
  BY <1>1, <1>2, <1>3, PTL DEF SessionSpec, Lands

=============================================================================
