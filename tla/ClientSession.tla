---------------------------- MODULE ClientSession ----------------------------
(***************************************************************************)
(* The session of one tab of the web client: who it shows as logged in,    *)
(* which token it sends, and on which page it is.                          *)
(*                                                                         *)
(* The token is in sessionStorage, read and written by whoever likes; the  *)
(* user shown is React state, filled by the answer of a validation that    *)
(* was asked with the token of its time.  Nothing compares the two.  The   *)
(* routes redirect by what was last rendered.                              *)
(*                                                                         *)
(* A page is a role and the segments of its path, parameters by name.  One *)
(* login is under way at a time.  The demo build, whose tokens are not     *)
(* validated by a server and do not expire, is left out.                   *)
(***************************************************************************)
EXTENDS Naturals, Sequences

CONSTANTS
  Accounts,       \* the users who log in
  NoUser,
  RoleOf,         \* their roles
  Typed,          \* the locations a user may type or reload
  MaxLogins,
  MaxMoves        \* moves of the user: locations typed, links, logouts

Roles == {"admin", "teacher", "student"}

ASSUME SessionAssumption ==
  /\ RoleOf \in [Accounts -> Roles]
  /\ NoUser \notin Accounts
  /\ MaxLogins \in Nat
  /\ MaxMoves \in Nat

VARIABLES
  tab,       \* what the tab holds
  owner,     \* the user of each token issued
  expired,   \* how many of them have expired, the oldest first
  moves

sessionVars == << tab, owner, expired, moves >>

(***************************************************************************)
(* Pages and links.                                                        *)
(***************************************************************************)
\* What paths are made of; "other" stands for whatever else is typed.
Segments ==
  {"assignment-groups", "assignments", "archive", "TYPE", "ID", "create", "edit", "details", "submit", "SUBMIT",
   "templates", "dashboard", "users", "classes", "my-classes", "student-details", "class-details", "gns3",
   "all-sessions", "settings", "other"}

AGroups == << "assignment-groups" >>
AGType == AGroups \o << "TYPE" >>
Assigned == << "assignments" >>

\* What the pages of a teacher and of the administrator share.
GroupPages ==
  {AGroups, AGroups \o << "create" >>, AGType \o << "edit", "ID" >>, AGType \o << "details", "ID" >>,
   AGType \o << "details", "ID", "SUBMIT" >>, AGroups \o << "archive" >>,
   AGroups \o << "archive", "TYPE", "details", "ID" >>, AGroups \o << "archive", "TYPE", "details", "ID", "SUBMIT" >>,
   AGroups \o << "templates" >>, AGroups \o << "templates", "create" >>, AGroups \o << "templates", "edit", "ID" >>}

AdminPages ==
  GroupPages \cup
    {<< "dashboard" >>, << "users" >>, << "users", "details", "ID" >>, << "classes" >>,
     << "classes", "details", "ID" >>, << "gns3" >>, << "gns3", "all-sessions" >>, << "settings" >>}

TeacherPages ==
  GroupPages \cup
    {<< "dashboard" >>, << "my-classes" >>, << "my-classes", "student-details", "ID" >>,
     << "my-classes", "class-details", "ID" >>, << "gns3" >>, << "gns3", "all-sessions" >>}

StudentPages ==
  {<< "dashboard" >>, Assigned, Assigned \o << "TYPE", "submit", "ID" >>, Assigned \o << "TYPE", "details", "ID" >>,
   Assigned \o << "archive" >>, Assigned \o << "archive", "TYPE", "details", "ID" >>, << "gns3" >>}

PagesOf(role) ==
  CASE role = "admin"   -> AdminPages
    [] role = "teacher" -> TeacherPages
    [] role = "student" -> StudentPages

\* The menu; the one of the administrator has all the pages of one segment.
MenuOf(role) == {p \in PagesOf(role) : Len(p) = 1}

\* Each page that leads to this one, but for the dashboards and settings.
Crumbs(role, path) ==
  {p \in PagesOf(role) : /\ Len(p) < Len(path) /\ SubSeq(path, 1, Len(p)) = p
                         /\ p \notin {<< "dashboard" >>, << "settings" >>}}

(***************************************************************************)
(* Locations.                                                              *)
(***************************************************************************)
Page(role, path) == [at |-> "page", role |-> role, path |-> path]

Dashboard(role) == Page(role, << "dashboard" >>)

\* Any other location.
Elsewhere == [at |-> "elsewhere"]

Nowhere == [at |-> "nowhere"]

Login == [at |-> "login", redirect |-> Nowhere]

LoginFrom(location) == [at |-> "login", redirect |-> location]

Located == [at : {"page"}, role : Roles, path : Seq(Segments) \ {<< >>}] \cup {Elsewhere}

Logins == [at : {"login"}, redirect : Located \cup {Nowhere}]

ASSUME TypedAssumption == Typed \subseteq Located \cup Logins

(***************************************************************************)
(* The routes.                                                             *)
(***************************************************************************)
Target(admin, teacher, student) == [admin |-> admin, teacher |-> teacher, student |-> student]

\* Mutant: the pages that only another role has are looked for under their own name.
SectionTargetsByName(section) == Target(<< section >>, << section >>, << section >>)

\* The page of each role for a section, << >> where it has none.
SectionTargets(section) ==
  CASE section = "dashboard" -> Target(<< "dashboard" >>, << "dashboard" >>, << "dashboard" >>)
    [] section \in {"assignment-groups", "assignments"} -> Target(AGroups, AGroups, Assigned)
    [] section \in {"classes", "my-classes"} -> Target(<< "classes" >>, << "my-classes" >>, << >>)
    [] section = "users" -> Target(<< "users" >>, << "my-classes" >>, << >>)
    [] section = "gns3" -> Target(<< "gns3" >>, << "gns3" >>, << "gns3" >>)
    [] section = "settings" -> Target(<< "settings" >>, << >>, << >>)
    [] OTHER -> Target(<< >>, << >>, << >>)

RoleRedirect(location, role) ==
  LET path == SectionTargets(Head(location.path))[role]
  IN  IF path = << >> THEN Dashboard(role) ELSE Page(role, path)

\* Where a user is sent who was turned away from a location.
IsRedirectFor(location, role) == location.at = "page" /\ location.role = role

\* Mutant: the redirect is followed unchecked.
HomeOfUnchecked(location, role) == location

HomeOf(location, role) == IF IsRedirectFor(location, role) THEN location ELSE Dashboard(role)

\* Where the routes send what is shown, which stays where it may.
PublicRoute(location, shown) ==
  IF shown.in THEN HomeOf(location.redirect, RoleOf[shown.user]) ELSE location

ProtectedRoute(location, shown) ==
  IF ~shown.in THEN LoginFrom(location)
  ELSE IF RoleOf[shown.user] # location.role THEN RoleRedirect(location, RoleOf[shown.user]) ELSE location

Routed(location, shown) ==
  IF location.at = "elsewhere" THEN Login
  ELSE IF shown.loading THEN location
  ELSE IF location.at = "login" THEN PublicRoute(location, shown) ELSE ProtectedRoute(location, shown)

(***************************************************************************)
(* The state of the tab.                                                   *)
(***************************************************************************)
Tokens == 1..MaxLogins

NoToken == 0

Out == [in |-> FALSE, user |-> NoUser]

Seen == {Out} \cup [in : {TRUE}, user : Accounts]

Current(t) == [in |-> t.auth.in, user |-> t.auth.user, loading |-> t.loading]

Expired(token) == token <= expired

\* Mutant: the token stays.
KeepsToken(t, redirect) ==
  [t EXCEPT !.auth = Out,
            !.late = FALSE,
            !.location = IF redirect /\ @.at # "login" THEN LoginFrom(@) ELSE @]

ClearAuthState(t, redirect) ==
  [t EXCEPT !.token = NoToken,
            !.auth = Out,
            !.late = FALSE,
            !.location = IF redirect /\ @.at # "login" THEN LoginFrom(@) ELSE @]

RefreshAuth(t) ==
  IF t.token = NoToken THEN [ClearAuthState(t, FALSE) EXCEPT !.loading = FALSE]
  ELSE IF Expired(t.token) THEN [ClearAuthState(t, TRUE) EXCEPT !.loading = FALSE]
  ELSE [t EXCEPT !.loading = TRUE, !.checks[t.token] = @ + 1]

NoChecks == [k \in Tokens |-> 0]

Blank(token, location) ==
  [token |-> token, auth |-> Out, loading |-> TRUE, shown |-> [in |-> FALSE, user |-> NoUser, loading |-> TRUE],
   timer |-> NoToken, checks |-> NoChecks, calls |-> {}, signing |-> Out, from |-> Nowhere, location |-> location,
   late |-> FALSE, strayed |-> FALSE]

\* A document is loaded: both the provider and the initializer refresh.
Start(token, location) == RefreshAuth(RefreshAuth(Blank(token, location)))

SessionInit ==
  /\ owner = << >>
  /\ expired = 0
  /\ moves = 0
  /\ tab \in {Start(NoToken, l) : l \in Typed}

\* What was rendered is what there is: the effects of the routes have run.
Rendered == tab.shown = Current(tab)

OnPage == tab.location.at = "page" /\ ~tab.shown.loading /\ Routed(tab.location, tab.shown) = tab.location

(***************************************************************************)
(* What the user does.                                                     *)
(***************************************************************************)
Move == moves < MaxMoves /\ moves' = moves + 1

\* A location is typed or reloaded: whatever was under way is dropped.
Load(l) ==
  /\ Move
  /\ tab' = Start(tab.token, l)
  /\ UNCHANGED << owner, expired >>

\* A link of the menu or of the breadcrumbs, or the button of the error page.
Visit(path) ==
  /\ Rendered /\ OnPage
  /\ path \in MenuOf(tab.location.role) \cup Crumbs(tab.location.role, tab.location.path)
  /\ Move
  /\ tab' = [tab EXCEPT !.location = Page(tab.location.role, path)]
  /\ UNCHANGED << owner, expired >>

AskLogin(u) ==
  /\ Rendered /\ ~tab.shown.loading /\ ~tab.shown.in
  /\ tab.location.at = "login"
  /\ ~tab.signing.in
  /\ tab' = [tab EXCEPT !.signing = [in |-> TRUE, user |-> u], !.from = tab.location.redirect]
  /\ UNCHANGED << owner, expired, moves >>

\* A click is rendered at once.  Of the two moves, the one of the handler and
\* the one of the route that is no longer allowed, either may come last.
Logout ==
  /\ Rendered /\ OnPage
  /\ Move
  /\ LET out == RefreshAuth([tab EXCEPT !.token = NoToken])
     IN  \E l \in {Login, LoginFrom(tab.location)} :
           tab' = [out EXCEPT !.shown = Current(out), !.timer = NoToken, !.location = l]
  /\ UNCHANGED << owner, expired >>

(***************************************************************************)
(* Answers of the server, which may be lost, and timers.                   *)
(***************************************************************************)
LoginAnswered ==
  /\ tab.signing.in
  /\ Len(owner) < MaxLogins
  /\ owner' = Append(owner, tab.signing.user)
  /\ tab' = [RefreshAuth([tab EXCEPT !.token = Len(owner'), !.signing = Out])
               EXCEPT !.location = HomeOf(tab.from, RoleOf[tab.signing.user])]
  /\ UNCHANGED << expired, moves >>

LoginFails ==
  /\ tab.signing.in
  /\ tab' = [tab EXCEPT !.signing = Out]
  /\ UNCHANGED << owner, expired, moves >>

\* The validation of a token is answered, with its user or otherwise.
Checked(t) == [tab EXCEPT !.checks[t] = @ - 1, !.loading = FALSE]

Validated(t) ==
  /\ tab.checks[t] > 0
  /\ tab' = [Checked(t) EXCEPT !.auth = [in |-> TRUE, user |-> owner[t]], !.late = (t # tab.token),
                              !.strayed = @ \/ t # tab.token]
  /\ UNCHANGED << owner, expired, moves >>

\* The token has expired, or the call fails.
NotValidated(t) ==
  /\ tab.checks[t] > 0
  /\ tab' = ClearAuthState(Checked(t), TRUE)
  /\ UNCHANGED << owner, expired, moves >>

Answer(t) == Validated(t) \/ NotValidated(t)

\* The pages call the API with the token of the moment.
Call ==
  /\ Rendered /\ OnPage
  /\ tab' = [tab EXCEPT !.calls = @ \cup {tab.token}]
  /\ UNCHANGED << owner, expired, moves >>

CallAnswered(t) ==
  /\ t \in tab.calls
  /\ tab' = [tab EXCEPT !.calls = @ \ {t}]
  /\ UNCHANGED << owner, expired, moves >>

\* A 401, for whichever token, removes the token of the moment.
CallRefused(t) ==
  /\ t \in tab.calls
  /\ t = NoToken \/ Expired(t)
  /\ tab' = IF tab.location.at = "login"
               THEN [tab EXCEPT !.calls = @ \ {t}, !.token = NoToken]
               ELSE Start(NoToken, Login)
  /\ UNCHANGED << owner, expired, moves >>

TimerFires ==
  /\ tab.timer # NoToken /\ Expired(tab.timer)
  /\ tab' = [ClearAuthState(tab, TRUE) EXCEPT !.timer = NoToken]
  /\ UNCHANGED << owner, expired, moves >>

Expire ==
  /\ expired < Len(owner)
  /\ expired' = expired + 1
  /\ UNCHANGED << tab, owner, moves >>

(***************************************************************************)
(* Rendering.                                                              *)
(***************************************************************************)
Committed == [tab EXCEPT !.shown = Current(tab)]

\* Mutant: the effect forgets the timer.
NoTimer(t) == IF t.token = NoToken \/ Expired(t.token) THEN ClearAuthState(t, TRUE) ELSE t

\* The effect of a login that is shown.
ExpiryEffect(t) ==
  IF t.token = NoToken \/ Expired(t.token) THEN ClearAuthState(t, TRUE) ELSE [t EXCEPT !.timer = t.token]

Render ==
  /\ ~Rendered
  /\ tab' = IF tab.auth.in = tab.shown.in THEN Committed
             ELSE IF tab.auth.in THEN ExpiryEffect(Committed)
             ELSE [Committed EXCEPT !.timer = NoToken]
  /\ UNCHANGED << owner, expired, moves >>

\* The redirect of a route.
Redirect ==
  /\ Rendered
  /\ Routed(tab.location, tab.shown) # tab.location
  /\ tab' = [tab EXCEPT !.location = Routed(tab.location, tab.shown)]
  /\ UNCHANGED << owner, expired, moves >>

SessionNext ==
  \/ \E l \in Typed : Load(l)
  \/ \E role \in Roles : \E path \in PagesOf(role) : Visit(path)
  \/ \E u \in Accounts : AskLogin(u)
  \/ \E t \in Tokens : Answer(t)
  \/ \E t \in Tokens \cup {NoToken} : CallAnswered(t) \/ CallRefused(t)
  \/ Logout \/ LoginAnswered \/ LoginFails \/ Call \/ TimerFires \/ Expire \/ Render \/ Redirect

(***************************************************************************)
(* What is rendered, routed, timed or answered does not wait forever, and  *)
(* a token expires at last.  Nobody has to log in, and no call has to be   *)
(* answered but the validation.                                            *)
(***************************************************************************)
SessionFairness ==
  /\ WF_sessionVars(Render)
  /\ WF_sessionVars(Redirect)
  /\ WF_sessionVars(TimerFires)
  /\ WF_sessionVars(Expire)
  /\ \A t \in Tokens : WF_sessionVars(Answer(t))

SessionSpec == SessionInit /\ [][SessionNext]_sessionVars /\ SessionFairness

(***************************************************************************)
(* Properties.                                                             *)
(***************************************************************************)
TabRecords ==
  [token : Nat, timer : Nat, calls : SUBSET Nat, checks : [Tokens -> Nat],
   auth : Seen, signing : Seen, loading : BOOLEAN, shown : [in : BOOLEAN, user : Accounts \cup {NoUser}, loading : BOOLEAN],
   from : Located \cup {Nowhere}, location : Located \cup Logins, late : BOOLEAN, strayed : BOOLEAN]

\* The tab is at a page or a login, and its tokens are ones that were issued.
SessionTypeOK ==
  /\ owner \in Seq(Accounts) /\ Len(owner) <= MaxLogins
  /\ expired \in 0..Len(owner)
  /\ moves \in 0..MaxMoves
  /\ tab \in TabRecords
  /\ {tab.token, tab.timer} \cup tab.calls \subseteq 0..Len(owner)
  /\ \A t \in Tokens : tab.checks[t] > 0 => t <= Len(owner)

(***************************************************************************)
(* Once what is known is rendered and no validation is under way, the tab  *)
(* shows the user whose token it sends, and nobody without one; unless     *)
(* what it shows came with the answer for an earlier token.                *)
(***************************************************************************)
RestShowsTokenUser ==
  Rendered /\ tab.checks = NoChecks /\ ~tab.late
    => IF tab.token = NoToken THEN ~tab.shown.in
       ELSE tab.shown.in /\ tab.shown.user = owner[tab.token]

(***************************************************************************)
(* But for a location that is typed, the tab goes to the login, to a page  *)
(* that exists for the role of who is logged in, or back to where the user *)
(* was turned away from.                                                   *)
(***************************************************************************)
LandsStep ==
  \/ tab'.location.at = "login"
  \/ \E u \in Accounts :
        /\ u = tab.shown.user \/ u = tab.signing.user
        /\ tab'.location.at = "page" /\ tab'.location.role = RoleOf[u]
        /\ \/ tab'.location.path \in PagesOf(RoleOf[u])
           \/ tab'.location = tab.from
           \/ tab.location.at = "login" /\ tab'.location = tab.location.redirect
  \/ \E l \in Typed : tab' = Start(tab.token, l)

Lands == [][tab'.location # tab.location => LandsStep]_sessionVars

Settled == Rendered /\ ~tab.shown.loading /\ Routed(tab.location, tab.shown) = tab.location

(***************************************************************************)
(* The tab never loads or redirects forever, and it does not show a user   *)
(* forever after the tokens have expired, whoever reloads, logs out or is  *)
(* slow to answer; unless an answer for an earlier token has come in, when *)
(* it may last until the next call is refused.                             *)
(***************************************************************************)
ComesToRest == []<>Settled /\ (tab.shown.in ~> (~tab.shown.in \/ tab.strayed))

============================================================================
