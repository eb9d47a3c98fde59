------------------------------ MODULE MCBrowser ------------------------------
(***************************************************************************)
(* Instances for TLC of two parts of the browser that share nothing: the   *)
(* demo backend, called by two tabs or by two requests of one page, and    *)
(* the session of a tab.  In each behaviour only one of them moves.        *)
(***************************************************************************)
EXTENDS DemoBackend, ClientSession, TLC

CONSTANTS c1, c2, ann, tom

VARIABLE part

\* The demo backend.

Create(type, class, chosen) ==
  [op |-> "createGroup", type |-> type, class |-> class, chosen |-> chosen, start |-> 0, deadline |-> 1]

Send(variant, user) == [op |-> "submit", variant |-> variant, type |-> "idnet", user |-> user]

Delete(op, ids) == [op |-> op, ids |-> ids]

Just(op) == [op |-> op]

\* Groups of both types are made, submitted and deleted.
Groupwork ==
  [calls |-> 5,
   requests |-> {Create("idnet", 1, {}), Create("subnet", 1, {1}), Send(1, 1), Send(2, 2), Send(1, 2),
                 Delete("deleteGroups", {1})}]

\* Dates are edited and lists opened while students submit.
Dates ==
  [calls |-> 4,
   requests |-> {Create("idnet", 1, {}), Send(1, 1), Send(2, 2), Just("listGroups"),
                 [op |-> "editGroup", id |-> 1, type |-> "idnet", start |-> 1, deadline |-> 1],
                 [op |-> "editGroup", id |-> 1, type |-> "idnet", start |-> 0, deadline |-> 0],
                 [op |-> "editGroup", id |-> 1, type |-> "subnet", start |-> 0, deadline |-> 0]}]

\* Users come and go.
Students ==
  [calls |-> 4,
   requests |-> {Create("idnet", 1, {}), Send(2, 2), [op |-> "addUser", classes |-> {1}],
                 [op |-> "editUser", id |-> 2, classes |-> {}], [op |-> "addStudent", id |-> 3, classes |-> {1}],
                 Delete("deleteUsers", {2}), Delete("deleteUsers", {1, 3})}]

\* Classes come and go.
Classwork ==
  [calls |-> 4,
   requests |-> {Create("subnet", 1, {2}), Create("idnet", 2, {}), Just("createClass"),
                 [op |-> "editClass", id |-> 1, students |-> {1}], [op |-> "addStudent", id |-> 2, classes |-> {2}],
                 Delete("deleteClasses", {1})}]

\* Templates, a tab that opens, and the reset.
Tabs ==
  [calls |-> 5,
   requests |-> {Create("idnet", 1, {1}), Send(1, 1), Just("open"), Just("reset"), Just("createTemplate"),
                 [op |-> "editTemplate", id |-> 1], Delete("deleteTemplates", {1})}]

Plans == {Groupwork, Dates, Students, Classwork, Tabs}

\* The session: a teacher and a student, and what they reload or type.
TeacherAndStudent == [u \in Accounts |-> IF u = ann THEN "teacher" ELSE "student"]

SomeLocations ==
  {Login, Elsewhere, Page("teacher", << "my-classes" >>), Page("teacher", AGType \o << "details", "ID" >>),
   Page("student", Assigned \o << "TYPE", "submit", "ID" >>), Page("admin", << "settings" >>)}

BrowserInit ==
  /\ Init /\ SessionInit
  /\ \/ part = "backend" /\ tab.location = Login
     \/ part = "session" /\ plan = Tabs

BackendMoves == part = "backend" /\ UNCHANGED << part, sessionVars >>

SessionMoves == part = "session" /\ UNCHANGED << part, vars >>

\* The actions of Next and of SessionNext, each on its own.
BrowserNext ==
  \/ \E c \in Slots : BackendMoves /\ Ask(c)
  \/ \E c \in Slots : BackendMoves /\ Read(c)
  \/ \E c \in Slots : BackendMoves /\ GenerateFails(c)
  \/ \E c \in Slots : BackendMoves /\ Write(c)
  \/ BackendMoves /\ Tick
  \/ \E l \in Typed : SessionMoves /\ Load(l)
  \/ \E role \in Roles : \E path \in PagesOf(role) : SessionMoves /\ Visit(path)
  \/ \E u \in Accounts : SessionMoves /\ AskLogin(u)
  \/ \E t \in Tokens : SessionMoves /\ Answer(t)
  \/ \E t \in Tokens \cup {NoToken} : SessionMoves /\ CallAnswered(t)
  \/ \E t \in Tokens \cup {NoToken} : SessionMoves /\ CallRefused(t)
  \/ SessionMoves /\ Logout
  \/ SessionMoves /\ LoginAnswered
  \/ SessionMoves /\ LoginFails
  \/ SessionMoves /\ Call
  \/ SessionMoves /\ TimerFires
  \/ SessionMoves /\ Expire
  \/ SessionMoves /\ Render
  \/ SessionMoves /\ Redirect

\* The fairness leaves out the behaviours of the other part.
BrowserSpec == BrowserInit /\ [][BrowserNext]_<< part, vars, sessionVars >> /\ SessionFairness

=============================================================================
