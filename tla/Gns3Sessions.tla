---------------------------- MODULE Gns3Sessions ----------------------------
(***************************************************************************)
(* GNS3 sessions: the rows of the API, the systemd units of the GNS3 host, *)
(* and the launcher between them.                                          *)
(*                                                                         *)
(* A handler decides on rows, has the launcher start or stop the unit of a *)
(* user, which takes seconds, and saves rows afterwards; the cleanup does  *)
(* so for every session that is over.  The launcher handles any number of  *)
(* connections at a time, each by a shell script of several commands.      *)
(*                                                                         *)
(* Left out: who may call what, certificates, the rate limit of starts,    *)
(* error messages, process ids, and GNS3 being switched off.               *)
(***************************************************************************)
EXTENDS Naturals, Sequences, FiniteSets

CONSTANTS
  Hosted,         \* the users
  Callers,        \* requests that may be handled together
  Cleaner,        \* the cleanup service
  InstancePorts,
  Duration,       \* of a session, in ticks
  Extension,
  MaxSessions,
  MaxClock,
  MaxExtensions,
  MaxFaults,      \* failures of any kind
  Retries         \* of a call whose connection breaks

ASSUME Gns3Assumption ==
  /\ Cleaner \notin Callers /\ IsFiniteSet(Callers)
  /\ InstancePorts \subseteq Nat \ {0}
  /\ Duration \in Nat /\ Extension \in Nat
  /\ MaxSessions \in Nat /\ MaxClock \in Nat /\ MaxExtensions \in Nat
  /\ MaxFaults \in Nat /\ Retries \in Nat

VARIABLES
  sessions,  \* the rows, by their identifiers
  units,     \* of each user: its state, and the port its server was started with
  envs,      \* the port in the environment file of each unit
  conns,     \* the connections that the launcher is handling
  works,     \* the handlers under way
  clock,
  faults,
  trust      \* whether handlers of a user met, or failed, and whether a stop is about to set that right

gns3Vars == << sessions, units, envs, conns, works, clock, faults, trust >>

Workers == Callers \cup {Cleaner}

(***************************************************************************)
(* Rows.                                                                   *)
(***************************************************************************)
Running(u) == {i \in DOMAIN sessions : sessions[i].user = u /\ sessions[i].running}

RunningIds == UNION {Running(u) : u \in Hosted}

Over(i) == sessions[i].start + Duration + sessions[i].extended * Extension <= clock

\* The port that nginx is given for a user: of the running session started last.
ActivePort(u) ==
  {sessions[i].port : i \in {k \in Running(u) : \A j \in Running(u) : sessions[j].start <= sessions[k].start}}

(***************************************************************************)
(* Units.  A server listens some time after its unit is started; it fails  *)
(* when its port is taken, and systemd starts the unit again.              *)
(***************************************************************************)
IsActive(u) == units[u].state \in {"active", "listening"}

ListenedOn(p) == \E u \in Hosted : units[u] = [state |-> "listening", port |-> p]

Off == [state |-> "off", port |-> 0]

Started(u) == [state |-> "active", port |-> envs[u]]

(***************************************************************************)
(* Handlers.  A handler takes its todo list row by row, with one call of   *)
(* the launcher each, and saves the rows of those that succeeded.  The row *)
(* of a start has no identifier yet.                                       *)
(***************************************************************************)
NewRow == 0

NoWork == [op |-> "none", user |-> {}, todo |-> {}, done |-> {}, at |-> "call", tries |-> 0, port |-> 0,
           extended |-> 0]

NextRow(c) == CHOOSE i \in works[c].todo : \A j \in works[c].todo : i <= j

UsersOf(w) == w.user \cup {sessions[i].user : i \in (w.todo \cup w.done) \ {NewRow}}

CallsLauncher(c) == works[c].op \in {"start", "stop"}

WorkingFor(u) == {c \in Workers : CallsLauncher(c) /\ u \in UsersOf(works[c])}

Busy(u) == WorkingFor(u) # {} \/ \E k \in conns : k.user = u

\* A handler that begins makes the outcome for a user uncertain when there is
\* another under way, and a stop without another may settle it.
Enter(c, w) ==
  /\ works[c].op = "none"
  /\ works' = [works EXCEPT ![c] = w]
  /\ trust' = [u \in Hosted |->
                 IF u \notin UsersOf(w) \/ w.op = "extend" THEN trust[u]
                 ELSE IF Busy(u) THEN "astray"
                 ELSE IF w.op = "stop" /\ trust[u] = "astray" THEN "mending"
                 ELSE trust[u]]
  /\ UNCHANGED << sessions, units, envs, conns, clock, faults >>

Astray(users) == [u \in Hosted |-> IF u \in users THEN "astray" ELSE trust[u]]

\* A failure that leaves it open what has been done for these users.
Fault(users) ==
  /\ faults < MaxFaults
  /\ faults' = faults + 1
  /\ trust' = Astray(users)

(***************************************************************************)
(* The requests, and the cleanup that runs every 30 seconds.               *)
(***************************************************************************)
Starting == {c \in Callers : works[c].op = "start"}

StartSession(c, u) ==
  /\ Running(u) = {}
  /\ Len(sessions) + Cardinality(Starting) < MaxSessions
  /\ Enter(c, [NoWork EXCEPT !.op = "start", !.user = {u}, !.todo = {NewRow}])

StopSession(c, u) ==
  \E i \in Running(u) : Enter(c, [NoWork EXCEPT !.op = "stop", !.todo = {i}])

ForceStopAll(c) ==
  /\ RunningIds # {}
  /\ Enter(c, [NoWork EXCEPT !.op = "stop", !.todo = RunningIds])

\* Mutant: only what has run out since the last tick is found.
CleanupAtTheMoment ==
  LET expired == {i \in RunningIds : sessions[i].start + Duration + sessions[i].extended * Extension = clock}
  IN  expired # {} /\ Enter(Cleaner, [NoWork EXCEPT !.op = "stop", !.todo = expired])

Cleanup ==
  LET expired == {i \in RunningIds : Over(i)}
  IN  expired # {} /\ Enter(Cleaner, [NoWork EXCEPT !.op = "stop", !.todo = expired])

\* An extension adds to what the row held when it was loaded.
ExtendSession(c, u) ==
  \E i \in Running(u) :
    /\ sessions[i].extended < MaxExtensions
    /\ Enter(c, [NoWork EXCEPT !.op = "extend", !.todo = {i}, !.extended = sessions[i].extended])

\* Mutant: the extension is added twice.
ExtendSaveTwice(c) ==
  /\ works[c].op = "extend"
  /\ sessions' = [sessions EXCEPT ![NextRow(c)].extended = works[c].extended + 2]
  /\ works' = [works EXCEPT ![c] = NoWork]
  /\ UNCHANGED << units, envs, conns, clock, faults, trust >>

ExtendSave(c) ==
  /\ works[c].op = "extend"
  /\ sessions' = [sessions EXCEPT ![NextRow(c)].extended = works[c].extended + 1]
  /\ works' = [works EXCEPT ![c] = NoWork]
  /\ UNCHANGED << units, envs, conns, clock, faults, trust >>

(***************************************************************************)
(* The call of the launcher.  A connection that cannot be made or breaks   *)
(* is tried again, while one that is closed without an answer is a         *)
(* failure; the answer is waited for without a limit.                      *)
(***************************************************************************)
Calling(c) == CallsLauncher(c) /\ works[c].at = "call"

Awaiting(c) == CallsLauncher(c) /\ works[c].at = "await"

Addressed(c) == IF works[c].op = "start" THEN works[c].user ELSE {sessions[NextRow(c)].user}

ConnOf(c) == {k \in conns : k.by = c /\ ~ k.left}

\* The next row, or the save when there is none; a failed start returns.
Proceeding(w) ==
  IF w.op = "start" /\ w.done = {} THEN NoWork
  ELSE [w EXCEPT !.at = IF w.todo = {} THEN "save" ELSE "call", !.tries = 0]

Succeeded(c, p) ==
  Proceeding([works[c] EXCEPT !.todo = @ \ {NextRow(c)}, !.done = @ \cup {NextRow(c)}, !.port = p])

Failed(c) == Proceeding([works[c] EXCEPT !.todo = @ \ {NextRow(c)}])

Retried(c) ==
  IF works[c].tries < Retries THEN [works[c] EXCEPT !.at = "call", !.tries = @ + 1] ELSE Failed(c)

\* Connections of a handler that is gone or has given up on them go on.
Abandoned(users) == {[k EXCEPT !.left = k.left \/ k.by \in users] : k \in conns}

SendCommand(c) ==
  /\ Calling(c)
  /\ \E u \in Addressed(c) :
       conns' = conns \cup {[by |-> c, user |-> u, op |-> works[c].op, at |-> "received", port |-> 0, left |-> FALSE]}
  /\ works' = [works EXCEPT ![c].at = "await"]
  /\ UNCHANGED << sessions, units, envs, clock, faults, trust >>

ReadAnswer(c) ==
  /\ Awaiting(c)
  /\ \E k \in ConnOf(c) :
       /\ k.at \in {"ok", "err"}
       /\ conns' = conns \ {k}
       /\ works' = [works EXCEPT ![c] = IF k.at = "ok" THEN Succeeded(c, k.port) ELSE Failed(c)]
  /\ UNCHANGED << sessions, units, envs, clock, faults, trust >>

LauncherUnreachable(c) ==
  /\ Calling(c)
  /\ Fault(Addressed(c))
  /\ works' = [works EXCEPT ![c] = Retried(c)]
  /\ UNCHANGED << sessions, units, envs, conns, clock >>

AnswerLost(c) ==
  /\ Awaiting(c) /\ ConnOf(c) # {}
  /\ Fault(Addressed(c))
  /\ \E w \in {Retried(c), Failed(c)} : works' = [works EXCEPT ![c] = w]
  /\ conns' = Abandoned({c})
  /\ UNCHANGED << sessions, units, envs, clock >>

\* The other end is gone, and the handler may come to know it.
ConnectionBroken(c) ==
  /\ Awaiting(c) /\ ConnOf(c) = {}
  /\ \E w \in {Retried(c), Failed(c)} : works' = [works EXCEPT ![c] = w]
  /\ UNCHANGED << sessions, units, envs, conns, clock, faults, trust >>

(***************************************************************************)
(* The save that ends a handler.  A stop that met no other settles what    *)
(* was uncertain, when it leaves no running session.                       *)
(***************************************************************************)
SavedRows(c) ==
  IF works[c].op = "start"
    THEN {Append(sessions, [user |-> u, start |-> clock, extended |-> 0, port |-> works[c].port, running |-> TRUE]) :
            u \in works[c].user}
    ELSE {[i \in DOMAIN sessions |-> [sessions[i] EXCEPT !.running = @ /\ i \notin works[c].done]]}

Save(c) ==
  /\ CallsLauncher(c) /\ works[c].at = "save"
  /\ sessions' \in SavedRows(c)
  /\ works' = [works EXCEPT ![c] = NoWork]
  /\ trust' = [u \in Hosted |->
                 IF u \notin UsersOf(works[c]) \/ trust[u] # "mending" THEN trust[u]
                 ELSE IF Running(u) \subseteq works[c].done THEN "agrees" ELSE "astray"]
  /\ UNCHANGED << units, envs, conns, clock, faults >>

\* The caller has gone away, or the database cannot be reached: nothing is saved.
Aborted(c) ==
  /\ CallsLauncher(c)
  /\ works[c].at = "save" \/ (works[c].at = "call" /\ c # Cleaner)
  /\ Fault(UsersOf(works[c]))
  /\ works' = [works EXCEPT ![c] = NoWork]
  /\ UNCHANGED << sessions, units, envs, conns, clock >>

(***************************************************************************)
(* The launcher.  It starts a unit that is not active, on a port that      *)
(* nothing listens on: no other user's server that is about to.            *)
(***************************************************************************)
Reply(k, at, port) == conns' = (conns \ {k}) \cup {[k EXCEPT !.at = at, !.port = port]}

StartTest(k) ==
  /\ k.op = "start" /\ k.at = "received"
  /\ IF IsActive(k.user) THEN Reply(k, "ok", envs[k.user]) ELSE Reply(k, "allocate", 0)
  /\ UNCHANGED << sessions, units, envs, works, clock, faults, trust >>

\* The server of a user is going to listen on a port, and does not yet.
Contends(v, p) ==
  \/ units[v].state # "off" /\ p \in {units[v].port, envs[v]} /\ units[v] # [state |-> "listening", port |-> p]
  \/ \E k \in conns : k.user = v /\ k.at = "launch" /\ p \in {k.port, envs[v]}

Allocated(k, p) ==
  LET others == {v \in Hosted \ {k.user} : Contends(v, p)}
  IN  /\ envs' = [envs EXCEPT ![k.user] = p]
      /\ Reply(k, "launch", p)
      /\ trust' = IF others = {} THEN trust ELSE Astray(others \cup {k.user})

\* Mutants: any port will do; or the environment file is left as it was.
AllocateAnyPort(k) ==
  /\ k.at = "allocate"
  /\ \E p \in InstancePorts : Allocated(k, p)
  /\ UNCHANGED << sessions, units, works, clock, faults >>
AllocateKeepingFile(k) ==
  /\ k.at = "allocate"
  /\ \E p \in InstancePorts : ~ ListenedOn(p) /\ Reply(k, "launch", p)
  /\ UNCHANGED << sessions, units, envs, works, clock, faults, trust >>

Allocate(k) ==
  /\ k.at = "allocate"
  /\ \E p \in InstancePorts : ~ ListenedOn(p) /\ Allocated(k, p)
  /\ UNCHANGED << sessions, units, works, clock, faults >>

\* A unit that another connection has started meanwhile is left as it is.
Launch(k) ==
  /\ k.at = "launch"
  /\ units' = IF IsActive(k.user) THEN units ELSE [units EXCEPT ![k.user] = Started(k.user)]
  /\ Reply(k, "ok", k.port)
  /\ UNCHANGED << sessions, envs, works, clock, faults, trust >>

StopUnit(k) ==
  /\ k.op = "stop" /\ k.at = "received"
  /\ units' = [units EXCEPT ![k.user] = Off]
  /\ Reply(k, "ok", 0)
  /\ UNCHANGED << sessions, envs, works, clock, faults, trust >>

\* A unit that fails to start may be started again by systemd all the same.
CommandFails(k) ==
  /\ \/ /\ k.at = "launch" /\ ~ IsActive(k.user)
        /\ \E state \in {"off", "restarting"} : units' = [units EXCEPT ![k.user].state = state]
     \/ k.op = "stop" /\ k.at = "received" /\ UNCHANGED units
  /\ Fault({k.user})
  /\ Reply(k, "err", 0)
  /\ UNCHANGED << sessions, envs, works, clock >>

\* Nobody is there to be answered.
Unheard(k) ==
  /\ k.left /\ k.at \in {"ok", "err"}
  /\ conns' = conns \ {k}
  /\ UNCHANGED << sessions, units, envs, works, clock, faults, trust >>

(***************************************************************************)
(* The units, the two machines, and time.                                  *)
(***************************************************************************)
Bind(u) ==
  /\ units[u].state = "active"
  /\ units' = [units EXCEPT ![u].state = IF ListenedOn(units[u].port) THEN "restarting" ELSE "listening"]
  /\ UNCHANGED << sessions, envs, conns, works, clock, faults, trust >>

Respawn(u) ==
  /\ units[u].state = "restarting"
  /\ units' = [units EXCEPT ![u] = Started(u)]
  /\ UNCHANGED << sessions, envs, conns, works, clock, faults, trust >>

Crash(u) ==
  /\ IsActive(u)
  /\ faults < MaxFaults
  /\ faults' = faults + 1
  /\ units' = [units EXCEPT ![u].state = "restarting"]
  /\ UNCHANGED << sessions, envs, conns, works, clock, trust >>

ApiRestarts ==
  /\ \E c \in Workers : works[c].op # "none"
  /\ Fault({u \in Hosted : WorkingFor(u) # {}})
  /\ works' = [c \in Workers |-> NoWork]
  /\ conns' = Abandoned(Workers)
  /\ UNCHANGED << sessions, units, envs, clock >>

\* Units are not started at boot.
HostRestarts ==
  /\ \E u \in Hosted : units[u].state # "off"
  /\ Fault({u \in Hosted : units[u].state # "off" \/ Busy(u)})
  /\ units' = [u \in Hosted |-> Off]
  /\ conns' = {}
  /\ UNCHANGED << sessions, envs, works, clock >>

ClockTicks ==
  /\ clock < MaxClock
  /\ clock' = clock + 1
  /\ UNCHANGED << sessions, units, envs, conns, works, faults, trust >>

-----------------------------------------------------------------------------
Gns3Init ==
  /\ sessions = << >>
  /\ units = [u \in Hosted |-> Off]
  /\ envs = [u \in Hosted |-> 0]
  /\ conns = {}
  /\ works = [c \in Workers |-> NoWork]
  /\ clock = 0
  /\ faults = 0
  /\ trust = [u \in Hosted |-> "agrees"]

Gns3Request(c) ==
  \/ \E u \in Hosted : StartSession(c, u) \/ StopSession(c, u) \/ ExtendSession(c, u)
  \/ ForceStopAll(c)

HandlerStep(c) ==
  \/ ExtendSave(c)
  \/ SendCommand(c) \/ ReadAnswer(c) \/ Save(c)
  \/ LauncherUnreachable(c) \/ AnswerLost(c) \/ ConnectionBroken(c) \/ Aborted(c)

LauncherStep(k) ==
  \/ StartTest(k) \/ Allocate(k) \/ Launch(k) \/ StopUnit(k)
  \/ CommandFails(k) \/ Unheard(k)

UnitStep(u) == Bind(u) \/ Respawn(u) \/ Crash(u)

Gns3Next ==
  \/ \E c \in Callers : Gns3Request(c)
  \/ Cleanup
  \/ \E c \in Workers : HandlerStep(c)
  \/ \E k \in conns : LauncherStep(k)
  \/ \E u \in Hosted : UnitStep(u)
  \/ ApiRestarts
  \/ HostRestarts
  \/ ClockTicks

Gns3Spec == Gns3Init /\ [][Gns3Next]_gns3Vars

-----------------------------------------------------------------------------
(***************************************************************************)
(* Properties.                                                             *)
(***************************************************************************)
Session ==
  [user : Hosted, start : 0..MaxClock, extended : 0..MaxExtensions, port : InstancePorts \cup {0}, running : BOOLEAN]

Work ==
  [op : {"none", "start", "stop", "extend"}, user : SUBSET Hosted, todo : SUBSET (0..MaxSessions),
   done : SUBSET (0..MaxSessions), at : {"call", "await", "save"}, tries : 0..Retries,
   port : InstancePorts \cup {0}, extended : 0..MaxExtensions]

Connection ==
  [by : Workers, user : Hosted, op : {"start", "stop"}, port : InstancePorts \cup {0}, left : BOOLEAN,
   at : {"received", "allocate", "launch", "ok", "err"}]

\* Types; nothing is extended or tried again more often than the limits allow.
Gns3TypeOK ==
  /\ sessions \in Seq(Session) /\ Len(sessions) <= MaxSessions
  /\ units \in [Hosted -> [state : {"off", "active", "listening", "restarting"}, port : InstancePorts \cup {0}]]
  /\ envs \in [Hosted -> InstancePorts \cup {0}]
  /\ conns \subseteq Connection
  /\ works \in [Workers -> Work]
  /\ clock \in 0..MaxClock
  /\ faults \in 0..MaxFaults
  /\ trust \in [Hosted -> {"agrees", "mending", "astray"}]

\* While nothing is done for a user there is either no running session and no
\* instance, or one session and the instance, on the session's port: unless
\* handlers of the user met, one failed, or two servers were given one port,
\* and no undisturbed stop came since.
AgreeUnlessOverlap ==
  \A u \in Hosted :
    (trust[u] = "agrees" /\ ~ Busy(u)) =>
      \/ Running(u) = {} /\ units[u].state = "off"
      \/ \E i \in Running(u) : /\ Running(u) = {i}
                               /\ units[u].state # "off" /\ units[u].port = sessions[i].port

\* With the same exceptions, nginx takes nobody to the instance of another
\* user, but for a session that is being stopped: the port of an instance can
\* be given away as soon as it is off, before the row says so.
OwnInstance ==
  \A u, v \in Hosted :
    (u # v /\ trust[u] = "agrees" /\ units[v].state = "listening" /\ units[v].port \in ActivePort(u)) =>
      \E c \in WorkingFor(u) : works[c].op = "stop"

\* The cleanup waits for an answer of a launcher that is gone.
Hung == Awaiting(Cleaner) /\ ConnOf(Cleaner) = {}

LeftRunning == {i \in RunningIds : Over(i)}

\* Whatever has failed before, sessions that are over are ended by the cleanup,
\* or extended, all of them in the end (their number is limited here), unless
\* the cleanup hangs: it waits for the answer of the launcher without a limit.
ExpiredEnd == LeftRunning # {} ~> (LeftRunning = {} \/ Hung)

Gns3Fairness ==
  /\ WF_gns3Vars(Cleanup)
  /\ WF_gns3Vars(SendCommand(Cleaner))
  /\ WF_gns3Vars(ReadAnswer(Cleaner))
  /\ WF_gns3Vars(Save(Cleaner))
  /\ WF_gns3Vars(\E k \in ConnOf(Cleaner) : StopUnit(k))

=============================================================================
