------------------------- MODULE Gns3Sessions_proofs -------------------------
(***************************************************************************)
(* Proofs about the GNS3 sessions, for any users, callers, ports, limits   *)
(* and failures.                                                           *)
(***************************************************************************)
EXTENDS Gns3Sessions, FiniteSetTheorems, WellFoundedInduction, TLAPS

(***************************************************************************)
(* What a handler has to do and has done, by its operation and step.       *)
(***************************************************************************)
Starts(w) ==
  /\ \E u \in Hosted : w.user = {u}
  /\ w.at # "save" => w.todo = {NewRow} /\ w.done = {}
  /\ w.at = "save" => w.todo = {} /\ w.done = {NewRow}

Stops(w, rows) ==
  /\ w.user = {}
  /\ w.todo \cup w.done \subseteq rows
  /\ (w.at = "save") <=> (w.todo = {})

Extends(w, rows) ==
  /\ w.user = {}
  /\ \E i \in rows : w.todo = {i}
  /\ w.extended < MaxExtensions

HandledWell(c, w, rows) ==
  /\ w.op = "start" => c # Cleaner /\ Starts(w)
  /\ w.op = "stop" => Stops(w, rows)
  /\ w.op = "extend" => c # Cleaner /\ Extends(w, rows)

Handled(c) == HandledWell(c, works[c], DOMAIN sessions)

\* A start takes its place among the sessions before it has a row.
Places == Len(sessions) + Cardinality(Starting) <= MaxSessions

\* A connection that somebody listens to is that of the call it awaits.
Heard ==
  /\ \A k \in conns : ~ k.left => /\ Awaiting(k.by)
                                  /\ k.user \in Addressed(k.by)
                                  /\ k.op = works[k.by].op
  /\ \A k, l \in conns : (~ k.left /\ ~ l.left /\ k.by = l.by) => k = l

(***************************************************************************)
(* What holds of a user whose handlers did not meet and did not fail, or   *)
(* whose stop is about to set that right.                                  *)
(***************************************************************************)
ConnsFor(u) == {k \in conns : k.user = u}

RowsOf(w, u) == {i \in w.todo \cup w.done : i # NewRow /\ sessions[i].user = u}

RowsFor(c, u) == RowsOf(works[c], u)

DoneFor(c, u) == RowsFor(c, u) \cap works[c].done

AwaitsFor(c, u) == Awaiting(c) /\ u \in Addressed(c)

Serves(u, p) == units[u].state # "off" /\ units[u].port = p /\ envs[u] = p

Serving(u) == \E i \in Running(u) : Running(u) = {i} /\ Serves(u, sessions[i].port)

Stopped(c, u) ==
  DoneFor(c, u) # {} \/ \E k \in ConnsFor(u) : k.at = "ok"

\* One handler at a time, with one connection.
Alone(u) ==
  /\ \A c, d \in WorkingFor(u) : c = d
  /\ \A k \in ConnsFor(u) : ~ k.left /\ k.at # "err"
  /\ \A c \in WorkingFor(u) : AwaitsFor(c, u) => ConnsFor(u) # {}

StopUnderWay(u) ==
  \A c \in WorkingFor(u) : works[c].op = "stop" =>
    /\ RowsFor(c, u) \subseteq Running(u)
    /\ Stopped(c, u) => units[u].state = "off"
    /\ \A k \in ConnsFor(u) : k.at \in {"received", "ok"}
    /\ trust[u] = "agrees" =>
         \E i \in Running(u) : /\ Running(u) = {i}
                               /\ Stopped(c, u) \/ Serves(u, sessions[i].port)

StartUnderWay(u) ==
  \A c \in WorkingFor(u) : works[c].op = "start" =>
    /\ trust[u] = "agrees"
    /\ Running(u) = {}
    /\ works[c].at = "call" => units[u].state = "off"
    /\ works[c].at = "save" => Serves(u, works[c].port)
    /\ \A k \in ConnsFor(u) :
         /\ k.at # "ok" => units[u].state = "off"
         /\ k.at = "launch" => envs[u] = k.port
         /\ k.at = "ok" => Serves(u, k.port)

AtRest(u) ==
  WorkingFor(u) = {} =>
    /\ trust[u] = "agrees"
    /\ ConnsFor(u) = {}
    /\ (Running(u) = {} /\ units[u].state = "off") \/ Serving(u)

Settled(u) ==
  trust[u] # "astray" => Alone(u) /\ StopUnderWay(u) /\ StartUnderWay(u) /\ AtRest(u)

(***************************************************************************)
(* Ports.  The server of a user listens on a port, or is going to.         *)
(***************************************************************************)
Claims(u, p) ==
  \/ IsActive(u) /\ units[u].port = p
  \/ units[u].state # "off" /\ envs[u] = p
  \/ envs[u] = p /\ \E k \in ConnsFor(u) : k.at = "launch"

Exclusive(u) ==
  trust[u] = "agrees" => \A v \in Hosted \ {u}, p \in InstancePorts \cup {0} : ~ (Claims(u, p) /\ Claims(v, p))

TypeInv == Gns3TypeOK /\ Places /\ \A c \in Workers : Handled(c)

Gns3Inv ==
  /\ TypeInv
  /\ Heard
  /\ \A u \in Hosted : Settled(u) /\ Exclusive(u)

(***************************************************************************)
(* Rows and handlers.                                                      *)
(***************************************************************************)
\* Every set of numbers that is not empty has a least one.
LEMMA LeastExists ==
  ASSUME NEW S, S \subseteq Nat, S # {}
  PROVE  \E i \in S : \A j \in S : i <= j
<1>1. \E x \in S : \A y \in S : ~(<< y, x >> \in OpToRel(<, Nat))
  BY NatLessThanWellFounded, WFMin
<1>2. PICK i \in S : \A j \in S : ~(j < i)
  BY <1>1 DEF OpToRel
<1> QED
  BY <1>2

LEMMA NextRowTodo ==
  ASSUME NEW c, works[c].todo \subseteq Nat, works[c].todo # {}
  PROVE  NextRow(c) \in works[c].todo
BY LeastExists DEF NextRow

LEMMA NoWorkHandled ==
  ASSUME NEW c, NEW rows
  PROVE  NoWork \in Work /\ NoWork.op = "none" /\ HandledWell(c, NoWork, rows)
BY Gns3Assumption DEF NoWork, Work, HandledWell

LEMMA RowIds ==
  ASSUME Gns3TypeOK
  PROVE  /\ DOMAIN sessions = 1..Len(sessions) /\ Len(sessions) \in Nat
         /\ DOMAIN sessions \subseteq 0..MaxSessions
         /\ NewRow \notin DOMAIN sessions
         /\ \A i \in DOMAIN sessions : sessions[i] \in Session
BY Gns3Assumption DEF Gns3TypeOK, NewRow

\* A handler that calls the launcher calls it for one user, and works for that user.
LEMMA AddressedOne ==
  ASSUME TypeInv, NEW c \in Workers, Calling(c) \/ Awaiting(c)
  PROVE  /\ NextRow(c) \in works[c].todo
         /\ \E v \in Hosted : /\ Addressed(c) = {v}
                              /\ c \in WorkingFor(v)
                              /\ works[c].op = "stop" => /\ NextRow(c) \in DOMAIN sessions
                                                         /\ sessions[NextRow(c)].user = v
                              /\ works[c].op = "start" => /\ works[c].user = {v}
                                                          /\ works[c].todo = {NewRow}
                                                          /\ works[c].done = {}
                                                          /\ NextRow(c) = NewRow
<1>1. works[c] \in Work /\ HandledWell(c, works[c], DOMAIN sessions) /\ works[c].op \in {"start", "stop"}
  BY DEF TypeInv, Gns3TypeOK, Handled, Calling, Awaiting, CallsLauncher
<1>2. works[c].at # "save"
  BY DEF Calling, Awaiting
<1>3. works[c].todo # {} /\ works[c].todo \subseteq Nat
  BY <1>1, <1>2 DEF HandledWell, Starts, Stops, Work, NewRow
<1>4. NextRow(c) \in works[c].todo
  BY <1>3, NextRowTodo
<1>5. CASE works[c].op = "start"
  BY <1>1, <1>2, <1>4, <1>5 DEF HandledWell, Starts, Addressed, WorkingFor, UsersOf, CallsLauncher
<1>6. CASE works[c].op = "stop"
  <2>1. NextRow(c) \in DOMAIN sessions /\ sessions[NextRow(c)].user \in Hosted /\ NextRow(c) # NewRow
    BY <1>1, <1>4, <1>6, RowIds DEF HandledWell, Stops, TypeInv, Session
  <2>2. sessions[NextRow(c)].user \in UsersOf(works[c])
    BY <2>1, <1>4 DEF UsersOf
  <2> QED
    BY <1>4, <1>6, <2>1, <2>2 DEF Addressed, WorkingFor, CallsLauncher
<1> QED
  BY <1>1, <1>5, <1>6

(***************************************************************************)
(* Types.                                                                  *)
(***************************************************************************)
LEMMA InitTypes == Gns3Init => TypeInv
<1> SUFFICES ASSUME Gns3Init PROVE TypeInv
  OBVIOUS
<1>1. NoWork \in Work /\ \A c \in Workers : HandledWell(c, NoWork, DOMAIN sessions)
  BY NoWorkHandled
<1>2. \A c \in Workers : Handled(c)
  BY <1>1 DEF Handled, Gns3Init
<1>3. Starting = {}
  BY NoWorkHandled DEF Starting, Gns3Init, Workers
<1>4. Places
  BY <1>3, FS_EmptySet, Gns3Assumption DEF Places, Gns3Init
<1>5. Gns3TypeOK
  BY <1>1, Gns3Assumption DEF Gns3TypeOK, Gns3Init, Off
<1> QED
  BY <1>2, <1>4, <1>5 DEF TypeInv

LEMMA StartingFinite == IsFiniteSet(Starting) /\ IsFiniteSet(Starting')
BY Gns3Assumption, FS_Subset DEF Starting

\* A handler takes another step; only a start takes a place.
LEMMA WorkChanges ==
  ASSUME TypeInv, NEW c \in Workers, NEW w \in Work, HandledWell(c, w, DOMAIN sessions),
         works' = [works EXCEPT ![c] = w], sessions' = sessions,
         \/ w.op = "start" => works[c].op = "start"
         \/ Len(sessions) + Cardinality(Starting) < MaxSessions
  PROVE  works' \in [Workers -> Work] /\ Places' /\ \A d \in Workers : Handled(d)'
<1>1. works \in [Workers -> Work] /\ works' \in [Workers -> Work]
  BY DEF TypeInv, Gns3TypeOK
<1>2. ASSUME NEW d \in Workers PROVE Handled(d)'
  BY <1>1 DEF TypeInv, Handled
<1>3. Starting' \subseteq Starting \cup {c}
  BY <1>1 DEF Starting, Workers
<1>4. Len(sessions) \in Nat /\ Cardinality(Starting) \in Nat /\ Cardinality(Starting') \in Nat
  BY StartingFinite, FS_CardinalityType DEF TypeInv, Gns3TypeOK
<1>5. CASE w.op = "start" => works[c].op = "start"
  <2>1. Starting' \subseteq Starting
    BY <1>1, <1>5 DEF Starting, Workers
  <2>2. Cardinality(Starting') <= Cardinality(Starting)
    BY <2>1, StartingFinite, FS_Subset
  <2> QED
    BY <1>1, <1>2, <1>4, <2>2, Gns3Assumption DEF Places, TypeInv
<1>6. CASE Len(sessions) + Cardinality(Starting) < MaxSessions
  <2>1. /\ IsFiniteSet(Starting \cup {c})
        /\ Cardinality(Starting \cup {c}) <= Cardinality(Starting) + 1
    <3> DEFINE S == Starting
    <3>1. IsFiniteSet(S) /\ Cardinality(S) \in Nat
      BY StartingFinite, <1>4
    <3> HIDE DEF S
    <3>2. /\ IsFiniteSet(S \cup {c})
          /\ Cardinality(S \cup {c}) = IF c \in S THEN Cardinality(S) ELSE Cardinality(S) + 1
      BY <3>1, FS_AddElement
    <3>3. Cardinality(S \cup {c}) <= Cardinality(S) + 1
      BY <3>1, <3>2
    <3> QED
      BY <3>2, <3>3 DEF S
  <2>2. Cardinality(Starting') <= Cardinality(Starting \cup {c})
    BY <1>3, <2>1, FS_Subset
  <2>3. Cardinality(Starting \cup {c}) \in Nat
    BY <2>1, FS_CardinalityType
  <2> QED
    BY <1>1, <1>2, <1>4, <1>6, <2>1, <2>2, <2>3, Gns3Assumption DEF Places
<1> QED
  BY <1>5, <1>6

\* The handler gives up, tries again, or goes on to the next row.
LEMMA FailedWell ==
  ASSUME TypeInv, NEW c \in Workers, Calling(c) \/ Awaiting(c),
         NEW w, w \in {Failed(c), Retried(c)}
  PROVE  /\ w \in Work /\ HandledWell(c, w, DOMAIN sessions)
         /\ w.op \in {"none", works[c].op}
<1>1. works[c] \in Work /\ HandledWell(c, works[c], DOMAIN sessions) /\ works[c].op \in {"start", "stop"}
  BY DEF TypeInv, Gns3TypeOK, Handled, Calling, Awaiting, CallsLauncher
<1>2. works[c].at # "save" /\ NextRow(c) \in works[c].todo
  BY AddressedOne DEF Calling, Awaiting
<1>3. /\ Failed(c) \in Work /\ HandledWell(c, Failed(c), DOMAIN sessions)
      /\ Failed(c).op \in {"none", works[c].op}
  <2>1. CASE works[c].op = "start"
    <3>1. works[c].todo \ {NextRow(c)} = {} /\ works[c].done = {}
      BY <1>1, <1>2, <2>1 DEF HandledWell, Starts
    <3>2. Failed(c) = NoWork
      BY <1>1, <2>1, <3>1 DEF Failed, Proceeding, Work
    <3> QED
      BY <3>2, NoWorkHandled
  <2>2. CASE works[c].op = "stop"
    <3> DEFINE left == works[c].todo \ {NextRow(c)}
    <3>1. Failed(c) = [works[c] EXCEPT !.todo = left, !.at = IF left = {} THEN "save" ELSE "call", !.tries = 0]
      BY <1>1, <2>2 DEF Failed, Proceeding, Work
    <3>2. left \subseteq works[c].todo
      OBVIOUS
    <3> HIDE DEF left
    <3>3. Failed(c) \in Work
      <4>1. left \in SUBSET (0..MaxSessions) /\ 0 \in 0..Retries
        BY <1>1, <3>2, Gns3Assumption DEF Work
      <4> QED
        BY <1>1, <3>1, <4>1 DEF Work
    <3>4. Failed(c).op = "stop" /\ Failed(c).user = works[c].user /\ Failed(c).todo = left
          /\ Failed(c).done = works[c].done /\ Failed(c).at = IF left = {} THEN "save" ELSE "call"
      BY <1>1, <2>2, <3>1 DEF Work
    <3>5. Stops(Failed(c), DOMAIN sessions)
      BY <1>1, <2>2, <3>2, <3>4 DEF HandledWell, Stops
    <3> QED
      BY <2>2, <3>3, <3>4, <3>5 DEF HandledWell
  <2> QED
    BY <1>1, <2>1, <2>2
<1>4. CASE works[c].tries < Retries
  <2>1. Retried(c) = [works[c] EXCEPT !.at = "call", !.tries = works[c].tries + 1]
    BY <1>4, <1>1 DEF Retried, Work
  <2>2. Retried(c) \in Work
    <3>1. works[c].tries + 1 \in 0..Retries
      BY <1>1, <1>4, Gns3Assumption DEF Work
    <3> QED
      BY <1>1, <2>1, <3>1 DEF Work
  <2>3. /\ Retried(c).op = works[c].op /\ Retried(c).user = works[c].user /\ Retried(c).todo = works[c].todo
        /\ Retried(c).done = works[c].done /\ Retried(c).at = "call"
    BY <1>1, <2>1 DEF Work
  <2>4. HandledWell(c, Retried(c), DOMAIN sessions)
    BY <1>1, <1>2, <2>3 DEF HandledWell, Starts, Stops
  <2> QED
    BY <1>3, <2>2, <2>3, <2>4
<1>5. CASE ~(works[c].tries < Retries)
  BY <1>3, <1>5 DEF Retried
<1> QED
  BY <1>4, <1>5

LEMMA SucceededWell ==
  ASSUME TypeInv, NEW c \in Workers, Calling(c) \/ Awaiting(c), NEW p \in InstancePorts \cup {0}
  PROVE  /\ Succeeded(c, p) \in Work /\ HandledWell(c, Succeeded(c, p), DOMAIN sessions)
         /\ Succeeded(c, p).op = works[c].op
         /\ Succeeded(c, p).todo = works[c].todo \ {NextRow(c)}
         /\ Succeeded(c, p).done = works[c].done \cup {NextRow(c)}
         /\ Succeeded(c, p).user = works[c].user
         /\ Succeeded(c, p).port = p
         /\ Succeeded(c, p).at \in {"save", "call"}
         /\ works[c].op = "start" => Succeeded(c, p).at = "save"
<1>1. works[c] \in Work /\ HandledWell(c, works[c], DOMAIN sessions) /\ works[c].op \in {"start", "stop"}
  BY DEF TypeInv, Gns3TypeOK, Handled, Calling, Awaiting, CallsLauncher
<1>2. works[c].at # "save" /\ NextRow(c) \in works[c].todo
  BY AddressedOne DEF Calling, Awaiting
<1> DEFINE left == works[c].todo \ {NextRow(c)}
           did  == works[c].done \cup {NextRow(c)}
<1>3. Succeeded(c, p) = [works[c] EXCEPT !.todo = left, !.done = did, !.port = p,
                                          !.at = IF left = {} THEN "save" ELSE "call", !.tries = 0]
  BY <1>1 DEF Succeeded, Proceeding, Work
<1>4. left \subseteq works[c].todo /\ did \subseteq works[c].todo \cup works[c].done
  BY <1>2
<1>5. works[c].op = "start" => left = {} /\ did = {NewRow}
  BY <1>1, <1>2 DEF HandledWell, Starts
<1> HIDE DEF left, did
<1>6. Succeeded(c, p) \in Work
  <2>1. left \in SUBSET (0..MaxSessions) /\ did \in SUBSET (0..MaxSessions) /\ 0 \in 0..Retries
    BY <1>1, <1>4, Gns3Assumption DEF Work
  <2> QED
    BY <1>1, <1>3, <2>1 DEF Work
<1>7. /\ Succeeded(c, p).op = works[c].op /\ Succeeded(c, p).user = works[c].user
      /\ Succeeded(c, p).todo = left /\ Succeeded(c, p).done = did /\ Succeeded(c, p).port = p
      /\ Succeeded(c, p).at = IF left = {} THEN "save" ELSE "call"
  BY <1>1, <1>3 DEF Work
<1>8. HandledWell(c, Succeeded(c, p), DOMAIN sessions)
  BY <1>1, <1>2, <1>4, <1>5, <1>7 DEF HandledWell, Starts, Stops
<1> QED
  BY <1>5, <1>6, <1>7, <1>8 DEF left, did

\* The steps that change a handler and no rows, or other things only.
LEMMA TypesByWork ==
  ASSUME TypeInv, NEW c \in Workers, NEW w \in Work, HandledWell(c, w, DOMAIN sessions),
         works' = [works EXCEPT ![c] = w], sessions' = sessions, clock' = clock,
         \/ w.op = "start" => works[c].op = "start"
         \/ Len(sessions) + Cardinality(Starting) < MaxSessions,
         units' = units, envs' = envs,
         conns' \subseteq Connection, faults' \in 0..MaxFaults,
         trust' \in [Hosted -> {"agrees", "mending", "astray"}]
  PROVE  TypeInv'
BY WorkChanges DEF TypeInv, Gns3TypeOK

LEMMA TypesByOthers ==
  ASSUME TypeInv, works' = works, sessions' = sessions, Gns3TypeOK'
  PROVE  TypeInv'
BY DEF TypeInv, Places, Starting, Handled

LEMMA AstrayTyped ==
  ASSUME TypeInv, NEW users
  PROVE  Astray(users) \in [Hosted -> {"agrees", "mending", "astray"}]
BY DEF TypeInv, Gns3TypeOK, Astray

LEMMA AbandonedTyped ==
  ASSUME TypeInv, NEW users
  PROVE  Abandoned(users) \subseteq Connection
BY DEF TypeInv, Gns3TypeOK, Abandoned, Connection

LEMMA EnterTypes ==
  ASSUME TypeInv, NEW c \in Workers, NEW w \in Work, HandledWell(c, w, DOMAIN sessions), Enter(c, w),
         w.op = "start" => Len(sessions) + Cardinality(Starting) < MaxSessions
  PROVE  TypeInv'
<1>1. trust' \in [Hosted -> {"agrees", "mending", "astray"}]
  BY DEF Enter, TypeInv, Gns3TypeOK
<1> QED
  BY <1>1, TypesByWork DEF Enter, TypeInv, Gns3TypeOK

LEMMA RunningRows ==
  ASSUME TypeInv
  PROVE  RunningIds \subseteq DOMAIN sessions /\ \A u \in Hosted : Running(u) \subseteq DOMAIN sessions
BY DEF RunningIds, Running

\* A stop of some rows, as all of them begin.
LEMMA StopWell ==
  ASSUME TypeInv, NEW c, NEW rows, rows \subseteq DOMAIN sessions, rows # {},
         NEW w, w = [NoWork EXCEPT !.op = "stop", !.todo = rows]
  PROVE  w \in Work /\ HandledWell(c, w, DOMAIN sessions)
<1>1. rows \in SUBSET (0..MaxSessions)
  BY RowIds DEF TypeInv
<1>2. /\ w.op = "stop" /\ w.user = {} /\ w.todo = rows /\ w.done = {} /\ w.at = "call"
  BY DEF NoWork
<1>3. w \in Work
  BY <1>1, NoWorkHandled DEF Work
<1> QED
  BY <1>2, <1>3 DEF HandledWell, Stops

LEMMA RequestTypes ==
  ASSUME TypeInv, \/ \E c \in Callers : Gns3Request(c)
                  \/ Cleanup
  PROVE  TypeInv'
<1>1. ASSUME NEW c \in Callers, NEW u \in Hosted, StartSession(c, u) PROVE TypeInv'
  <2> DEFINE w == [NoWork EXCEPT !.op = "start", !.user = {u}, !.todo = {NewRow}]
  <2>1. w \in Work
    <3>1. {NewRow} \in SUBSET (0..MaxSessions) /\ {u} \in SUBSET Hosted
      BY Gns3Assumption DEF NewRow
    <3> QED
      BY <3>1, NoWorkHandled DEF Work
  <2>2. HandledWell(c, w, DOMAIN sessions)
    BY Gns3Assumption, <1>1 DEF HandledWell, Starts, NoWork
  <2> QED
    BY <1>1, <2>1, <2>2, EnterTypes DEF StartSession, Workers
<1>2. ASSUME NEW c \in Workers, NEW rows, rows \subseteq DOMAIN sessions, rows # {},
             Enter(c, [NoWork EXCEPT !.op = "stop", !.todo = rows])
      PROVE  TypeInv'
  <2> DEFINE w == [NoWork EXCEPT !.op = "stop", !.todo = rows]
  <2>1. w \in Work /\ HandledWell(c, w, DOMAIN sessions) /\ w.op = "stop"
    BY <1>2, StopWell DEF NoWork
  <2> HIDE DEF w
  <2>2. Enter(c, w)
    BY <1>2 DEF w
  <2> QED
    BY <2>1, <2>2, EnterTypes
<1>3. ASSUME NEW c \in Callers, NEW u \in Hosted, StopSession(c, u) PROVE TypeInv'
  <2>1. PICK i \in Running(u) : Enter(c, [NoWork EXCEPT !.op = "stop", !.todo = {i}])
    BY <1>3 DEF StopSession
  <2> QED
    BY <1>2, <2>1, RunningRows DEF Workers
<1>4. ASSUME NEW c \in Callers, ForceStopAll(c) PROVE TypeInv'
  BY <1>2, <1>4, RunningRows DEF ForceStopAll, Workers
<1>5. ASSUME Cleanup PROVE TypeInv'
  <2>1. PICK rows \in SUBSET RunningIds : rows # {} /\ Enter(Cleaner, [NoWork EXCEPT !.op = "stop", !.todo = rows])
    BY <1>5 DEF Cleanup
  <2> QED
    BY <1>2, <2>1, RunningRows DEF Workers
<1>6. ASSUME NEW c \in Callers, NEW u \in Hosted, ExtendSession(c, u) PROVE TypeInv'
  <2>1. PICK i \in Running(u) :
          /\ sessions[i].extended < MaxExtensions
          /\ Enter(c, [NoWork EXCEPT !.op = "extend", !.todo = {i}, !.extended = sessions[i].extended])
    BY <1>6 DEF ExtendSession
  <2>2. i \in DOMAIN sessions /\ i \in 0..MaxSessions /\ sessions[i].extended \in 0..MaxExtensions
    BY RunningRows, RowIds DEF TypeInv, Session
  <2> DEFINE w == [NoWork EXCEPT !.op = "extend", !.todo = {i}, !.extended = sessions[i].extended]
  <2>3. w \in Work
    BY <2>2, NoWorkHandled DEF Work
  <2>4. /\ w.op = "extend" /\ w.user = {} /\ w.todo = {i} /\ w.extended = sessions[i].extended
    BY DEF NoWork
  <2>5. HandledWell(c, w, DOMAIN sessions)
    BY <2>1, <2>2, <2>4, Gns3Assumption DEF HandledWell, Extends
  <2>6. Enter(c, w)
    BY <2>1
  <2> HIDE DEF w
  <2> QED
    BY <2>3, <2>4, <2>5, <2>6, EnterTypes DEF Workers
<1> QED
  BY <1>1, <1>3, <1>4, <1>5, <1>6 DEF Gns3Request

LEMMA RowExtended ==
  ASSUME Gns3TypeOK, NEW i \in DOMAIN sessions, NEW n \in 0..MaxExtensions,
         sessions' = [sessions EXCEPT ![i].extended = n]
  PROVE  /\ sessions' \in Seq(Session) /\ Len(sessions') = Len(sessions) /\ DOMAIN sessions' = DOMAIN sessions
         /\ \A j \in DOMAIN sessions : /\ sessions'[j].user = sessions[j].user
                                        /\ sessions'[j].running = sessions[j].running
                                        /\ sessions'[j].port = sessions[j].port
<1>1. sessions[i] \in Session /\ [sessions[i] EXCEPT !.extended = n] \in Session
  <2>1. sessions[i] \in Session
    BY RowIds
  <2> QED
    BY <2>1 DEF Session
<1>2. sessions' = [sessions EXCEPT ![i] = [sessions[i] EXCEPT !.extended = n]]
  BY DEF Gns3TypeOK
<1>3. sessions' \in Seq(Session) /\ Len(sessions') = Len(sessions) /\ DOMAIN sessions' = DOMAIN sessions
  BY <1>1, <1>2 DEF Gns3TypeOK
<1> QED
  BY <1>1, <1>2, <1>3 DEF Session, Gns3TypeOK

LEMMA ExtendSaveTypes ==
  ASSUME TypeInv, NEW c \in Workers, ExtendSave(c)
  PROVE  TypeInv' /\ \E i \in DOMAIN sessions, n \in 0..MaxExtensions :
                       sessions' = [sessions EXCEPT ![i].extended = n]
<1>1. PICK i \in DOMAIN sessions : works[c].todo = {i}
  BY DEF TypeInv, Handled, HandledWell, Extends, ExtendSave
<1>2. NextRow(c) = i
  <2>1. works[c].todo \subseteq Nat
    BY <1>1, RowIds DEF TypeInv
  <2> QED
    BY <1>1, <2>1, NextRowTodo
<1>3. works[c].extended + 1 \in 0..MaxExtensions
  BY Gns3Assumption DEF TypeInv, Gns3TypeOK, Handled, HandledWell, Extends, ExtendSave, Work
<1>4. sessions' = [sessions EXCEPT ![i].extended = works[c].extended + 1]
  BY <1>2 DEF ExtendSave
<1>5. sessions' \in Seq(Session) /\ Len(sessions') = Len(sessions) /\ DOMAIN sessions' = DOMAIN sessions
  BY <1>3, <1>4, RowExtended DEF TypeInv
<1>6. works' \in [Workers -> Work] /\ \A d \in Workers : Handled(d)'
  BY <1>5, NoWorkHandled DEF ExtendSave, TypeInv, Gns3TypeOK, Handled
<1>7. Starting' = Starting
  BY NoWorkHandled DEF ExtendSave, TypeInv, Gns3TypeOK, Starting, Workers
<1>8. Places'
  BY <1>5, <1>7 DEF TypeInv, Places
<1>9. Gns3TypeOK'
  BY <1>5, <1>6 DEF TypeInv, Gns3TypeOK, ExtendSave
<1> QED
  BY <1>3, <1>4, <1>6, <1>8, <1>9 DEF TypeInv

LEMMA CallTypes ==
  ASSUME TypeInv, NEW c \in Workers,
         \/ SendCommand(c) \/ ReadAnswer(c)
         \/ LauncherUnreachable(c) \/ AnswerLost(c) \/ ConnectionBroken(c) \/ Aborted(c)
  PROVE  TypeInv'
<1>1. works[c] \in Work /\ HandledWell(c, works[c], DOMAIN sessions)
  BY DEF TypeInv, Gns3TypeOK, Handled
<1>2. conns \subseteq Connection /\ faults \in 0..MaxFaults
      /\ trust \in [Hosted -> {"agrees", "mending", "astray"}]
  BY DEF TypeInv, Gns3TypeOK
<1>3. ASSUME NEW users, Fault(users)
      PROVE  faults' \in 0..MaxFaults /\ trust' \in [Hosted -> {"agrees", "mending", "astray"}]
  BY <1>2, <1>3, AstrayTyped, Gns3Assumption DEF Fault
<1>4. CASE SendCommand(c)
  <2> DEFINE w == [works[c] EXCEPT !.at = "await"]
  <2>1. PICK v \in Hosted : Addressed(c) = {v}
    BY <1>4, AddressedOne DEF SendCommand
  <2>2. conns' \subseteq Connection
    <3>1. conns' = conns \cup {[by |-> c, user |-> v, op |-> works[c].op, at |-> "received", port |-> 0, left |-> FALSE]}
      BY <1>4, <2>1 DEF SendCommand
    <3>2. works[c].op \in {"start", "stop"}
      BY <1>4 DEF SendCommand, Calling, CallsLauncher
    <3>3. [by |-> c, user |-> v, op |-> works[c].op, at |-> "received", port |-> 0, left |-> FALSE] \in Connection
      BY <3>2 DEF Connection
    <3> QED
      BY <1>2, <3>1, <3>3
  <2>3. w \in Work /\ w.op = works[c].op /\ w.todo = works[c].todo /\ w.done = works[c].done
        /\ w.user = works[c].user /\ w.at = "await" /\ works[c].at = "call" /\ works[c].op \in {"start", "stop"}
    BY <1>1, <1>4 DEF Work, SendCommand, Calling, CallsLauncher
  <2>4. works' = [works EXCEPT ![c] = w]
    BY <1>4 DEF SendCommand, TypeInv, Gns3TypeOK
  <2> HIDE DEF w
  <2>5. HandledWell(c, w, DOMAIN sessions)
    BY <1>1, <2>3 DEF HandledWell, Starts, Stops
  <2> QED
    BY <1>2, <1>4, <2>2, <2>3, <2>4, <2>5, TypesByWork DEF SendCommand
<1>5. CASE ReadAnswer(c)
  <2>1. PICK k \in ConnOf(c) :
          /\ conns' = conns \ {k}
          /\ works' = [works EXCEPT ![c] = IF k.at = "ok" THEN Succeeded(c, k.port) ELSE Failed(c)]
    BY <1>5 DEF ReadAnswer
  <2> DEFINE w == IF k.at = "ok" THEN Succeeded(c, k.port) ELSE Failed(c)
  <2>2. Awaiting(c) /\ k.port \in InstancePorts \cup {0} /\ works[c].op # "none"
    BY <1>2, <1>5 DEF ReadAnswer, ConnOf, Connection, Awaiting, CallsLauncher
  <2>3. w \in Work /\ HandledWell(c, w, DOMAIN sessions) /\ w.op \in {"none", works[c].op}
    BY <2>2, SucceededWell, FailedWell
  <2> HIDE DEF w
  <2>4. works' = [works EXCEPT ![c] = w] /\ conns' \subseteq Connection
    BY <1>2, <2>1 DEF w
  <2> QED
    BY <1>2, <1>5, <2>3, <2>4, TypesByWork DEF ReadAnswer
<1>6. ASSUME NEW w, w \in {Failed(c), Retried(c), NoWork}, Calling(c) \/ Awaiting(c) \/ w = NoWork,
             works' = [works EXCEPT ![c] = w],
             UNCHANGED << sessions, units, envs, clock >>, conns' \subseteq Connection, faults' \in 0..MaxFaults,
             trust' \in [Hosted -> {"agrees", "mending", "astray"}]
      PROVE  TypeInv'
  <2>1. w \in Work /\ HandledWell(c, w, DOMAIN sessions) /\ (w.op = "start" => works[c].op = "start")
    BY <1>6, FailedWell, NoWorkHandled
  <2> QED
    BY <1>6, <2>1, TypesByWork
<1>7. CASE LauncherUnreachable(c)
  BY <1>2, <1>3, <1>6, <1>7 DEF LauncherUnreachable
<1>8. CASE AnswerLost(c)
  BY <1>2, <1>3, <1>6, <1>8, AbandonedTyped DEF AnswerLost
<1>9. CASE ConnectionBroken(c)
  BY <1>2, <1>6, <1>9 DEF ConnectionBroken
<1>10. CASE Aborted(c)
  BY <1>2, <1>3, <1>6, <1>10 DEF Aborted
<1> QED
  BY <1>4, <1>5, <1>7, <1>8, <1>9, <1>10

\* The save of a start appends a row, and that of a stop ends some.
LEMMA StartSaved ==
  ASSUME TypeInv, NEW c \in Workers, Save(c), works[c].op = "start"
  PROVE  /\ TypeInv'
         /\ \E v \in Hosted : /\ works[c].user = {v}
                              /\ sessions' = Append(sessions, [user |-> v, start |-> clock, extended |-> 0,
                                                              port |-> works[c].port, running |-> TRUE])
         /\ works[c].todo = {} /\ works[c].done = {NewRow}
         /\ Len(sessions') = Len(sessions) + 1
         /\ \A i \in DOMAIN sessions : i \in DOMAIN sessions' /\ sessions'[i] = sessions[i]
<1>1. works[c] \in Work /\ Starts(works[c]) /\ works[c].at = "save" /\ c # Cleaner
  BY DEF TypeInv, Gns3TypeOK, Handled, HandledWell, Save
<1>2. PICK v \in Hosted : works[c].user = {v}
  BY <1>1 DEF Starts
<1> DEFINE row == [user |-> v, start |-> clock, extended |-> 0, port |-> works[c].port, running |-> TRUE]
<1>3. sessions' = Append(sessions, row)
  BY <1>2 DEF Save, SavedRows
<1>4. row \in Session
  BY <1>1, Gns3Assumption DEF Session, Work, TypeInv, Gns3TypeOK
<1> HIDE DEF row
<1>5. /\ sessions \in Seq(Session) /\ sessions' \in Seq(Session) /\ Len(sessions') = Len(sessions) + 1
      /\ Len(sessions) \in Nat
      /\ \A i \in DOMAIN sessions : i \in DOMAIN sessions' /\ sessions'[i] = sessions[i]
  BY <1>3, <1>4 DEF TypeInv, Gns3TypeOK
<1>6. works' = [works EXCEPT ![c] = NoWork] /\ works' \in [Workers -> Work]
  BY NoWorkHandled DEF Save, TypeInv, Gns3TypeOK
<1>7. \A d \in Workers : Handled(d)'
  <2>1. ASSUME NEW d \in Workers, HandledWell(d, works[d], DOMAIN sessions)
        PROVE  HandledWell(d, works[d], DOMAIN sessions')
    BY <1>5, <2>1 DEF HandledWell, Stops, Extends
  <2> QED
    BY <1>6, <2>1, NoWorkHandled DEF TypeInv, Gns3TypeOK, Handled
<1>8. Len(sessions') + Cardinality(Starting') <= MaxSessions /\ Cardinality(Starting') \in Nat
  <2>1. c \in Starting /\ Starting' = Starting \ {c}
    BY <1>1, <1>6, NoWorkHandled DEF Starting, Workers, TypeInv, Gns3TypeOK
  <2>2. Cardinality(Starting') = Cardinality(Starting) - 1
    BY <2>1, StartingFinite, FS_RemoveElement
  <2>3. Cardinality(Starting) \in Nat /\ Cardinality(Starting') \in Nat
    BY StartingFinite, FS_CardinalityType
  <2> QED
    BY <1>5, <2>2, <2>3, Gns3Assumption DEF TypeInv, Places
<1>9. Len(sessions') <= MaxSessions
  BY <1>5, <1>8, Gns3Assumption
<1>10. trust' \in [Hosted -> {"agrees", "mending", "astray"}]
  BY DEF Save, TypeInv, Gns3TypeOK
<1>11. TypeInv'
  BY <1>5, <1>6, <1>7, <1>8, <1>9, <1>10 DEF TypeInv, Places, Gns3TypeOK, Save
<1> QED
  BY <1>1, <1>2, <1>3, <1>5, <1>11 DEF row, Starts

LEMMA StopSaved ==
  ASSUME TypeInv, NEW c \in Workers, Save(c), works[c].op = "stop"
  PROVE  /\ TypeInv'
         /\ sessions' = [i \in DOMAIN sessions |->
                            [sessions[i] EXCEPT !.running = sessions[i].running /\ i \notin works[c].done]]
         /\ works[c].todo = {}
<1>1. sessions' = [i \in DOMAIN sessions |->
                     [sessions[i] EXCEPT !.running = sessions[i].running /\ i \notin works[c].done]]
  BY DEF Save, SavedRows
<1>2. DOMAIN sessions = 1..Len(sessions) /\ Len(sessions) \in Nat
  BY RowIds DEF TypeInv
<1>3. \A i \in DOMAIN sessions : sessions'[i] \in Session
  BY <1>1, RowIds DEF TypeInv, Session
<1>4. sessions' \in Seq(Session) /\ Len(sessions') = Len(sessions) /\ DOMAIN sessions' = DOMAIN sessions
  BY <1>1, <1>2, <1>3
<1>5. works' = [works EXCEPT ![c] = NoWork] /\ works' \in [Workers -> Work]
  BY NoWorkHandled DEF Save, TypeInv, Gns3TypeOK
<1>6. \A d \in Workers : Handled(d)'
  BY <1>4, <1>5, NoWorkHandled DEF TypeInv, Gns3TypeOK, Handled
<1>7. Starting' = Starting
  BY <1>5, NoWorkHandled DEF Starting, Workers, TypeInv, Gns3TypeOK
<1>8. trust' \in [Hosted -> {"agrees", "mending", "astray"}]
  BY DEF Save, TypeInv, Gns3TypeOK
<1>9. TypeInv'
  BY <1>4, <1>5, <1>6, <1>7, <1>8 DEF TypeInv, Places, Gns3TypeOK, Save
<1>10. works[c].todo = {}
  BY DEF TypeInv, Handled, HandledWell, Stops, Save
<1> QED
  BY <1>1, <1>9, <1>10

LEMMA LauncherTypes ==
  ASSUME TypeInv, NEW k \in conns, LauncherStep(k)
  PROVE  TypeInv'
<1>1. k \in Connection /\ conns \subseteq Connection /\ k.user \in Hosted
  BY DEF TypeInv, Gns3TypeOK, Connection
<1>2. /\ units \in [Hosted -> [state : {"off", "active", "listening", "restarting"}, port : InstancePorts \cup {0}]]
      /\ envs \in [Hosted -> InstancePorts \cup {0}]
      /\ faults \in 0..MaxFaults
      /\ trust \in [Hosted -> {"agrees", "mending", "astray"}]
  BY DEF TypeInv, Gns3TypeOK
<1>3. ASSUME NEW at \in {"received", "allocate", "launch", "ok", "err"}, NEW p \in InstancePorts \cup {0},
             Reply(k, at, p)
      PROVE  conns' \subseteq Connection
  <2>1. [k EXCEPT !.at = at, !.port = p] \in Connection
    BY <1>1 DEF Connection
  <2> QED
    BY <1>1, <1>3, <2>1 DEF Reply
<1>4. /\ Started(k.user) \in [state : {"off", "active", "listening", "restarting"}, port : InstancePorts \cup {0}]
      /\ Off \in [state : {"off", "active", "listening", "restarting"}, port : InstancePorts \cup {0}]
  BY <1>1, <1>2 DEF Started, Off
<1>5. CASE StartTest(k)
  <2>1. conns' \subseteq Connection
    BY <1>1, <1>2, <1>3, <1>5 DEF StartTest
  <2> QED
    BY <1>5, <2>1, TypesByOthers DEF StartTest, TypeInv, Gns3TypeOK
<1>6. CASE Allocate(k)
  <2>1. PICK p \in InstancePorts : Allocated(k, p)
    BY <1>6 DEF Allocate
  <2>2. conns' \subseteq Connection
    BY <1>3, <2>1 DEF Allocated
  <2>3. envs' \in [Hosted -> InstancePorts \cup {0}]
    BY <1>2, <2>1 DEF Allocated
  <2>4. trust' \in [Hosted -> {"agrees", "mending", "astray"}]
    BY <1>2, <2>1, AstrayTyped DEF Allocated
  <2> QED
    BY <1>6, <2>2, <2>3, <2>4, TypesByOthers DEF Allocate, TypeInv, Gns3TypeOK
<1>7. CASE Launch(k)
  <2>1. conns' \subseteq Connection
    BY <1>1, <1>3, <1>7 DEF Launch, Connection
  <2>2. units' \in [Hosted -> [state : {"off", "active", "listening", "restarting"}, port : InstancePorts \cup {0}]]
    BY <1>2, <1>4, <1>7 DEF Launch
  <2> QED
    BY <1>7, <2>1, <2>2, TypesByOthers DEF Launch, TypeInv, Gns3TypeOK
<1>8. CASE StopUnit(k)
  <2>1. conns' \subseteq Connection
    BY <1>3, <1>8 DEF StopUnit
  <2>2. units' \in [Hosted -> [state : {"off", "active", "listening", "restarting"}, port : InstancePorts \cup {0}]]
    BY <1>2, <1>4, <1>8 DEF StopUnit
  <2> QED
    BY <1>8, <2>1, <2>2, TypesByOthers DEF StopUnit, TypeInv, Gns3TypeOK
<1>9. CASE CommandFails(k)
  <2>1. conns' \subseteq Connection
    BY <1>3, <1>9 DEF CommandFails
  <2>2. units' \in [Hosted -> [state : {"off", "active", "listening", "restarting"}, port : InstancePorts \cup {0}]]
    BY <1>1, <1>2, <1>9 DEF CommandFails
  <2>3. faults' \in 0..MaxFaults /\ trust' \in [Hosted -> {"agrees", "mending", "astray"}]
    BY <1>2, <1>9, AstrayTyped, Gns3Assumption DEF CommandFails, Fault
  <2> QED
    BY <1>9, <2>1, <2>2, <2>3, TypesByOthers DEF CommandFails, TypeInv, Gns3TypeOK
<1>10. CASE Unheard(k)
  BY <1>1, <1>10, TypesByOthers DEF Unheard, TypeInv, Gns3TypeOK
<1> QED
  BY <1>5, <1>6, <1>7, <1>8, <1>9, <1>10 DEF LauncherStep

LEMMA MachineTypes ==
  ASSUME TypeInv, \/ \E u \in Hosted : UnitStep(u)
                  \/ ApiRestarts \/ HostRestarts \/ ClockTicks
  PROVE  TypeInv'
<1>1. /\ units \in [Hosted -> [state : {"off", "active", "listening", "restarting"}, port : InstancePorts \cup {0}]]
      /\ envs \in [Hosted -> InstancePorts \cup {0}]
      /\ faults \in 0..MaxFaults
  BY DEF TypeInv, Gns3TypeOK
<1>2. ASSUME NEW users, Fault(users)
      PROVE  faults' \in 0..MaxFaults /\ trust' \in [Hosted -> {"agrees", "mending", "astray"}]
  BY <1>1, <1>2, AstrayTyped, Gns3Assumption DEF Fault
<1>3. ASSUME NEW u \in Hosted, UnitStep(u) PROVE TypeInv'
  <2>1. units' \in [Hosted -> [state : {"off", "active", "listening", "restarting"}, port : InstancePorts \cup {0}]]
    BY <1>1, <1>3 DEF UnitStep, Bind, Respawn, Crash, Started
  <2>2. faults' \in 0..MaxFaults
    BY <1>1, <1>3, Gns3Assumption DEF UnitStep, Bind, Respawn, Crash
  <2>3. UNCHANGED << sessions, envs, conns, works, clock, trust >>
    BY <1>3 DEF UnitStep, Bind, Respawn, Crash
  <2>4. Gns3TypeOK'
    BY <2>1, <2>2, <2>3 DEF TypeInv, Gns3TypeOK
  <2> QED
    BY <2>3, <2>4, TypesByOthers
<1>4. CASE ApiRestarts
  <2>1. \A c \in Workers : works'[c] = NoWork
    BY <1>4 DEF ApiRestarts
  <2>2. works' \in [Workers -> Work] /\ \A c \in Workers : Handled(c)'
    BY <1>4, <2>1, NoWorkHandled DEF ApiRestarts, Handled
  <2>3. Starting' = {}
    BY <2>1, NoWorkHandled DEF Starting, Workers
  <2>4. Places'
    BY <1>4, <2>3, FS_EmptySet, Gns3Assumption DEF ApiRestarts, Places, TypeInv, Gns3TypeOK
  <2>5. conns' \subseteq Connection
    BY <1>4, AbandonedTyped DEF ApiRestarts
  <2>6. faults' \in 0..MaxFaults /\ trust' \in [Hosted -> {"agrees", "mending", "astray"}]
    BY <1>2, <1>4 DEF ApiRestarts
  <2> QED
    BY <1>4, <2>2, <2>4, <2>5, <2>6 DEF ApiRestarts, TypeInv, Gns3TypeOK
<1>5. CASE HostRestarts
  <2>1. units' \in [Hosted -> [state : {"off", "active", "listening", "restarting"}, port : InstancePorts \cup {0}]]
    BY <1>5 DEF HostRestarts, Off
  <2>2. faults' \in 0..MaxFaults /\ trust' \in [Hosted -> {"agrees", "mending", "astray"}]
    BY <1>2, <1>5 DEF HostRestarts
  <2> QED
    BY <1>5, <2>1, <2>2, TypesByOthers DEF HostRestarts, TypeInv, Gns3TypeOK
<1>6. CASE ClockTicks
  BY <1>6, TypesByOthers, Gns3Assumption DEF ClockTicks, TypeInv, Gns3TypeOK
<1> QED
  BY <1>3, <1>4, <1>5, <1>6

LEMMA NextTypes ==
  ASSUME TypeInv, [Gns3Next]_gns3Vars
  PROVE  TypeInv'
<1>1. ASSUME NEW c \in Workers, HandlerStep(c) PROVE TypeInv'
  <2>1. CASE Save(c)
    BY <2>1, StartSaved, StopSaved DEF Save, CallsLauncher
  <2> QED
    BY <1>1, <2>1, ExtendSaveTypes, CallTypes DEF HandlerStep
<1>2. CASE UNCHANGED gns3Vars
  BY <1>2, TypesByOthers DEF gns3Vars, TypeInv, Gns3TypeOK
<1> QED
  BY <1>1, <1>2, RequestTypes, LauncherTypes, MachineTypes DEF Gns3Next

\* Type correctness: rows, ports and times stay within their limits, whatever
\* overlaps and fails; a start keeps a place for the row it is going to append.
THEOREM Gns3TypeCorrect == Gns3Spec => []Gns3TypeOK
<1>1. TypeInv => Gns3TypeOK
  BY DEF TypeInv
<1> QED
  BY <1>1, InitTypes, NextTypes, PTL DEF Gns3Spec

(***************************************************************************)
(* Users whose handlers did not meet.                                      *)
(***************************************************************************)
LEMMA UsersByRows ==
  ASSUME NEW w, NEW u
  PROVE  u \in UsersOf(w) <=> u \in w.user \/ RowsOf(w, u) # {}
BY DEF UsersOf, RowsOf

LEMMA WorkingByRows ==
  ASSUME TypeInv, NEW u \in Hosted
  PROVE  WorkingFor(u) = {c \in Workers : \/ works[c].op = "start" /\ works[c].user = {u}
                                          \/ works[c].op = "stop" /\ RowsFor(c, u) # {}}
<1>1. ASSUME NEW c \in Workers, CallsLauncher(c)
      PROVE  u \in UsersOf(works[c]) <=> \/ works[c].op = "start" /\ works[c].user = {u}
                                         \/ works[c].op = "stop" /\ RowsFor(c, u) # {}
  <2>1. HandledWell(c, works[c], DOMAIN sessions)
    BY DEF TypeInv, Handled
  <2>2. CASE works[c].op = "start"
    <3>1. \E v \in Hosted : works[c].user = {v}
      BY <2>1, <2>2 DEF HandledWell, Starts
    <3>2. works[c].todo \cup works[c].done = {NewRow}
      BY <2>1, <2>2 DEF HandledWell, Starts
    <3>3. RowsOf(works[c], u) = {}
      BY <3>2 DEF RowsOf
    <3> QED
      BY <2>2, <3>1, <3>3, UsersByRows
  <2>3. CASE works[c].op = "stop"
    <3>1. works[c].user = {}
      BY <2>1, <2>3 DEF HandledWell, Stops
    <3>2. u \in UsersOf(works[c]) <=> RowsOf(works[c], u) # {}
      BY <3>1, UsersByRows
    <3> QED
      BY <2>3, <3>2 DEF RowsFor
  <2> QED
    BY <1>1, <2>2, <2>3 DEF CallsLauncher
<1> QED
  BY <1>1 DEF WorkingFor, CallsLauncher

\* The connection of a user is that of the one handler that works for the user.
LEMMA OneConnection ==
  ASSUME TypeInv, Heard, NEW u \in Hosted, Alone(u), NEW k \in ConnsFor(u)
  PROVE  /\ k \in conns /\ k.user = u /\ ~ k.left /\ k.by \in Workers
         /\ Awaiting(k.by) /\ Addressed(k.by) = {u} /\ k.op = works[k.by].op
         /\ WorkingFor(u) = {k.by} /\ ConnsFor(u) = {k} /\ ConnOf(k.by) = {k}
<1>1. k \in conns /\ k.user = u /\ ~ k.left /\ k.by \in Workers
  BY DEF ConnsFor, Alone, TypeInv, Gns3TypeOK, Connection
<1>2. Awaiting(k.by) /\ u \in Addressed(k.by) /\ k.op = works[k.by].op
  BY <1>1 DEF Heard
<1>3. Addressed(k.by) = {u} /\ k.by \in WorkingFor(u)
  BY <1>1, <1>2, AddressedOne
<1>4. WorkingFor(u) = {k.by}
  BY <1>3 DEF Alone
<1>5. ConnOf(k.by) = {k}
  BY <1>1 DEF ConnOf, Heard
<1>6. ASSUME NEW l \in ConnsFor(u) PROVE l = k
  <2>1. l \in conns /\ l.user = u /\ ~ l.left /\ l.by \in Workers
    BY DEF ConnsFor, Alone, TypeInv, Gns3TypeOK, Connection
  <2>2. Awaiting(l.by) /\ u \in Addressed(l.by)
    BY <2>1 DEF Heard
  <2>3. l.by \in WorkingFor(u)
    BY <2>1, <2>2, AddressedOne
  <2> QED
    BY <1>1, <1>4, <2>1, <2>3 DEF Heard
<1> QED
  BY <1>1, <1>2, <1>3, <1>4, <1>5, <1>6

\* What is done for a user stays the same.
LEMMA Frame ==
  ASSUME NEW u \in Hosted, Settled(u),
         trust'[u] \in {trust[u], "astray"},
         WorkingFor(u)' = WorkingFor(u),
         \A c \in WorkingFor(u) :
           /\ works'[c].op = works[c].op
           /\ works[c].op = "stop" => RowsFor(c, u)' = RowsFor(c, u) /\ DoneFor(c, u)' = DoneFor(c, u)
           /\ works[c].op = "start" => works'[c].at = works[c].at /\ works'[c].port = works[c].port
           /\ AwaitsFor(c, u)' => AwaitsFor(c, u),
         ConnsFor(u)' = ConnsFor(u),
         Running(u)' = Running(u), \A i \in Running(u) : sessions'[i].port = sessions[i].port,
         units[u].state = "off" => units'[u].state = "off",
         envs'[u] = envs[u],
         units[u].state # "off" /\ units[u].port = envs[u] =>
           units'[u].state # "off" /\ units'[u].port = envs[u]
  PROVE  Settled(u)'
<1> SUFFICES ASSUME trust'[u] # "astray"
    PROVE  Alone(u)' /\ StopUnderWay(u)' /\ StartUnderWay(u)' /\ AtRest(u)'
  BY DEF Settled
<1>1. trust'[u] = trust[u] /\ Alone(u) /\ StopUnderWay(u) /\ StartUnderWay(u) /\ AtRest(u)
  BY DEF Settled
<1>2. Alone(u)'
  BY <1>1 DEF Alone
<1> DEFINE Still == \A q : Serves(u, q) => units'[u].state # "off" /\ units'[u].port = q /\ envs'[u] = q
<1>6. Still
  BY DEF Serves
<1>3. StopUnderWay(u)'
  <2> SUFFICES ASSUME NEW c \in WorkingFor(u), works[c].op = "stop"
      PROVE  /\ RowsFor(c, u)' \subseteq Running(u)'
             /\ Stopped(c, u)' => units'[u].state = "off"
             /\ \A k \in ConnsFor(u) : k.at \in {"received", "ok"}
             /\ trust'[u] = "agrees" =>
                  \E i \in Running(u) : /\ Running(u) = {i}
                                        /\ Stopped(c, u)' \/ Serves(u, sessions[i].port)'
    BY DEF StopUnderWay
  <2>1. Stopped(c, u)' <=> Stopped(c, u)
    BY DEF Stopped
  <2>2. ASSUME trust[u] = "agrees"
        PROVE  \E i \in Running(u) : Running(u) = {i} /\ (Stopped(c, u)' \/ Serves(u, sessions[i].port)')
    <3>1. PICK i \in Running(u) : Running(u) = {i} /\ (Stopped(c, u) \/ Serves(u, sessions[i].port))
      BY <1>1, <2>2 DEF StopUnderWay
    <3>2. Serves(u, sessions[i].port) => Serves(u, sessions[i].port)'
      BY <1>6, sessions'[i].port = sessions[i].port DEF Serves
    <3> QED
      BY <2>1, <3>1, <3>2
  <2> QED
    BY <1>1, <2>1, <2>2 DEF StopUnderWay
<1>4. StartUnderWay(u)'
  BY <1>1, <1>6 DEF StartUnderWay, Serves
<1>5. AtRest(u)'
  <2>1. Serving(u) => Serving(u)'
    BY <1>6 DEF Serving, Serves
  <2> QED
    BY <1>1, <2>1 DEF AtRest
<1> QED
  BY <1>2, <1>3, <1>4, <1>5

\* A handler that takes no step goes on doing the same for a user, whatever is
\* saved of other columns or rows.
LEMMA OtherWorkers ==
  ASSUME TypeInv, \A i \in DOMAIN sessions : i \in DOMAIN sessions' /\ sessions'[i].user = sessions[i].user,
         NEW d \in Workers, works'[d] = works[d], NEW u \in Hosted
  PROVE  /\ d \in WorkingFor(u)' <=> d \in WorkingFor(u)
         /\ d \in WorkingFor(u) => /\ RowsFor(d, u)' = RowsFor(d, u) /\ DoneFor(d, u)' = DoneFor(d, u)
                                   /\ AwaitsFor(d, u)' <=> AwaitsFor(d, u)
<1>1. HandledWell(d, works[d], DOMAIN sessions)
  BY DEF TypeInv, Handled
<1>2. CASE works[d].op = "start"
  <2>1. works[d].todo \subseteq {NewRow} /\ works[d].done \subseteq {NewRow}
    BY <1>1, <1>2 DEF HandledWell, Starts
  <2>2. d \in WorkingFor(u) <=> u \in works[d].user
    BY <1>2, <2>1 DEF WorkingFor, UsersOf, CallsLauncher
  <2>3. d \in WorkingFor(u)' <=> u \in works[d].user
    BY <1>2, <2>1 DEF WorkingFor, UsersOf, CallsLauncher
  <2>4. RowsFor(d, u)' = RowsFor(d, u) /\ DoneFor(d, u)' = DoneFor(d, u)
    BY <2>1 DEF RowsFor, RowsOf, DoneFor
  <2>5. AwaitsFor(d, u)' <=> AwaitsFor(d, u)
    BY <1>2 DEF AwaitsFor, Awaiting, CallsLauncher, Addressed
  <2> QED
    BY <2>2, <2>3, <2>4, <2>5
<1>3. CASE works[d].op = "stop"
  <2>1. works[d].todo \cup works[d].done \subseteq DOMAIN sessions /\ works[d].user = {}
        /\ ((works[d].at = "save") <=> (works[d].todo = {}))
    BY <1>1, <1>3 DEF HandledWell, Stops
  <2>2. RowsFor(d, u)' = RowsFor(d, u)
    BY <2>1 DEF RowsFor, RowsOf
  <2>3. DoneFor(d, u)' = DoneFor(d, u)
    BY <2>2 DEF DoneFor
  <2>4. d \in WorkingFor(u) <=> RowsFor(d, u) # {}
    BY <1>3, <2>1 DEF WorkingFor, UsersOf, CallsLauncher, RowsFor, RowsOf
  <2>5. d \in WorkingFor(u)' <=> RowsFor(d, u)' # {}
    BY <1>3, <2>1 DEF WorkingFor, UsersOf, CallsLauncher, RowsFor, RowsOf
  <2>6. CASE Awaiting(d)
    <3>1. NextRow(d)' = NextRow(d)
      BY DEF NextRow
    <3>2. NextRow(d) \in DOMAIN sessions
      BY <1>3, <2>6, AddressedOne
    <3>3. Addressed(d)' = Addressed(d)
      BY <1>3, <3>1, <3>2 DEF Addressed
    <3>4. Awaiting(d)' <=> Awaiting(d)
      BY DEF Awaiting, CallsLauncher
    <3> QED
      BY <2>2, <2>3, <2>4, <2>5, <3>3, <3>4 DEF AwaitsFor
  <2>7. CASE ~ Awaiting(d)
    <3>1. ~ Awaiting(d)'
      BY <2>7 DEF Awaiting, CallsLauncher
    <3> QED
      BY <2>2, <2>3, <2>4, <2>5, <2>7, <3>1 DEF AwaitsFor
  <2> QED
    BY <2>6, <2>7
<1>4. CASE works[d].op \notin {"start", "stop"}
  BY <1>4 DEF WorkingFor, CallsLauncher
<1> QED
  BY <1>2, <1>3, <1>4

\* A handler takes a step that is nothing to a user.
LEMMA WorkFrame ==
  ASSUME TypeInv, NEW c \in Workers, NEW w, works' = [works EXCEPT ![c] = w], TypeInv',
         NEW u \in Hosted, Settled(u),
         sessions' = sessions, units' = units, envs' = envs,
         ConnsFor(u)' = ConnsFor(u), trust'[u] \in {trust[u], "astray"},
         \/ c \notin WorkingFor(u) /\ (w.op \in {"start", "stop"} => u \notin UsersOf(w))
         \/ /\ works[c].op = "stop" /\ w.op = "stop"
            /\ RowsOf(w, u) = RowsFor(c, u)
            /\ RowsOf(w, u) \cap w.done = DoneFor(c, u)
            /\ ~ AwaitsFor(c, u)'
  PROVE  Settled(u)'
<1>1. works'[c] = w /\ \A d \in Workers \ {c} : works'[d] = works[d]
  BY DEF TypeInv, Gns3TypeOK
<1>2. \A d \in Workers \ {c} :
        /\ d \in WorkingFor(u)' <=> d \in WorkingFor(u)
        /\ d \in WorkingFor(u) => /\ works'[d] = works[d]
                                  /\ RowsFor(d, u)' = RowsFor(d, u) /\ DoneFor(d, u)' = DoneFor(d, u)
                                  /\ AwaitsFor(d, u)' <=> AwaitsFor(d, u)
  BY <1>1, OtherWorkers
<1>3. c \in WorkingFor(u)' <=> w.op \in {"start", "stop"} /\ u \in UsersOf(w)
  BY <1>1 DEF WorkingFor, CallsLauncher, UsersOf
<1>5. WorkingFor(u) \subseteq Workers /\ WorkingFor(u)' \subseteq Workers
  BY DEF WorkingFor, Workers
<1>6. Running(u)' = Running(u)
  BY DEF Running
<1>7. CASE c \notin WorkingFor(u) /\ (w.op \in {"start", "stop"} => u \notin UsersOf(w))
  <2>1. WorkingFor(u)' = WorkingFor(u)
    BY <1>2, <1>3, <1>5, <1>7
  <2>2. \A d \in WorkingFor(u) : d \in Workers \ {c}
    BY <1>5, <1>7
  <2> QED
    BY <1>2, <1>6, <2>1, <2>2, Frame
<1>8. CASE /\ works[c].op = "stop" /\ w.op = "stop"
           /\ RowsOf(w, u) = RowsFor(c, u)
           /\ RowsOf(w, u) \cap w.done = DoneFor(c, u)
           /\ ~ AwaitsFor(c, u)'
  <2>1. RowsFor(c, u)' = RowsFor(c, u) /\ DoneFor(c, u)' = DoneFor(c, u)
    BY <1>1, <1>8 DEF RowsFor, RowsOf, DoneFor
  <2>2. c \in WorkingFor(u)' <=> c \in WorkingFor(u)
    <3>1. w.user = {}
      BY <1>1, <1>8 DEF TypeInv, Handled, HandledWell, Stops
    <3>2. u \in UsersOf(w) <=> RowsOf(w, u) # {}
      BY <3>1, UsersByRows
    <3> QED
      BY <1>3, <1>8, <3>2, WorkingByRows
  <2>3. WorkingFor(u)' = WorkingFor(u)
    BY <1>2, <1>5, <2>2
  <2>4. works'[c].op = "stop"
    BY <1>1, <1>8
  <2> QED
    BY <1>2, <1>5, <1>6, <1>8, <2>1, <2>3, <2>4, Frame
<1> QED
  BY <1>7, <1>8

(***************************************************************************)
(* The steps of handlers.                                                  *)
(***************************************************************************)
LEMMA EnterSettled ==
  ASSUME TypeInv, TypeInv', NEW c \in Workers, NEW w, Enter(c, w), HandledWell(c, w, DOMAIN sessions),
         w.op \in {"start", "stop", "extend"}, w.done = {}, w.at = "call",
         w.op = "start" => \A v \in w.user : Running(v) = {},
         w.op = "stop" => w.todo \subseteq RunningIds,
         NEW u \in Hosted, Settled(u)
  PROVE  Settled(u)'
<1>1. /\ works[c].op = "none" /\ works' = [works EXCEPT ![c] = w]
      /\ trust'[u] = IF u \notin UsersOf(w) \/ w.op = "extend" THEN trust[u]
                     ELSE IF Busy(u) THEN "astray"
                     ELSE IF w.op = "stop" /\ trust[u] = "astray" THEN "mending"
                     ELSE trust[u]
      /\ UNCHANGED << sessions, units, envs, conns >>
  BY DEF Enter
<1>2. c \notin WorkingFor(u) /\ ConnsFor(u)' = ConnsFor(u) /\ Running(u)' = Running(u)
  BY <1>1 DEF WorkingFor, CallsLauncher, ConnsFor, Running
<1>3. CASE u \notin UsersOf(w) \/ w.op = "extend"
  BY <1>1, <1>2, <1>3, WorkFrame
<1>4. CASE u \in UsersOf(w) /\ w.op # "extend" /\ Busy(u)
  BY <1>1, <1>4 DEF Settled
<1>5. CASE u \in UsersOf(w) /\ w.op # "extend" /\ ~ Busy(u)
  <2>1. WorkingFor(u) = {} /\ ConnsFor(u) = {}
    BY <1>5 DEF Busy, ConnsFor
  <2>2. works'[c] = w /\ \A d \in Workers \ {c} : works'[d] = works[d]
    BY <1>1 DEF TypeInv, Gns3TypeOK
  <2>3. WorkingFor(u)' \subseteq {c}
    <3>1. \A d \in Workers \ {c} : d \notin WorkingFor(u)'
      BY <1>1, <2>1, <2>2, OtherWorkers
    <3> QED
      BY <3>1 DEF WorkingFor, Workers
  <2>4. c \in WorkingFor(u)'
    BY <1>1, <1>5, <2>2 DEF WorkingFor, CallsLauncher, UsersOf
  <2>5. Alone(u)'
    <3>1. ~ AwaitsFor(c, u)'
      BY <2>2 DEF AwaitsFor, Awaiting
    <3> QED
      BY <1>2, <2>1, <2>3, <3>1 DEF Alone
  <2>6. AtRest(u)'
    BY <2>4 DEF AtRest
  <2>7. CASE w.op = "start"
    <3>1. CASE trust[u] = "astray"
      BY <1>1, <1>5, <2>7, <3>1 DEF Settled
    <3>2. CASE trust[u] # "astray"
      <4>1. trust'[u] = trust[u] /\ AtRest(u)
        BY <1>1, <1>5, <2>7, <3>2 DEF Settled
      <4>2. Running(u) = {}
        <5>1. w.todo \cup w.done = {NewRow}
          BY <2>7 DEF HandledWell, Starts
        <5>2. u \in w.user
          BY <1>5, <5>1 DEF UsersOf
        <5> QED
          BY <2>7, <5>2
      <4>3. trust[u] = "agrees" /\ units[u].state = "off"
        BY <2>1, <4>1, <4>2 DEF AtRest, Serving
      <4>4. StartUnderWay(u)'
        BY <1>1, <1>2, <2>1, <2>2, <2>3, <4>1, <4>2, <4>3 DEF StartUnderWay
      <4>5. StopUnderWay(u)'
        BY <2>2, <2>3, <2>7 DEF StopUnderWay
      <4> QED
        BY <2>5, <2>6, <4>4, <4>5 DEF Settled
    <3> QED
      BY <3>1, <3>2
  <2>8. CASE w.op = "stop"
    <3>1. w.user = {} /\ w.todo \cup w.done \subseteq DOMAIN sessions
      BY <2>8 DEF HandledWell, Stops
    <3>2. RowsFor(c, u)' \subseteq Running(u) /\ DoneFor(c, u)' = {}
      <4>1. RowsFor(c, u)' \subseteq RowsOf(w, u)
        BY <1>1, <2>2 DEF RowsFor, RowsOf
      <4>2. RowsOf(w, u) \subseteq Running(u)
        BY <2>8 DEF RowsOf, RunningIds, Running
      <4> QED
        BY <2>2, <4>1, <4>2 DEF DoneFor
    <3>3. Running(u) # {}
      BY <1>5, <2>8, <3>1, UsersByRows DEF RowsOf, RunningIds, Running
    <3>4. ~ Stopped(c, u)'
      BY <1>2, <2>1, <3>2 DEF Stopped
    <3>5. trust[u] # "astray" => trust[u] = "agrees" /\ Serving(u)
      BY <2>1, <3>3 DEF Settled, AtRest
    <3>6. trust'[u] = "agrees" => Serving(u)
      BY <1>1, <1>5, <2>8, <3>5
    <3>7. Serving(u) => Serving(u)'
      BY <1>1, <1>2 DEF Serving, Serves
    <3>8. StopUnderWay(u)'
      BY <1>2, <2>1, <2>3, <3>2, <3>4, <3>6, <3>7 DEF StopUnderWay, Serving
    <3>9. StartUnderWay(u)'
      BY <2>2, <2>3, <2>8 DEF StartUnderWay
    <3> QED
      BY <2>5, <2>6, <3>8, <3>9 DEF Settled
  <2> QED
    BY <1>5, <2>7, <2>8
<1> QED
  BY <1>3, <1>4, <1>5

LEMMA RequestSettled ==
  ASSUME TypeInv, TypeInv', \/ \E c \in Callers : Gns3Request(c)
                            \/ Cleanup,
         NEW u \in Hosted, Settled(u)
  PROVE  Settled(u)'
<1>1. ASSUME NEW c \in Callers, NEW v \in Hosted, StartSession(c, v) PROVE Settled(u)'
  <2> DEFINE w == [NoWork EXCEPT !.op = "start", !.user = {v}, !.todo = {NewRow}]
  <2>1. /\ w.op = "start" /\ w.user = {v} /\ w.todo = {NewRow} /\ w.done = {} /\ w.at = "call"
    BY DEF NoWork
  <2>2. Enter(c, w) /\ Running(v) = {}
    BY <1>1 DEF StartSession
  <2> HIDE DEF w
  <2>3. HandledWell(c, w, DOMAIN sessions)
    BY <2>1, Gns3Assumption DEF HandledWell, Starts
  <2> QED
    BY <2>1, <2>2, <2>3, EnterSettled DEF Workers
<1>2. ASSUME NEW c \in Workers, NEW rows, rows \subseteq RunningIds, rows # {},
             Enter(c, [NoWork EXCEPT !.op = "stop", !.todo = rows])
      PROVE  Settled(u)'
  <2> DEFINE w == [NoWork EXCEPT !.op = "stop", !.todo = rows]
  <2>1. /\ w.op = "stop" /\ w.todo = rows /\ w.done = {} /\ w.at = "call"
    BY DEF NoWork
  <2>2. HandledWell(c, w, DOMAIN sessions)
    BY <1>2, RunningRows, StopWell
  <2>3. Enter(c, w)
    BY <1>2
  <2> HIDE DEF w
  <2> QED
    BY <1>2, <2>1, <2>2, <2>3, EnterSettled
<1>3. ASSUME NEW c \in Callers, NEW v \in Hosted, StopSession(c, v) PROVE Settled(u)'
  <2>1. PICK i \in Running(v) : Enter(c, [NoWork EXCEPT !.op = "stop", !.todo = {i}])
    BY <1>3 DEF StopSession
  <2>2. i \in RunningIds
    BY <2>1 DEF RunningIds
  <2> QED
    BY <1>2, <2>1, <2>2 DEF Workers
<1>4. ASSUME NEW c \in Callers, ForceStopAll(c) PROVE Settled(u)'
  BY <1>2, <1>4 DEF ForceStopAll, Workers
<1>5. ASSUME Cleanup PROVE Settled(u)'
  <2>1. PICK rows \in SUBSET RunningIds : rows # {} /\ Enter(Cleaner, [NoWork EXCEPT !.op = "stop", !.todo = rows])
    BY <1>5 DEF Cleanup
  <2> QED
    BY <1>2, <2>1 DEF Workers
<1>6. ASSUME NEW c \in Callers, NEW v \in Hosted, ExtendSession(c, v) PROVE Settled(u)'
  <2>1. PICK i \in Running(v) :
          /\ sessions[i].extended < MaxExtensions
          /\ Enter(c, [NoWork EXCEPT !.op = "extend", !.todo = {i}, !.extended = sessions[i].extended])
    BY <1>6 DEF ExtendSession
  <2> DEFINE w == [NoWork EXCEPT !.op = "extend", !.todo = {i}, !.extended = sessions[i].extended]
  <2>2. Enter(c, w)
    BY <2>1
  <2>3. w.op = "extend" /\ w.user = {} /\ w.todo = {i} /\ w.done = {} /\ w.at = "call"
        /\ w.extended = sessions[i].extended
    BY DEF NoWork
  <2> HIDE DEF w
  <2>4. HandledWell(c, w, DOMAIN sessions)
    BY <2>1, <2>3, RunningRows, Gns3Assumption DEF HandledWell, Extends
  <2> QED
    BY <2>2, <2>3, <2>4, EnterSettled DEF Workers
<1> QED
  BY <1>1, <1>3, <1>4, <1>5, <1>6 DEF Gns3Request

LEMMA ExtendSaveSettled ==
  ASSUME TypeInv, NEW c \in Workers, ExtendSave(c), NEW u \in Hosted, Settled(u)
  PROVE  Settled(u)'
<1>1. PICK j \in DOMAIN sessions, n \in 0..MaxExtensions : sessions' = [sessions EXCEPT ![j].extended = n]
  BY ExtendSaveTypes
<1>2. /\ DOMAIN sessions' = DOMAIN sessions
      /\ \A i \in DOMAIN sessions : /\ sessions'[i].user = sessions[i].user
                                    /\ sessions'[i].running = sessions[i].running
                                    /\ sessions'[i].port = sessions[i].port
  BY <1>1, RowExtended DEF TypeInv
<1>3. works'[c] = NoWork /\ \A d \in Workers \ {c} : works'[d] = works[d]
  BY DEF ExtendSave, TypeInv, Gns3TypeOK
<1>4. c \notin WorkingFor(u) /\ c \notin WorkingFor(u)'
  BY <1>3, NoWorkHandled DEF ExtendSave, WorkingFor, CallsLauncher
<1>5. WorkingFor(u) \subseteq Workers /\ WorkingFor(u)' \subseteq Workers
  BY DEF WorkingFor, Workers
<1>6. \A d \in Workers \ {c} :
        /\ d \in WorkingFor(u)' <=> d \in WorkingFor(u)
        /\ d \in WorkingFor(u) => /\ works'[d] = works[d]
                                  /\ RowsFor(d, u)' = RowsFor(d, u) /\ DoneFor(d, u)' = DoneFor(d, u)
                                  /\ AwaitsFor(d, u)' <=> AwaitsFor(d, u)
  BY <1>2, <1>3, OtherWorkers
<1>7. WorkingFor(u)' = WorkingFor(u)
  BY <1>4, <1>5, <1>6
<1>8. Running(u)' = Running(u) /\ Running(u) \subseteq DOMAIN sessions
  BY <1>2 DEF Running
<1>9. UNCHANGED << units, envs, conns, trust >> /\ ConnsFor(u)' = ConnsFor(u)
  BY DEF ExtendSave, ConnsFor
<1>10. \A d \in WorkingFor(u) : d \in Workers \ {c}
  BY <1>4, <1>5
<1> QED
  BY <1>2, <1>6, <1>7, <1>8, <1>9, <1>10, Frame

\* The command of a handler goes out on a connection of its own.
LEMMA SendCommandHeard ==
  ASSUME TypeInv, Heard, NEW c \in Workers, SendCommand(c)
  PROVE  /\ Heard'
         /\ \A k \in conns : ~ k.left => k.by # c
<1>1. PICK v \in Hosted : /\ Addressed(c) = {v}
                          /\ conns' = conns \cup {[by |-> c, user |-> v, op |-> works[c].op, at |-> "received",
                                                   port |-> 0, left |-> FALSE]}
  BY AddressedOne DEF SendCommand
<1> DEFINE new == [by |-> c, user |-> v, op |-> works[c].op, at |-> "received", port |-> 0, left |-> FALSE]
<1>2. \A k \in conns : ~ k.left => k.by # c
  BY DEF Heard, SendCommand, Calling, Awaiting
<1>3. works'[c] = [works[c] EXCEPT !.at = "await"] /\ \A d \in Workers \ {c} : works'[d] = works[d]
  BY DEF SendCommand, TypeInv, Gns3TypeOK
<1>4. /\ works'[c].at = "await" /\ works'[c].op = works[c].op /\ works'[c].todo = works[c].todo
      /\ works'[c].user = works[c].user
  BY <1>3 DEF TypeInv, Gns3TypeOK, Work
<1>5. Awaiting(c)' /\ Addressed(c)' = Addressed(c)
  BY <1>4 DEF Awaiting, Addressed, NextRow, SendCommand, Calling, CallsLauncher
<1>6. ASSUME NEW d \in Workers \ {c}
      PROVE  /\ Awaiting(d)' <=> Awaiting(d)
             /\ Addressed(d)' = Addressed(d)
             /\ works'[d].op = works[d].op
  BY <1>3 DEF Awaiting, Addressed, NextRow, CallsLauncher, SendCommand
<1>7. \A k \in conns : k.by \in Workers
  BY DEF TypeInv, Gns3TypeOK, Connection
<1> HIDE DEF new
<1>8. conns' = conns \cup {new} /\ new.by = c /\ new.user = v /\ new.op = works[c].op /\ ~ new.left
  BY <1>1 DEF new
<1>9. \A k \in conns' : ~ k.left => Awaiting(k.by)' /\ k.user \in Addressed(k.by)' /\ k.op = works'[k.by].op
  BY <1>1, <1>2, <1>4, <1>5, <1>6, <1>7, <1>8 DEF Heard
<1>10. \A k, l \in conns' : (~ k.left /\ ~ l.left /\ k.by = l.by) => k = l
  BY <1>2, <1>8 DEF Heard
<1> QED
  BY <1>2, <1>9, <1>10 DEF Heard

LEMMA SendCommandSettled ==
  ASSUME TypeInv, TypeInv', Heard, NEW c \in Workers, SendCommand(c), NEW u \in Hosted, Settled(u)
  PROVE  Settled(u)'
<1>1. PICK v \in Hosted : /\ Addressed(c) = {v} /\ c \in WorkingFor(v)
                          /\ conns' = conns \cup {[by |-> c, user |-> v, op |-> works[c].op, at |-> "received",
                                                   port |-> 0, left |-> FALSE]}
  BY AddressedOne DEF SendCommand
<1> DEFINE new == [by |-> c, user |-> v, op |-> works[c].op, at |-> "received", port |-> 0, left |-> FALSE]
           w   == [works[c] EXCEPT !.at = "await"]
<1>2. works' = [works EXCEPT ![c] = w] /\ UNCHANGED << sessions, units, envs, trust >>
  BY DEF SendCommand, TypeInv, Gns3TypeOK
<1>3. /\ w.at = "await" /\ w.op = works[c].op /\ w.todo = works[c].todo /\ w.done = works[c].done
      /\ w.user = works[c].user
  BY DEF TypeInv, Gns3TypeOK, Work
<1>4. conns' = conns \cup {new} /\ new.by = c /\ new.user = v /\ new.at = "received" /\ ~ new.left
  BY <1>1
<1> HIDE DEF new, w
<1>5. works'[c] = w /\ \A d \in Workers \ {c} : works'[d] = works[d]
  BY <1>2 DEF TypeInv, Gns3TypeOK
<1>6. Addressed(c)' = Addressed(c) /\ RowsOf(w, u) = RowsFor(c, u) /\ UsersOf(w) = UsersOf(works[c])
  BY <1>2, <1>3, <1>5 DEF Addressed, NextRow, RowsOf, RowsFor, UsersOf
<1>7. works[c].op \in {"start", "stop"} /\ Calling(c)
  BY DEF SendCommand, Calling, CallsLauncher
<1>8. CASE u # v
  <2>1. ConnsFor(u)' = ConnsFor(u)
    BY <1>4, <1>8 DEF ConnsFor
  <2>2. CASE c \notin WorkingFor(u)
    <3>1. u \notin UsersOf(w)
      BY <1>6, <1>7, <2>2 DEF WorkingFor, CallsLauncher
    <3> QED
      BY <1>2, <2>1, <2>2, <3>1, WorkFrame
  <2>3. CASE c \in WorkingFor(u)
    <3>1. works[c].op = "stop"
      BY <1>1, <1>7, <1>8, <2>3, WorkingByRows DEF Addressed
    <3>2. ~ AwaitsFor(c, u)'
      BY <1>1, <1>6, <1>8 DEF AwaitsFor
    <3> QED
      BY <1>2, <1>3, <1>6, <2>1, <3>1, <3>2, WorkFrame DEF DoneFor
  <2> QED
    BY <2>2, <2>3
<1>9. CASE u = v /\ trust[u] # "astray"
  <2>1. Alone(u) /\ StopUnderWay(u) /\ StartUnderWay(u) /\ c \in WorkingFor(u)
    BY <1>1, <1>9 DEF Settled
  <2>2. ConnsFor(u) = {}
    <3>1. ASSUME NEW k \in ConnsFor(u) PROVE FALSE
      <4>1. k \in conns /\ ~ k.left /\ k.by = c
        BY <2>1, OneConnection
      <4> QED
        BY <4>1, SendCommandHeard
    <3> QED
      BY <3>1
  <2>3. ConnsFor(u)' = {new}
    BY <1>4, <1>9, <2>2 DEF ConnsFor
  <2>4. WorkingFor(u) = {c}
    BY <2>1 DEF Alone
  <2>5. WorkingFor(u)' = {c}
    <3>1. \A d \in Workers \ {c} : d \notin WorkingFor(u)'
      BY <1>2, <1>5, <2>4, OtherWorkers
    <3>2. c \in WorkingFor(u)'
      BY <1>2, <1>3, <1>5, <2>4 DEF WorkingFor, CallsLauncher, UsersOf
    <3> QED
      BY <3>1, <3>2 DEF WorkingFor, Workers
  <2>6. Alone(u)'
    BY <1>4, <2>3, <2>5 DEF Alone
  <2>7. AtRest(u)'
    BY <2>5 DEF AtRest
  <2>8. RowsFor(c, u)' = RowsFor(c, u) /\ DoneFor(c, u)' = DoneFor(c, u) /\ Running(u)' = Running(u)
    BY <1>2, <1>3, <1>5 DEF RowsFor, RowsOf, DoneFor, Running
  <2>9. Stopped(c, u)' <=> Stopped(c, u)
    BY <1>4, <2>2, <2>3, <2>8 DEF Stopped
  <2>10. StopUnderWay(u)'
    BY <1>2, <1>3, <1>4, <1>5, <2>1, <2>3, <2>4, <2>5, <2>8, <2>9 DEF StopUnderWay, Serves
  <2>11. StartUnderWay(u)'
    BY <1>2, <1>3, <1>4, <1>5, <1>7, <2>1, <2>3, <2>4, <2>5, <2>8 DEF StartUnderWay, Calling
  <2> QED
    BY <2>6, <2>7, <2>10, <2>11 DEF Settled
<1>10. CASE trust[u] = "astray"
  BY <1>2, <1>10 DEF Settled
<1> QED
  BY <1>8, <1>9, <1>10

(***************************************************************************)
(* The answers that handlers await.                                        *)
(***************************************************************************)
LEMMA HeardFrame ==
  ASSUME TypeInv, Heard, NEW c,
         \A i \in DOMAIN sessions : i \in DOMAIN sessions' /\ sessions'[i].user = sessions[i].user,
         \A d \in Workers \ {c} : works'[d] = works[d],
         \A k \in conns' : ~ k.left => k \in conns /\ k.by # c
  PROVE  Heard'
<1>1. ASSUME NEW k \in conns', ~ k.left
      PROVE  Awaiting(k.by)' /\ k.user \in Addressed(k.by)' /\ k.op = works'[k.by].op
  <2>1. k \in conns /\ k.by \in Workers \ {c} /\ k.user \in Hosted
    BY <1>1 DEF TypeInv, Gns3TypeOK, Connection
  <2>2. Awaiting(k.by) /\ k.user \in Addressed(k.by) /\ k.op = works[k.by].op
    BY <1>1, <2>1 DEF Heard
  <2>3. k.by \in WorkingFor(k.user) /\ AwaitsFor(k.by, k.user)
    BY <2>1, <2>2, AddressedOne DEF AwaitsFor
  <2>4. AwaitsFor(k.by, k.user)'
    BY <2>1, <2>3, OtherWorkers
  <2> QED
    BY <2>1, <2>2, <2>4 DEF AwaitsFor
<1>2. \A k, l \in conns' : (~ k.left /\ ~ l.left /\ k.by = l.by) => k = l
  BY DEF Heard
<1> QED
  BY <1>1, <1>2 DEF Heard

LEMMA AbandonedOthers ==
  ASSUME TypeInv, NEW users
  PROVE  /\ \A k \in Abandoned(users) : ~ k.left => k \in conns /\ k.by \notin users
         /\ \A k \in conns : ~ k.left /\ k.by \notin users => k \in Abandoned(users)
         /\ \A k \in Abandoned(users) :
              \E l \in conns : /\ l.user = k.user /\ l.by = k.by /\ l.at = k.at
                               /\ IF l.left \/ l.by \in users THEN k.left ELSE k = l
<1> DEFINE after(l) == [l EXCEPT !.left = l.left \/ l.by \in users]
<1>1. ASSUME NEW l \in conns
      PROVE  /\ after(l).user = l.user /\ after(l).by = l.by /\ after(l).at = l.at
             /\ (l.left \/ l.by \in users) => after(l).left
             /\ (~ l.left /\ l.by \notin users) => after(l) = l
  <2>1. l \in Connection /\ l.left \in BOOLEAN
    BY DEF TypeInv, Gns3TypeOK, Connection
  <2>2. CASE ~ l.left /\ l.by \notin users
    <3>1. after(l) = [l EXCEPT !.left = FALSE] /\ l.left = FALSE
      BY <2>1, <2>2
    <3> QED
      BY <2>1, <2>2, <3>1 DEF Connection
  <2>3. CASE l.left \/ l.by \in users
    <3>1. after(l) = [l EXCEPT !.left = TRUE]
      BY <2>1, <2>3
    <3> QED
      BY <2>1, <2>3, <3>1 DEF Connection
  <2> QED
    BY <2>2, <2>3
<1>2. Abandoned(users) = {after(l) : l \in conns}
  BY DEF Abandoned
<1> HIDE DEF after
<1>3. ASSUME NEW k \in Abandoned(users)
      PROVE  /\ ~ k.left => k \in conns /\ k.by \notin users
             /\ \E l \in conns : /\ l.user = k.user /\ l.by = k.by /\ l.at = k.at
                                 /\ IF l.left \/ l.by \in users THEN k.left ELSE k = l
  <2>1. PICK l \in conns : k = after(l)
    BY <1>2
  <2>2. CASE l.left \/ l.by \in users
    BY <1>1, <2>1, <2>2
  <2>3. CASE ~ l.left /\ l.by \notin users
    BY <1>1, <2>1, <2>3
  <2> QED
    BY <2>2, <2>3
<1>4. ASSUME NEW k \in conns, ~ k.left, k.by \notin users
      PROVE  k \in Abandoned(users)
  BY <1>1, <1>2, <1>4
<1> QED
  BY <1>3, <1>4

\* A handler that awaits nothing has no connection.
LEMMA AwaitingHeard ==
  ASSUME Heard, NEW c, ~ Awaiting(c)
  PROVE  \A k \in conns : ~ k.left => k.by # c
BY DEF Heard

LEMMA HandlerHeard ==
  ASSUME TypeInv, TypeInv', Heard, NEW c \in Workers, HandlerStep(c)
  PROVE  Heard'
<1>1. \A d \in Workers \ {c} : works'[d] = works[d]
  BY DEF HandlerStep, ExtendSave, SendCommand, ReadAnswer, Save, LauncherUnreachable, AnswerLost,
         ConnectionBroken, Aborted, TypeInv, Gns3TypeOK
<1>2. CASE ExtendSave(c)
  <2>1. \A i \in DOMAIN sessions : i \in DOMAIN sessions' /\ sessions'[i].user = sessions[i].user
    BY <1>2, ExtendSaveTypes, RowExtended DEF TypeInv
  <2>2. ~ Awaiting(c)
    BY <1>2 DEF ExtendSave, Awaiting, CallsLauncher
  <2> QED
    BY <1>1, <1>2, <2>1, <2>2, AwaitingHeard, HeardFrame DEF ExtendSave
<1>3. CASE SendCommand(c)
  BY <1>3, SendCommandHeard
<1>4. CASE ReadAnswer(c)
  <2>1. PICK k \in ConnOf(c) : conns' = conns \ {k}
    BY <1>4 DEF ReadAnswer
  <2>2. \A l \in conns' : ~ l.left => l \in conns /\ l.by # c
    BY <2>1 DEF ConnOf, Heard
  <2> QED
    BY <1>1, <1>4, <2>2, HeardFrame DEF ReadAnswer
<1>5. CASE Save(c)
  <2>1. \A i \in DOMAIN sessions : i \in DOMAIN sessions' /\ sessions'[i].user = sessions[i].user
    <3>1. CASE works[c].op = "start"
      BY <1>5, <3>1, StartSaved
    <3>2. CASE works[c].op = "stop"
      BY <1>5, <3>2, StopSaved, RowIds DEF TypeInv, Session
    <3> QED
      BY <1>5, <3>1, <3>2 DEF Save, CallsLauncher
  <2>2. ~ Awaiting(c)
    BY <1>5 DEF Save, Awaiting
  <2> QED
    BY <1>1, <1>5, <2>1, <2>2, AwaitingHeard, HeardFrame DEF Save
<1>6. CASE LauncherUnreachable(c) \/ Aborted(c)
  <2>1. ~ Awaiting(c) /\ UNCHANGED << sessions, conns >>
    BY <1>6 DEF LauncherUnreachable, Aborted, Calling, Awaiting
  <2> QED
    BY <1>1, <2>1, AwaitingHeard, HeardFrame
<1>7. CASE AnswerLost(c)
  <2>1. sessions' = sessions /\ conns' = Abandoned({c})
    BY <1>7 DEF AnswerLost
  <2>2. \A k \in conns' : ~ k.left => k \in conns /\ k.by # c
    BY <2>1, AbandonedOthers
  <2> QED
    BY <1>1, <2>1, <2>2, HeardFrame
<1>8. CASE ConnectionBroken(c)
  <2>1. \A k \in conns : ~ k.left => k.by # c
    BY <1>8 DEF ConnectionBroken, ConnOf
  <2> QED
    BY <1>1, <1>8, <2>1, HeardFrame DEF ConnectionBroken
<1> QED
  BY <1>2, <1>3, <1>4, <1>5, <1>6, <1>7, <1>8 DEF HandlerStep

LEMMA RequestHeard ==
  ASSUME TypeInv, Heard, \/ \E c \in Callers : Gns3Request(c)
                         \/ Cleanup
  PROVE  Heard'
<1>1. PICK c \in Workers : \E w : Enter(c, w)
  BY DEF Gns3Request, StartSession, StopSession, ExtendSession, ForceStopAll, Cleanup, Workers
<1>2. ~ Awaiting(c) /\ UNCHANGED << sessions, conns >> /\ \A d \in Workers \ {c} : works'[d] = works[d]
  BY <1>1 DEF Enter, Awaiting, CallsLauncher, TypeInv, Gns3TypeOK
<1> QED
  BY <1>2, AwaitingHeard, HeardFrame

\* The launcher takes a step on a connection, or gives up one that nobody listens to.
LEMMA LauncherHeard ==
  ASSUME TypeInv, Heard, NEW k \in conns, LauncherStep(k)
  PROVE  Heard'
<1>1. UNCHANGED << sessions, works >>
  BY DEF LauncherStep, StartTest, Allocate, Launch, StopUnit, CommandFails, Unheard
<1>2. ASSUME NEW c PROVE (Awaiting(c)' <=> Awaiting(c)) /\ Addressed(c)' = Addressed(c)
  BY <1>1 DEF Awaiting, CallsLauncher, Addressed, NextRow
<1>3. k.left \in BOOLEAN /\ k \in Connection
  BY DEF TypeInv, Gns3TypeOK, Connection
<1>4. ASSUME NEW at, NEW p, Reply(k, at, p) PROVE Heard'
  <2> DEFINE new == [k EXCEPT !.at = at, !.port = p]
  <2>1. new.by = k.by /\ new.user = k.user /\ new.op = k.op /\ new.left = k.left
    BY <1>3 DEF Connection
  <2>2. conns' = (conns \ {k}) \cup {new}
    BY <1>4 DEF Reply
  <2> HIDE DEF new
  <2> QED
    BY <1>1, <1>2, <2>1, <2>2 DEF Heard
<1>5. CASE Unheard(k)
  BY <1>1, <1>2, <1>5 DEF Unheard, Heard
<1> QED
  BY <1>4, <1>5 DEF LauncherStep, StartTest, Allocate, Allocated, Launch, StopUnit, CommandFails

LEMMA MachineHeard ==
  ASSUME TypeInv, Heard, \/ \E u \in Hosted : UnitStep(u)
                         \/ ApiRestarts \/ HostRestarts \/ ClockTicks
  PROVE  Heard'
<1>1. CASE (\E u \in Hosted : UnitStep(u)) \/ ClockTicks
  <2>1. UNCHANGED << sessions, works, conns >>
    BY <1>1 DEF UnitStep, Bind, Respawn, Crash, ClockTicks
  <2> QED
    BY <2>1 DEF Heard, Awaiting, CallsLauncher, Addressed, NextRow
<1>2. CASE ApiRestarts
  <2>1. \A k \in conns' : k.left
    <3>1. \A k \in Abandoned(Workers) : k.left
      BY AbandonedOthers DEF TypeInv, Gns3TypeOK, Connection
    <3> QED
      BY <1>2, <3>1 DEF ApiRestarts
  <2> QED
    BY <2>1 DEF Heard
<1>3. CASE HostRestarts
  BY <1>3 DEF HostRestarts, Heard
<1> QED
  BY <1>1, <1>2, <1>3

(***************************************************************************)
(* The end of a call.                                                      *)
(***************************************************************************)
\* What a handler has left when a call has ended differs by one row.
LEMMA WorkAfter ==
  ASSUME TypeInv, NEW c \in Workers, Calling(c) \/ Awaiting(c), NEW p \in InstancePorts \cup {0},
         NEW w, w \in {Failed(c), Retried(c), Succeeded(c, p)}
  PROVE  /\ w.op \in {"none", works[c].op}
         /\ works[c].op = "stop" => w.op = "stop"
         /\ w.at # "await"
         /\ w.op # "none" => /\ w.user = works[c].user
                             /\ w.todo \cup w.done \subseteq works[c].todo \cup works[c].done
                             /\ works[c].todo \ {NextRow(c)} \subseteq w.todo
                             /\ works[c].done \subseteq w.done
                             /\ w.done \subseteq works[c].done \cup {NextRow(c)}
                             /\ NextRow(c) \in w.done => w.done = works[c].done \cup {NextRow(c)}
<1>1. works[c] \in Work /\ works[c].op \in {"start", "stop"} /\ HandledWell(c, works[c], DOMAIN sessions)
  BY DEF TypeInv, Gns3TypeOK, Handled, Calling, Awaiting, CallsLauncher
<1>2. NextRow(c) \in works[c].todo
  BY AddressedOne
<1>3. CASE w = Succeeded(c, p)
  BY <1>1, <1>2, <1>3, SucceededWell
<1>4. CASE w = Failed(c)
  <2> DEFINE left == works[c].todo \ {NextRow(c)}
  <2>1. CASE works[c].op = "start" /\ works[c].done = {}
    <3>1. Failed(c) = NoWork
      BY <1>1, <2>1 DEF Failed, Proceeding, Work
    <3> QED
      BY <1>1, <1>4, <2>1, <3>1 DEF NoWork
  <2>2. CASE ~ (works[c].op = "start" /\ works[c].done = {})
    <3>1. Failed(c) = [works[c] EXCEPT !.todo = left, !.at = IF left = {} THEN "save" ELSE "call", !.tries = 0]
      BY <1>1, <2>2 DEF Failed, Proceeding, Work
    <3>2. left \subseteq works[c].todo
      OBVIOUS
    <3> HIDE DEF left
    <3>3. /\ w.op = works[c].op /\ w.user = works[c].user /\ w.todo = left /\ w.done = works[c].done
          /\ w.at \in {"save", "call"}
      BY <1>1, <1>4, <3>1 DEF Work
    <3> QED
      BY <1>1, <3>2, <3>3 DEF left
  <2> QED
    BY <2>1, <2>2
<1>5. CASE w = Retried(c) /\ works[c].tries < Retries
  <2>1. w = [works[c] EXCEPT !.at = "call", !.tries = works[c].tries + 1]
    BY <1>1, <1>5 DEF Retried, Work
  <2>2. /\ w.op = works[c].op /\ w.user = works[c].user /\ w.todo = works[c].todo /\ w.done = works[c].done
        /\ w.at = "call"
    BY <1>1, <2>1 DEF Work
  <2> QED
    BY <1>1, <1>2, <2>2
<1> QED
  BY <1>3, <1>4, <1>5 DEF Retried

\* The handlers of a call are those of one user; the others have what they had.
LEMMA CallEndSettled ==
  ASSUME TypeInv, TypeInv', NEW c \in Workers, Calling(c) \/ Awaiting(c), NEW p \in InstancePorts \cup {0},
         NEW w, w \in {Failed(c), Retried(c), Succeeded(c, p)}, works' = [works EXCEPT ![c] = w],
         NEW u \in Hosted, u \notin Addressed(c), Settled(u),
         sessions' = sessions, units' = units, envs' = envs,
         ConnsFor(u)' = ConnsFor(u), trust'[u] \in {trust[u], "astray"}
  PROVE  Settled(u)'
<1>1. PICK v \in Hosted : /\ Addressed(c) = {v}
                          /\ works[c].op = "stop" => sessions[NextRow(c)].user = v
                          /\ works[c].op = "start" => works[c].user = {v}
  BY AddressedOne
<1>2. works[c].op \in {"start", "stop"} /\ u # v /\ works[c] \in Work
  BY <1>1 DEF Calling, Awaiting, CallsLauncher, TypeInv, Gns3TypeOK
<1>3. /\ w.op \in {"none", works[c].op}
      /\ works[c].op = "stop" => w.op = "stop"
      /\ w.at # "await"
      /\ w.op # "none" => /\ w.user = works[c].user
                          /\ w.todo \cup w.done \subseteq works[c].todo \cup works[c].done
                          /\ works[c].todo \ {NextRow(c)} \subseteq w.todo
                          /\ works[c].done \subseteq w.done
                          /\ w.done \subseteq works[c].done \cup {NextRow(c)}
  BY WorkAfter
<1>4. c \in WorkingFor(u) <=> \/ works[c].op = "start" /\ works[c].user = {u}
                              \/ works[c].op = "stop" /\ RowsFor(c, u) # {}
  BY WorkingByRows
<1>5. CASE works[c].op = "start"
  <2>1. c \notin WorkingFor(u)
    BY <1>1, <1>2, <1>4, <1>5
  <2>2. w.op \in {"start", "stop"} => u \notin UsersOf(w)
    <3>1. works[c].todo \cup works[c].done = {NewRow}
      BY <1>5 DEF TypeInv, Handled, HandledWell, Starts
    <3> QED
      BY <1>1, <1>2, <1>3, <1>5, <3>1 DEF UsersOf
  <2> QED
    BY <2>1, <2>2, WorkFrame
<1>6. CASE works[c].op = "stop"
  <2>1. RowsOf(w, u) = RowsFor(c, u)
    BY <1>1, <1>2, <1>3, <1>6 DEF RowsOf, RowsFor
  <2>2. RowsOf(w, u) \cap w.done = DoneFor(c, u)
    BY <1>1, <1>2, <1>3, <1>6, <2>1 DEF DoneFor, RowsOf, RowsFor
  <2>3. ~ AwaitsFor(c, u)'
    BY <1>3 DEF AwaitsFor, Awaiting, TypeInv, Gns3TypeOK
  <2>4. w.op = "stop"
    BY <1>3, <1>6
  <2> QED
    BY <1>6, <2>1, <2>2, <2>3, <2>4, WorkFrame
<1> QED
  BY <1>2, <1>5, <1>6

LEMMA ReadAnswerSettled ==
  ASSUME TypeInv, TypeInv', Heard, NEW c \in Workers, ReadAnswer(c), NEW u \in Hosted, Settled(u)
  PROVE  Settled(u)'
<1>1. PICK k \in ConnOf(c) :
        /\ k.at \in {"ok", "err"}
        /\ conns' = conns \ {k}
        /\ works' = [works EXCEPT ![c] = IF k.at = "ok" THEN Succeeded(c, k.port) ELSE Failed(c)]
  BY DEF ReadAnswer
<1>2. /\ k \in conns /\ ~ k.left /\ k.by = c /\ Awaiting(c) /\ k.port \in InstancePorts \cup {0}
      /\ k.user \in Hosted /\ UNCHANGED << sessions, units, envs, trust >>
  BY <1>1 DEF ConnOf, ReadAnswer, TypeInv, Gns3TypeOK, Connection
<1>3. Addressed(c) = {k.user} /\ k.op = works[c].op /\ works[c].op \in {"start", "stop"}
  BY <1>2, AddressedOne DEF Heard, Awaiting, CallsLauncher
<1>4. CASE u # k.user
  <2>1. ConnsFor(u)' = ConnsFor(u)
    BY <1>1, <1>4 DEF ConnsFor
  <2> DEFINE w == IF k.at = "ok" THEN Succeeded(c, k.port) ELSE Failed(c)
  <2>2. w \in {Failed(c), Retried(c), Succeeded(c, k.port)} /\ works' = [works EXCEPT ![c] = w]
    BY <1>1
  <2> HIDE DEF w
  <2> QED
    BY <1>2, <1>3, <1>4, <2>1, <2>2, CallEndSettled
<1>5. CASE trust[u] = "astray"
  BY <1>2, <1>5 DEF Settled
<1>6. CASE u = k.user /\ trust[u] # "astray"
  <2>1. Alone(u) /\ StopUnderWay(u) /\ StartUnderWay(u) /\ k \in ConnsFor(u)
    BY <1>2, <1>6 DEF Settled, ConnsFor
  <2>2. k.at = "ok" /\ ConnsFor(u) = {k} /\ WorkingFor(u) = {c}
    BY <1>1, <1>2, <2>1, OneConnection DEF Alone
  <2>3. ConnsFor(u)' = {}
    BY <1>1, <2>2 DEF ConnsFor
  <2> DEFINE w == Succeeded(c, k.port)
  <2>4. works'[c] = w /\ \A d \in Workers \ {c} : works'[d] = works[d]
    BY <1>1, <2>2 DEF TypeInv, Gns3TypeOK
  <2>5. /\ w.op = works[c].op
        /\ w.todo = works[c].todo \ {NextRow(c)} /\ w.done = works[c].done \cup {NextRow(c)}
        /\ w.user = works[c].user /\ w.port = k.port
        /\ w.at \in {"save", "call"}
        /\ works[c].op = "start" => w.at = "save"
    BY <1>2, SucceededWell
  <2> HIDE DEF w
  <2>6. /\ NextRow(c) \in works[c].todo
        /\ works[c].op = "start" => works[c].user = {u}
        /\ works[c].op = "stop" => NextRow(c) # NewRow /\ sessions[NextRow(c)].user = u
    BY <1>2, <1>3, <1>6, AddressedOne, RowIds DEF TypeInv
  <2>7. RowsFor(c, u)' = RowsFor(c, u) /\ Running(u)' = Running(u)
    BY <1>2, <2>4, <2>5, <2>6 DEF RowsFor, RowsOf, Running
  <2>8. works[c].op = "stop" => NextRow(c) \in DoneFor(c, u)'
    BY <1>2, <2>4, <2>5, <2>6 DEF DoneFor, RowsFor, RowsOf
  <2>9. WorkingFor(u)' = {c}
    <3>1. \A d \in Workers \ {c} : d \notin WorkingFor(u)'
      BY <1>2, <2>2, <2>4, OtherWorkers
    <3>2. c \in WorkingFor(u)'
      BY <1>2, <1>3, <2>4, <2>5, <2>6 DEF WorkingFor, CallsLauncher, UsersOf
    <3> QED
      BY <3>1, <3>2 DEF WorkingFor, Workers
  <2>10. Alone(u)'
    BY <2>3, <2>4, <2>5, <2>9 DEF Alone, AwaitsFor, Awaiting
  <2>11. AtRest(u)'
    BY <2>9 DEF AtRest
  <2>12. CASE works[c].op = "start"
    <3>1. Serves(u, k.port) /\ trust[u] = "agrees" /\ Running(u) = {}
      BY <2>1, <2>2, <2>12 DEF StartUnderWay
    <3>2. StartUnderWay(u)'
      BY <1>2, <2>3, <2>4, <2>5, <2>7, <2>9, <2>12, <3>1 DEF StartUnderWay, Serves
    <3>3. StopUnderWay(u)'
      BY <2>4, <2>5, <2>9, <2>12 DEF StopUnderWay
    <3> QED
      BY <2>10, <2>11, <3>2, <3>3 DEF Settled
  <2>13. CASE works[c].op = "stop"
    <3>1. Stopped(c, u) /\ Stopped(c, u)'
      BY <2>1, <2>2, <2>8, <2>13 DEF Stopped
    <3>2. StopUnderWay(u)'
      BY <1>2, <2>1, <2>2, <2>3, <2>7, <2>9, <2>13, <3>1 DEF StopUnderWay
    <3>3. StartUnderWay(u)'
      BY <2>4, <2>5, <2>9, <2>13 DEF StartUnderWay
    <3> QED
      BY <2>10, <2>11, <3>2, <3>3 DEF Settled
  <2> QED
    BY <1>3, <2>12, <2>13
<1> QED
  BY <1>4, <1>5, <1>6

\* A failure makes it uncertain what was done for the user of the call.
LEMMA CallFailureSettled ==
  ASSUME TypeInv, TypeInv', Heard, NEW c \in Workers,
         LauncherUnreachable(c) \/ AnswerLost(c) \/ ConnectionBroken(c),
         NEW u \in Hosted, Settled(u)
  PROVE  Settled(u)'
<1>1. Calling(c) \/ Awaiting(c)
  BY DEF LauncherUnreachable, AnswerLost, ConnectionBroken
<1>2. PICK w \in {Failed(c), Retried(c), Succeeded(c, 0)} : works' = [works EXCEPT ![c] = w]
  BY DEF LauncherUnreachable, AnswerLost, ConnectionBroken
<1>3. UNCHANGED << sessions, units, envs >> /\ trust'[u] \in {trust[u], "astray"}
  BY DEF LauncherUnreachable, AnswerLost, ConnectionBroken, Fault, Astray
<1>4. CASE trust'[u] = "astray"
  BY <1>4 DEF Settled
<1>5. CASE trust'[u] # "astray" /\ u \in Addressed(c)
  <2>1. ConnectionBroken(c) /\ trust[u] # "astray"
    BY <1>3, <1>5 DEF LauncherUnreachable, AnswerLost, Fault, Astray
  <2>2. Awaiting(c) /\ ConnOf(c) = {} /\ Alone(u)
    BY <2>1 DEF ConnectionBroken, Settled
  <2>3. c \in WorkingFor(u) /\ AwaitsFor(c, u)
    BY <1>5, <2>2, AddressedOne DEF AwaitsFor
  <2>4. PICK k \in ConnsFor(u) : TRUE
    BY <2>2, <2>3 DEF Alone
  <2>5. WorkingFor(u) = {k.by} /\ ConnOf(k.by) = {k}
    BY <2>2, OneConnection
  <2> QED
    BY <2>2, <2>3, <2>5
<1>6. CASE trust'[u] # "astray" /\ u \notin Addressed(c)
  <2>1. Alone(u)
    BY <1>3, <1>6 DEF Settled
  <2>2. \A k \in ConnsFor(u) : k \in conns /\ ~ k.left /\ k.by # c
    BY <1>6, <2>1, OneConnection
  <2>3. ConnsFor(u)' = ConnsFor(u)
    <3>1. CASE AnswerLost(c)
      <4>1. conns' = Abandoned({c})
        BY <3>1 DEF AnswerLost
      <4>2. \A k \in ConnsFor(u) : k \in conns'
        BY <2>2, <4>1, AbandonedOthers
      <4>3. \A k \in ConnsFor(u)' : k \in ConnsFor(u)
        BY <2>2, <4>1, AbandonedOthers DEF ConnsFor
      <4> QED
        BY <4>2, <4>3 DEF ConnsFor
    <3>2. CASE LauncherUnreachable(c) \/ ConnectionBroken(c)
      BY <3>2 DEF LauncherUnreachable, ConnectionBroken, ConnsFor
    <3> QED
      BY <3>1, <3>2
  <2> QED
    BY <1>1, <1>2, <1>3, <1>6, <2>3, CallEndSettled
<1> QED
  BY <1>4, <1>5, <1>6

LEMMA AbortedSettled ==
  ASSUME TypeInv, TypeInv', NEW c \in Workers, Aborted(c), NEW u \in Hosted, Settled(u)
  PROVE  Settled(u)'
<1>1. CASE trust'[u] = "astray"
  BY <1>1 DEF Settled
<1>2. CASE trust'[u] # "astray"
  <2>1. c \notin WorkingFor(u) /\ trust'[u] = trust[u]
    BY <1>2 DEF Aborted, Fault, Astray, WorkingFor
  <2>2. ConnsFor(u)' = ConnsFor(u) /\ NoWork.op = "none"
    BY NoWorkHandled DEF Aborted, ConnsFor
  <2> QED
    BY <2>1, <2>2, WorkFrame DEF Aborted
<1> QED
  BY <1>1, <1>2

(***************************************************************************)
(* The saves.                                                              *)
(***************************************************************************)
\* What is saved is nothing to a user the handler does not work for.
LEMMA SaveFrame ==
  ASSUME TypeInv, TypeInv', NEW c \in Workers, Save(c), NEW u \in Hosted, Settled(u), c \notin WorkingFor(u),
         \A i \in DOMAIN sessions : /\ i \in DOMAIN sessions' /\ sessions'[i].user = sessions[i].user
                                    /\ sessions'[i].port = sessions[i].port,
         Running(u)' = Running(u)
  PROVE  Settled(u)'
<1>1. works'[c] = NoWork /\ \A d \in Workers \ {c} : works'[d] = works[d]
  BY DEF Save, TypeInv, Gns3TypeOK
<1>2. c \notin WorkingFor(u)' /\ u \notin UsersOf(works[c])
  BY <1>1, NoWorkHandled DEF Save, WorkingFor, CallsLauncher
<1>3. WorkingFor(u) \subseteq Workers /\ WorkingFor(u)' \subseteq Workers
  BY DEF WorkingFor, Workers
<1>4. \A d \in Workers \ {c} :
        /\ d \in WorkingFor(u)' <=> d \in WorkingFor(u)
        /\ d \in WorkingFor(u) => /\ RowsFor(d, u)' = RowsFor(d, u) /\ DoneFor(d, u)' = DoneFor(d, u)
                                  /\ AwaitsFor(d, u)' <=> AwaitsFor(d, u)
  BY <1>1, OtherWorkers
<1>5. WorkingFor(u)' = WorkingFor(u)
  BY <1>2, <1>3, <1>4
<1>6. UNCHANGED << units, envs >> /\ ConnsFor(u)' = ConnsFor(u) /\ trust'[u] = trust[u]
  BY <1>2 DEF Save, ConnsFor
<1>7. \A d \in WorkingFor(u) : d \in Workers \ {c}
  BY <1>3
<1>8. Running(u) \subseteq DOMAIN sessions
  BY DEF Running
<1> QED
  BY <1>1, <1>4, <1>5, <1>6, <1>7, <1>8, Frame

\* When the one handler of a user saves, nothing is left under way for the user.
LEMMA SaveEnds ==
  ASSUME TypeInv, TypeInv', Heard, NEW c \in Workers, Save(c), NEW u \in Hosted, Alone(u), c \in WorkingFor(u),
         \A i \in DOMAIN sessions : i \in DOMAIN sessions' /\ sessions'[i].user = sessions[i].user
  PROVE  /\ WorkingFor(u) = {c} /\ ConnsFor(u) = {}
         /\ WorkingFor(u)' = {} /\ ConnsFor(u)' = {}
<1>1. works'[c] = NoWork /\ (\A d \in Workers \ {c} : works'[d] = works[d]) /\ conns' = conns
  BY DEF Save, TypeInv, Gns3TypeOK
<1>2. WorkingFor(u) = {c}
  BY DEF Alone
<1>3. ConnsFor(u) = {}
  <2>1. ASSUME NEW k \in ConnsFor(u) PROVE FALSE
    BY <1>2, OneConnection DEF Save, Awaiting
  <2> QED
    BY <2>1
<1>4. c \notin WorkingFor(u)' /\ \A d \in Workers \ {c} : d \notin WorkingFor(u)'
  BY <1>1, <1>2, NoWorkHandled, OtherWorkers DEF WorkingFor, CallsLauncher
<1> QED
  BY <1>1, <1>2, <1>3, <1>4 DEF WorkingFor, Workers, ConnsFor

LEMMA StartSaveSettled ==
  ASSUME TypeInv, TypeInv', Heard, NEW c \in Workers, Save(c), works[c].op = "start", NEW u \in Hosted, Settled(u)
  PROVE  Settled(u)'
<1>1. PICK v \in Hosted :
        /\ works[c].user = {v}
        /\ sessions' = Append(sessions, [user |-> v, start |-> clock, extended |-> 0, port |-> works[c].port,
                                         running |-> TRUE])
  BY StartSaved
<1>2. /\ works[c].todo = {} /\ works[c].done = {NewRow} /\ Len(sessions') = Len(sessions) + 1
      /\ \A i \in DOMAIN sessions : i \in DOMAIN sessions' /\ sessions'[i] = sessions[i]
  BY StartSaved
<1> DEFINE n == Len(sessions) + 1
<1>3. /\ DOMAIN sessions' = DOMAIN sessions \cup {n} /\ n \notin DOMAIN sessions
      /\ sessions'[n].user = v /\ sessions'[n].running /\ sessions'[n].port = works[c].port
  BY <1>1, RowIds DEF TypeInv, Gns3TypeOK
<1> HIDE DEF n
<1>4. c \in WorkingFor(u) <=> u = v
  BY <1>1, WorkingByRows
<1>5. CASE u # v
  <2>1. Running(u)' = Running(u)
    BY <1>2, <1>3, <1>5 DEF Running
  <2> QED
    BY <1>2, <1>4, <1>5, <2>1, SaveFrame
<1>6. CASE trust[u] = "astray"
  BY <1>6 DEF Settled, Save
<1>7. CASE u = v /\ trust[u] # "astray"
  <2>1. /\ WorkingFor(u) = {c} /\ ConnsFor(u) = {}
        /\ WorkingFor(u)' = {} /\ ConnsFor(u)' = {}
    BY <1>2, <1>4, <1>7, SaveEnds DEF Settled
  <2>2. trust[u] = "agrees" /\ Running(u) = {} /\ Serves(u, works[c].port)
    BY <1>7, <2>1 DEF Settled, StartUnderWay, Save
  <2>3. trust'[u] = "agrees" /\ UNCHANGED << units, envs >>
    BY <2>2 DEF Save
  <2>4. Running(u)' = {n}
    BY <1>2, <1>3, <1>7, <2>2 DEF Running
  <2>5. Serving(u)'
    BY <1>3, <2>2, <2>3, <2>4 DEF Serving, Serves
  <2> QED
    BY <2>1, <2>3, <2>5 DEF Settled, Alone, StopUnderWay, StartUnderWay, AtRest
<1> QED
  BY <1>5, <1>6, <1>7

LEMMA StopSaveSettled ==
  ASSUME TypeInv, TypeInv', Heard, NEW c \in Workers, Save(c), works[c].op = "stop", NEW u \in Hosted, Settled(u)
  PROVE  Settled(u)'
<1>1. /\ sessions' = [i \in DOMAIN sessions |->
                        [sessions[i] EXCEPT !.running = sessions[i].running /\ i \notin works[c].done]]
      /\ works[c].todo = {} /\ works[c].done \subseteq DOMAIN sessions
  BY StopSaved DEF TypeInv, Handled, HandledWell, Stops
<1>2. \A i \in DOMAIN sessions :
        /\ i \in DOMAIN sessions' /\ sessions'[i].user = sessions[i].user /\ sessions'[i].port = sessions[i].port
        /\ sessions'[i].running <=> sessions[i].running /\ i \notin works[c].done
  BY <1>1, RowIds DEF TypeInv, Session
<1>3. Running(u)' = Running(u) \ works[c].done
  BY <1>1, <1>2 DEF Running
<1>4. DoneFor(c, u) = RowsFor(c, u) /\ RowsFor(c, u) = {i \in works[c].done : sessions[i].user = u}
  BY <1>1, RowIds DEF TypeInv, DoneFor, RowsFor, RowsOf
<1>5. c \in WorkingFor(u) <=> RowsFor(c, u) # {}
  BY WorkingByRows
<1>6. CASE c \notin WorkingFor(u)
  <2>1. Running(u)' = Running(u)
    BY <1>3, <1>4, <1>5, <1>6 DEF Running
  <2> QED
    BY <1>2, <1>6, <2>1, SaveFrame
<1>7. CASE trust[u] = "astray"
  BY <1>7 DEF Settled, Save
<1>8. CASE c \in WorkingFor(u) /\ trust[u] # "astray"
  <2>1. /\ WorkingFor(u) = {c} /\ ConnsFor(u) = {}
        /\ WorkingFor(u)' = {} /\ ConnsFor(u)' = {}
    BY <1>2, <1>8, SaveEnds DEF Settled
  <2>2. /\ RowsFor(c, u) \subseteq Running(u) /\ units[u].state = "off"
        /\ trust[u] = "agrees" => \E i \in Running(u) : Running(u) = {i}
    BY <1>4, <1>5, <1>8, <2>1 DEF Settled, StopUnderWay, Stopped
  <2>3. ASSUME trust'[u] # "astray" PROVE trust'[u] = "agrees" /\ Running(u)' = {}
    <3>1. CASE trust[u] = "agrees"
      <4>1. Running(u) \subseteq works[c].done
        BY <1>4, <1>5, <1>8, <2>2, <3>1
      <4> QED
        BY <1>3, <3>1, <4>1 DEF Save
    <3>2. CASE trust[u] = "mending"
      <4>1. u \in UsersOf(works[c])
        BY <1>8 DEF WorkingFor
      <4> QED
        BY <1>3, <2>3, <3>2, <4>1 DEF Save
    <3> QED
      BY <1>8, <3>1, <3>2 DEF TypeInv, Gns3TypeOK
  <2>4. units' = units
    BY DEF Save
  <2> QED
    BY <2>1, <2>2, <2>3, <2>4 DEF Settled, Alone, StopUnderWay, StartUnderWay, AtRest
<1> QED
  BY <1>6, <1>7, <1>8

LEMMA HandlerSettled ==
  ASSUME TypeInv, TypeInv', Heard, NEW c \in Workers, HandlerStep(c), NEW u \in Hosted, Settled(u)
  PROVE  Settled(u)'
<1>1. CASE Save(c)
  BY <1>1, StartSaveSettled, StopSaveSettled DEF Save, CallsLauncher
<1> QED
  BY <1>1, ExtendSaveSettled, SendCommandSettled, ReadAnswerSettled, CallFailureSettled, AbortedSettled DEF HandlerStep

(***************************************************************************)
(* The launcher, the units and the machines.                               *)
(***************************************************************************)
\* The handlers go on as they are when only the launcher's side changes.
LEMMA HandlersStay ==
  ASSUME UNCHANGED << sessions, works >>, NEW u
  PROVE  /\ WorkingFor(u)' = WorkingFor(u) /\ Running(u)' = Running(u)
         /\ \A c : /\ RowsFor(c, u)' = RowsFor(c, u) /\ DoneFor(c, u)' = DoneFor(c, u)
                   /\ AwaitsFor(c, u)' <=> AwaitsFor(c, u)
BY DEF WorkingFor, CallsLauncher, UsersOf, Running, RowsFor, RowsOf, DoneFor, AwaitsFor, Awaiting, Addressed, NextRow

LEMMA LauncherFrame ==
  ASSUME UNCHANGED << sessions, works >>, NEW u \in Hosted, Settled(u), ConnsFor(u)' = ConnsFor(u),
         trust'[u] \in {trust[u], "astray"}, envs'[u] = envs[u],
         units[u].state = "off" => units'[u].state = "off",
         units[u].state # "off" /\ units[u].port = envs[u] => units'[u].state # "off" /\ units'[u].port = envs[u]
  PROVE  Settled(u)'
BY HandlersStay, Frame

\* The launcher goes on with the connection of the user's one handler.
LEMMA ReplyAlone ==
  ASSUME TypeInv, Heard, NEW k \in conns, NEW u \in Hosted, k.user = u, Alone(u),
         UNCHANGED << sessions, works >>, NEW at, at # "err", NEW p, Reply(k, at, p)
  PROVE  /\ \E new \in conns' : ConnsFor(u)' = {new} /\ new.at = at /\ new.port = p
         /\ Alone(u)' /\ AtRest(u)'
         /\ WorkingFor(u) = {k.by} /\ k.op = works[k.by].op /\ ConnsFor(u) = {k} /\ ~ k.left
         /\ works[k.by].op \in {"start", "stop"} /\ works[k.by].at = "await"
<1>1. k \in ConnsFor(u) /\ k \in Connection
  BY DEF ConnsFor, TypeInv, Gns3TypeOK
<1>2. /\ WorkingFor(u) = {k.by} /\ k.op = works[k.by].op /\ ConnsFor(u) = {k} /\ ~ k.left /\ Awaiting(k.by)
  BY <1>1, OneConnection
<1> DEFINE new == [k EXCEPT !.at = at, !.port = p]
<1>3. new.at = at /\ new.port = p /\ new.user = u /\ new.left = k.left
  BY <1>1 DEF Connection
<1>4. conns' = (conns \ {k}) \cup {new}
  BY DEF Reply
<1> HIDE DEF new
<1>5. ConnsFor(u)' = {new}
  BY <1>2, <1>3, <1>4 DEF ConnsFor
<1>6. WorkingFor(u)' = {k.by}
  BY <1>2, HandlersStay
<1>7. Alone(u)' /\ AtRest(u)'
  BY <1>2, <1>3, <1>5, <1>6 DEF Alone, AtRest
<1> QED
  BY <1>2, <1>3, <1>4, <1>5, <1>7 DEF Awaiting, CallsLauncher

LEMMA LauncherSettled ==
  ASSUME TypeInv, TypeInv', Heard, NEW k \in conns, LauncherStep(k), NEW u \in Hosted, Settled(u)
  PROVE  Settled(u)'
<1>1. UNCHANGED << sessions, works >> /\ k.user \in Hosted
  BY DEF LauncherStep, StartTest, Allocate, Launch, StopUnit, CommandFails, Unheard, TypeInv, Gns3TypeOK, Connection
<1>2. trust'[u] \in {trust[u], "astray"}
  BY DEF LauncherStep, StartTest, Allocate, Allocated, Launch, StopUnit, CommandFails, Unheard, Fault, Astray
<1>3. CASE u # k.user
  <2>1. ConnsFor(u)' = ConnsFor(u)
    <3>1. ASSUME NEW at, NEW p, Reply(k, at, p) PROVE ConnsFor(u)' = ConnsFor(u)
      <4>1. [k EXCEPT !.at = at, !.port = p].user = k.user
        BY DEF TypeInv, Gns3TypeOK, Connection
      <4> QED
        BY <1>3, <3>1, <4>1 DEF Reply, ConnsFor
    <3>2. CASE Unheard(k)
      BY <1>3, <3>2 DEF Unheard, ConnsFor
    <3> QED
      BY <3>1, <3>2 DEF LauncherStep, StartTest, Allocate, Allocated, Launch, StopUnit, CommandFails
  <2>2. units'[u] = units[u] /\ envs'[u] = envs[u]
    BY <1>1, <1>3 DEF LauncherStep, StartTest, Allocate, Allocated, Launch, StopUnit, CommandFails, Unheard,
                      TypeInv, Gns3TypeOK
  <2> QED
    BY <1>1, <1>2, <2>1, <2>2, LauncherFrame
<1>4. CASE trust'[u] = "astray"
  BY <1>4 DEF Settled
<1>5. CASE u = k.user /\ trust'[u] # "astray"
  <2>1. trust'[u] = trust[u] /\ Alone(u) /\ StopUnderWay(u) /\ StartUnderWay(u)
    BY <1>2, <1>5 DEF Settled
  <2>2. ASSUME NEW at, at # "err", NEW p, Reply(k, at, p)
        PROVE  /\ \E new \in conns' : ConnsFor(u)' = {new} /\ new.at = at /\ new.port = p
               /\ Alone(u)' /\ AtRest(u)'
               /\ WorkingFor(u) = {k.by} /\ WorkingFor(u)' = {k.by} /\ Running(u)' = Running(u)
               /\ RowsFor(k.by, u)' = RowsFor(k.by, u)
               /\ k.op = works[k.by].op /\ ConnsFor(u) = {k}
               /\ works[k.by].op \in {"start", "stop"} /\ works'[k.by].op = works[k.by].op
               /\ works'[k.by].at = "await"
    <3>1. /\ \E new \in conns' : ConnsFor(u)' = {new} /\ new.at = at /\ new.port = p
          /\ Alone(u)' /\ AtRest(u)'
          /\ WorkingFor(u) = {k.by} /\ k.op = works[k.by].op /\ ConnsFor(u) = {k}
          /\ works[k.by].op \in {"start", "stop"} /\ works[k.by].at = "await"
      BY <1>1, <1>5, <2>1, <2>2, ReplyAlone
    <3>2. WorkingFor(u)' = WorkingFor(u) /\ Running(u)' = Running(u) /\ RowsFor(k.by, u)' = RowsFor(k.by, u)
      BY <1>1, HandlersStay
    <3> QED
      BY <1>1, <3>1, <3>2
  <2>3. ASSUME NEW at \in {"allocate", "launch", "ok"}, NEW p, Reply(k, at, p), works[k.by].op = "start",
               at # "ok" => units'[u].state = "off",
               at = "launch" => envs'[u] = p,
               at = "ok" => Serves(u, p)'
        PROVE  Settled(u)'
    <3>1. PICK new \in conns' : ConnsFor(u)' = {new} /\ new.at = at /\ new.port = p
      BY <2>2, <2>3
    <3>2. /\ WorkingFor(u) = {k.by} /\ WorkingFor(u)' = {k.by} /\ Running(u)' = Running(u)
          /\ works'[k.by].op = "start" /\ works'[k.by].at = "await" /\ Alone(u)' /\ AtRest(u)'
      BY <2>2, <2>3
    <3>3. trust[u] = "agrees" /\ Running(u) = {}
      BY <2>1, <2>3, <3>2 DEF StartUnderWay
    <3>4. StartUnderWay(u)'
      BY <2>1, <2>3, <3>1, <3>2, <3>3 DEF StartUnderWay
    <3>5. StopUnderWay(u)'
      BY <3>2 DEF StopUnderWay
    <3> QED
      BY <3>2, <3>4, <3>5 DEF Settled
  <2>4. CASE StartTest(k)
    <3>1. k.op = "start" /\ k.at = "received" /\ UNCHANGED << units, envs >>
      BY <2>4 DEF StartTest
    <3>2. k \in ConnsFor(u)
      BY <1>5 DEF ConnsFor
    <3>3. works[k.by].op = "start" /\ units[u].state = "off"
      BY <2>1, <3>1, <3>2, OneConnection DEF StartUnderWay
    <3>4. Reply(k, "allocate", 0)
      BY <1>5, <2>4, <3>3 DEF StartTest, IsActive
    <3> QED
      BY <2>3, <3>1, <3>3, <3>4
  <2>5. CASE Allocate(k)
    <3>1. PICK p \in InstancePorts : Allocated(k, p)
      BY <2>5 DEF Allocate
    <3>2. k.at = "allocate" /\ units' = units /\ Reply(k, "launch", p) /\ envs'[u] = p
      BY <1>5, <2>5, <3>1 DEF Allocate, Allocated, TypeInv, Gns3TypeOK
    <3>3. works[k.by].op = "start" /\ units[u].state = "off"
      BY <2>1, <2>2, <3>2 DEF StopUnderWay, StartUnderWay
    <3> QED
      BY <2>3, <3>2, <3>3
  <2>6. CASE Launch(k)
    <3>1. k.at = "launch" /\ envs' = envs /\ Reply(k, "ok", k.port)
      BY <2>6 DEF Launch
    <3>2. works[k.by].op = "start" /\ units[u].state = "off" /\ envs[u] = k.port
      BY <2>1, <2>2, <3>1 DEF StopUnderWay, StartUnderWay
    <3>3. units'[u] = Started(u)
      BY <1>5, <2>6, <3>2 DEF Launch, IsActive, TypeInv, Gns3TypeOK
    <3>4. Serves(u, k.port)'
      BY <3>1, <3>2, <3>3 DEF Serves, Started
    <3> QED
      BY <2>3, <3>1, <3>2, <3>4
  <2>7. CASE StopUnit(k)
    <3>1. k.op = "stop" /\ Reply(k, "ok", 0) /\ units'[u].state = "off"
      BY <1>5, <2>7 DEF StopUnit, Off, TypeInv, Gns3TypeOK
    <3>2. PICK new \in conns' : ConnsFor(u)' = {new} /\ new.at = "ok"
      BY <2>2, <3>1
    <3>3. /\ WorkingFor(u) = {k.by} /\ WorkingFor(u)' = {k.by} /\ Running(u)' = Running(u)
          /\ RowsFor(k.by, u)' = RowsFor(k.by, u)
          /\ works[k.by].op = "stop" /\ works'[k.by].op = "stop" /\ Alone(u)' /\ AtRest(u)'
      BY <2>2, <3>1
    <3>4. /\ RowsFor(k.by, u) \subseteq Running(u)
          /\ trust[u] = "agrees" => \E i \in Running(u) : Running(u) = {i}
      BY <2>1, <3>3 DEF StopUnderWay
    <3>5. Stopped(k.by, u)'
      BY <3>2 DEF Stopped
    <3>6. StopUnderWay(u)'
      BY <2>1, <3>1, <3>2, <3>3, <3>4, <3>5 DEF StopUnderWay
    <3>7. StartUnderWay(u)'
      BY <3>3 DEF StartUnderWay
    <3> QED
      BY <3>3, <3>6, <3>7 DEF Settled
  <2>8. CASE CommandFails(k)
    BY <1>5, <2>8 DEF CommandFails, Fault, Astray
  <2>9. CASE Unheard(k)
    BY <1>5, <2>1, <2>9 DEF Unheard, Alone, ConnsFor
  <2> QED
    BY <2>4, <2>5, <2>6, <2>7, <2>8, <2>9 DEF LauncherStep
<1> QED
  BY <1>3, <1>4, <1>5

LEMMA MachineSettled ==
  ASSUME TypeInv, TypeInv', \/ \E v \in Hosted : UnitStep(v)
                            \/ ApiRestarts \/ HostRestarts \/ ClockTicks,
         NEW u \in Hosted, Settled(u)
  PROVE  Settled(u)'
<1>1. ASSUME NEW v \in Hosted, UnitStep(v) PROVE Settled(u)'
  <2>1. UNCHANGED << sessions, works, conns, envs, trust >>
    BY <1>1 DEF UnitStep, Bind, Respawn, Crash
  <2>2. /\ units[u].state = "off" => units'[u] = units[u]
        /\ units[u].state # "off" /\ units[u].port = envs[u] => units'[u].state # "off" /\ units'[u].port = envs[u]
    BY <1>1 DEF UnitStep, Bind, Respawn, Crash, Started, IsActive, TypeInv, Gns3TypeOK
  <2> QED
    BY <2>1, <2>2, LauncherFrame DEF ConnsFor
<1>2. CASE ClockTicks
  BY <1>2, LauncherFrame DEF ClockTicks, ConnsFor
<1>3. CASE trust'[u] = "astray"
  BY <1>3 DEF Settled
<1>4. CASE ApiRestarts /\ trust'[u] # "astray"
  <2>1. /\ WorkingFor(u) = {} /\ trust'[u] = trust[u] /\ UNCHANGED << sessions, units, envs >>
        /\ \A c \in Workers : works'[c] = NoWork
    BY <1>4 DEF ApiRestarts, Fault, Astray
  <2>2. /\ trust[u] = "agrees" /\ ConnsFor(u) = {}
        /\ (Running(u) = {} /\ units[u].state = "off") \/ Serving(u)
    BY <1>4, <2>1 DEF Settled, AtRest
  <2>3. WorkingFor(u)' = {}
    BY <2>1, NoWorkHandled DEF WorkingFor, CallsLauncher
  <2>4. ConnsFor(u)' = {}
    <3>1. \A k \in Abandoned(Workers) : k.user # u
      BY <2>2, AbandonedOthers DEF ConnsFor
    <3> QED
      BY <1>4, <3>1 DEF ApiRestarts, ConnsFor
  <2>5. Running(u)' = Running(u) /\ (Serving(u)' <=> Serving(u))
    BY <2>1 DEF Running, Serving, Serves
  <2> QED
    BY <2>1, <2>2, <2>3, <2>4, <2>5 DEF Settled, Alone, StopUnderWay, StartUnderWay, AtRest
<1>5. CASE HostRestarts /\ trust'[u] # "astray"
  <2>1. /\ units[u].state = "off" /\ ~ Busy(u) /\ trust'[u] = trust[u] /\ UNCHANGED << sessions, works >>
        /\ conns' = {} /\ units'[u].state = "off"
    BY <1>5 DEF HostRestarts, Fault, Astray, Off
  <2>2. WorkingFor(u) = {} /\ trust[u] = "agrees" /\ Running(u) = {}
    BY <1>5, <2>1 DEF Settled, AtRest, Busy, Serving, Serves
  <2>3. WorkingFor(u)' = {} /\ Running(u)' = {} /\ ConnsFor(u)' = {}
    BY <2>1, <2>2, HandlersStay DEF ConnsFor
  <2> QED
    BY <2>1, <2>2, <2>3 DEF Settled, Alone, StopUnderWay, StartUnderWay, AtRest
<1> QED
  BY <1>1, <1>2, <1>3, <1>4, <1>5

(***************************************************************************)
(* Ports.                                                                  *)
(***************************************************************************)
\* A port is claimed by allocating it only.
LEMMA ClaimsStay ==
  ASSUME TypeInv, [Gns3Next]_gns3Vars, \A k \in conns : ~ Allocate(k),
         NEW u \in Hosted, NEW p, Claims(u, p)'
  PROVE  Claims(u, p)
<1>1. ASSUME UNCHANGED << units, envs >>, \A k \in conns' : \E l \in conns : (k.at = "launch" => l.at = k.at) /\ l.user = k.user
      PROVE  Claims(u, p)
  BY <1>1 DEF Claims, IsActive, ConnsFor
<1>2. ASSUME UNCHANGED << units, envs, conns >> PROVE Claims(u, p)
  BY <1>2 DEF Claims, IsActive, ConnsFor
<1>3. CASE (\E c \in Callers : Gns3Request(c)) \/ Cleanup
  BY <1>2, <1>3 DEF Gns3Request, StartSession, StopSession, ExtendSession, ForceStopAll, Cleanup, Enter
<1>4. ASSUME NEW c \in Workers, HandlerStep(c) PROVE Claims(u, p)
  <2>1. UNCHANGED << units, envs >>
    BY <1>4 DEF HandlerStep, ExtendSave, SendCommand, ReadAnswer, Save, LauncherUnreachable, AnswerLost,
                ConnectionBroken, Aborted
  <2>2. CASE SendCommand(c)
    <3>1. ASSUME NEW k \in ConnsFor(u)', k.at = "launch" PROVE k \in ConnsFor(u)
      BY <2>2, <3>1 DEF SendCommand, ConnsFor
    <3> QED
      BY <2>1, <3>1 DEF Claims, IsActive
  <2>3. CASE AnswerLost(c)
    <3>1. conns' = Abandoned({c})
      BY <2>3 DEF AnswerLost
    <3> QED
      BY <1>1, <2>1, <3>1, AbandonedOthers
  <2>4. CASE ReadAnswer(c)
    <3>1. conns' \subseteq conns
      BY <2>4 DEF ReadAnswer
    <3> QED
      BY <1>1, <2>1, <3>1
  <2> QED
    BY <1>2, <1>4, <2>1, <2>2, <2>3, <2>4
       DEF HandlerStep, ExtendSave, Save, LauncherUnreachable, ConnectionBroken, Aborted
<1>5. ASSUME NEW k \in conns, LauncherStep(k) PROVE Claims(u, p)
  <2>1. k \in Connection /\ k.user \in Hosted /\ envs' = envs
    BY <1>5 DEF LauncherStep, StartTest, Launch, StopUnit, CommandFails, Unheard, TypeInv, Gns3TypeOK, Connection
  <2>2. ASSUME NEW at, at # "launch", NEW q, Reply(k, at, q), NEW l \in ConnsFor(u)', l.at = "launch"
        PROVE  l \in ConnsFor(u)
    <3>1. [k EXCEPT !.at = at, !.port = q].at = at
      BY <2>1 DEF Connection
    <3> QED
      BY <2>2, <3>1 DEF Reply, ConnsFor
  <2>3. CASE Unheard(k)
    <3>1. conns' \subseteq conns
      BY <2>3 DEF Unheard
    <3> QED
      BY <1>1, <2>1, <2>3, <3>1 DEF Unheard
  <2>4. CASE StartTest(k)
    <3>1. \A l \in ConnsFor(u)' : l.at = "launch" => l \in ConnsFor(u)
      BY <2>2, <2>4 DEF StartTest
    <3> QED
      BY <2>4, <3>1 DEF StartTest, Claims, IsActive
  <2>5. CASE Launch(k) \/ StopUnit(k) \/ CommandFails(k)
    <3>1. \A l \in ConnsFor(u)' : l.at = "launch" => l \in ConnsFor(u)
      BY <2>2, <2>5 DEF Launch, StopUnit, CommandFails
    <3>2. CASE units'[u] = units[u] \/ units'[u].state = "off"
      BY <2>1, <3>1, <3>2 DEF Claims, IsActive
    <3>3. CASE units'[u] # units[u] /\ units'[u].state # "off"
      <4>1. u = k.user /\ k.at = "launch" /\ k \in ConnsFor(u)
        BY <2>1, <2>5, <3>3 DEF Launch, StopUnit, CommandFails, Off, ConnsFor, TypeInv, Gns3TypeOK
      <4>2. units'[u].state = "restarting" \/ units'[u] = [state |-> "active", port |-> envs[u]]
        BY <2>1, <2>5, <3>3, <4>1 DEF Launch, StopUnit, CommandFails, Off, Started, TypeInv, Gns3TypeOK
      <4>3. envs[u] = p
        BY <2>1, <3>1, <4>2 DEF Claims, IsActive
      <4> QED
        BY <4>1, <4>3 DEF Claims
    <3> QED
      BY <3>2, <3>3
  <2> QED
    BY <1>5, <2>3, <2>4, <2>5 DEF LauncherStep
<1>6. ASSUME NEW v \in Hosted, UnitStep(v) PROVE Claims(u, p)
  <2>1. ConnsFor(u)' = ConnsFor(u) /\ envs' = envs
    BY <1>6 DEF UnitStep, Bind, Respawn, Crash, ConnsFor
  <2>2. \/ units'[u] = units[u]
        \/ /\ units[u].state # "off"
           /\ IsActive(u)' => \/ IsActive(u) /\ units'[u].port = units[u].port
                              \/ units'[u].port = envs[u]
    BY <1>6 DEF UnitStep, Bind, Respawn, Crash, IsActive, Started, TypeInv, Gns3TypeOK
  <2> QED
    BY <2>1, <2>2 DEF Claims, IsActive
<1>7. CASE ApiRestarts
  <2>1. conns' = Abandoned(Workers) /\ UNCHANGED << units, envs >>
    BY <1>7 DEF ApiRestarts
  <2> QED
    BY <1>1, <2>1, AbandonedOthers
<1>8. CASE HostRestarts
  BY <1>8 DEF HostRestarts, Claims, IsActive, Off, ConnsFor
<1>9. CASE ClockTicks \/ UNCHANGED gns3Vars
  BY <1>2, <1>9 DEF ClockTicks, gns3Vars
<1> QED
  BY <1>3, <1>4, <1>5, <1>6, <1>7, <1>8, <1>9 DEF Gns3Next

\* A user whose stop sets things right claims no port when it has.
LEMMA TrustRegained ==
  ASSUME TypeInv, TypeInv', Heard, [Gns3Next]_gns3Vars, NEW u \in Hosted, Settled(u),
         trust[u] # "agrees", trust'[u] = "agrees", NEW p
  PROVE  ~ Claims(u, p)'
<1>1. PICK c \in Workers : Save(c) /\ u \in UsersOf(works[c]) /\ trust[u] = "mending"
  <2>1. ASSUME NEW c \in Workers, NEW w, Enter(c, w) PROVE FALSE
    BY <2>1 DEF Enter
  <2>2. ~ ((\E c \in Callers : Gns3Request(c)) \/ Cleanup)
    BY <2>1 DEF Gns3Request, StartSession, StopSession, ExtendSession, ForceStopAll, Cleanup, Workers
  <2>3. ASSUME NEW users, Fault(users) PROVE FALSE
    BY <2>3 DEF Fault, Astray
  <2>4. ASSUME NEW k \in conns, LauncherStep(k) PROVE FALSE
    BY <2>3, <2>4 DEF LauncherStep, StartTest, Allocate, Allocated, Launch, StopUnit, CommandFails, Unheard, Astray
  <2>5. ~ ((\E v \in Hosted : UnitStep(v)) \/ ApiRestarts \/ HostRestarts \/ ClockTicks \/ UNCHANGED gns3Vars)
    BY <2>3 DEF UnitStep, Bind, Respawn, Crash, ApiRestarts, HostRestarts, ClockTicks, gns3Vars
  <2>6. PICK c \in Workers : HandlerStep(c)
    BY <2>2, <2>4, <2>5 DEF Gns3Next
  <2>7. Save(c)
    BY <2>3, <2>6 DEF HandlerStep, ExtendSave, SendCommand, ReadAnswer, LauncherUnreachable, AnswerLost,
                      ConnectionBroken, Aborted
  <2> QED
    BY <2>7 DEF Save
<1>2. c \in WorkingFor(u) /\ Alone(u) /\ StopUnderWay(u) /\ StartUnderWay(u)
  BY <1>1 DEF Save, WorkingFor, Settled
<1>3. works[c].op = "stop"
  BY <1>1, <1>2 DEF StartUnderWay, Save, CallsLauncher
<1>4. /\ works[c].todo = {}
      /\ \A i \in DOMAIN sessions : i \in DOMAIN sessions' /\ sessions'[i].user = sessions[i].user
  BY <1>1, <1>3, StopSaved, RowIds DEF TypeInv, Session
<1>5. ConnsFor(u)' = {}
  BY <1>1, <1>2, <1>4, SaveEnds
<1>6. units[u].state = "off"
  <2>1. RowsFor(c, u) # {} /\ DoneFor(c, u) = RowsFor(c, u)
    BY <1>2, <1>3, <1>4, WorkingByRows DEF DoneFor, RowsFor, RowsOf
  <2> QED
    BY <1>2, <1>3, <2>1 DEF StopUnderWay, Stopped
<1> QED
  BY <1>1, <1>5, <1>6 DEF Save, Claims, IsActive

LEMMA AllocateExclusive ==
  ASSUME TypeInv, NEW k \in conns, Allocate(k), NEW u \in Hosted, Exclusive(u)
  PROVE  Exclusive(u)'
<1>1. PICK p \in InstancePorts : ~ ListenedOn(p) /\ Allocated(k, p)
  BY DEF Allocate
<1> DEFINE others == {v \in Hosted \ {k.user} : Contends(v, p)}
<1>2. /\ envs' = [envs EXCEPT ![k.user] = p] /\ Reply(k, "launch", p) /\ units' = units
      /\ trust' = IF others = {} THEN trust ELSE Astray(others \cup {k.user})
  BY <1>1 DEF Allocate, Allocated
<1>3. k \in Connection /\ k.user \in Hosted
  BY DEF TypeInv, Gns3TypeOK, Connection
<1>4. ASSUME NEW v \in Hosted, v # k.user, NEW q PROVE Claims(v, q)' => Claims(v, q)
  <2>1. [k EXCEPT !.at = "launch", !.port = p].user = k.user
    BY <1>3 DEF Connection
  <2>2. ConnsFor(v)' = ConnsFor(v)
    BY <1>2, <1>4, <2>1 DEF Reply, ConnsFor
  <2>3. envs'[v] = envs[v]
    BY <1>2, <1>4 DEF TypeInv, Gns3TypeOK
  <2> QED
    BY <1>2, <2>2, <2>3 DEF Claims, IsActive
<1>5. ASSUME NEW v \in Hosted, v # k.user, Claims(v, p) PROVE v \in others
  <2>1. units[v] = [state |-> units[v].state, port |-> units[v].port]
    BY DEF TypeInv, Gns3TypeOK
  <2>2. units[v] # [state |-> "listening", port |-> p]
    BY <1>1 DEF ListenedOn
  <2>3. Contends(v, p)
    BY <1>5, <2>1, <2>2 DEF Claims, IsActive, Contends, ConnsFor
  <2> QED
    BY <1>5, <2>3
<1>6. ASSUME NEW q, q # p PROVE Claims(k.user, q)' => Claims(k.user, q)
  BY <1>2, <1>3, <1>6 DEF Claims, IsActive, TypeInv, Gns3TypeOK
<1> SUFFICES ASSUME trust'[u] = "agrees", NEW v \in Hosted \ {u}, NEW q \in InstancePorts \cup {0},
                    Claims(u, q)', Claims(v, q)'
    PROVE  FALSE
  BY DEF Exclusive
<1>7. trust[u] = "agrees" /\ (u \in others \cup {k.user} => others = {})
  BY <1>2 DEF Astray
<1> HIDE DEF others
<1>8. ~ (Claims(u, q) /\ Claims(v, q))
  BY <1>7 DEF Exclusive
<1>9. CASE q # p
  BY <1>4, <1>6, <1>8, <1>9
<1>10. CASE q = p
  BY <1>4, <1>5, <1>7, <1>8, <1>10
<1> QED
  BY <1>9, <1>10

(***************************************************************************)
(* The invariant, and what follows from it.                                *)
(***************************************************************************)
LEMMA InitInv == Gns3Init => Gns3Inv
<1> SUFFICES ASSUME Gns3Init PROVE Gns3Inv
  OBVIOUS
<1>1. TypeInv
  BY InitTypes
<1>2. Heard
  BY DEF Gns3Init, Heard
<1>3. ASSUME NEW u \in Hosted PROVE Settled(u) /\ Exclusive(u)
  <2>1. Running(u) = {} /\ ConnsFor(u) = {} /\ units[u].state = "off" /\ trust[u] = "agrees"
    BY DEF Gns3Init, Running, ConnsFor, Off
  <2>2. WorkingFor(u) = {}
    BY NoWorkHandled DEF Gns3Init, WorkingFor, CallsLauncher
  <2> QED
    BY <2>1, <2>2 DEF Settled, Alone, StopUnderWay, StartUnderWay, AtRest, Exclusive, Claims, IsActive
<1> QED
  BY <1>1, <1>2, <1>3 DEF Gns3Inv

LEMMA NextInv == Gns3Inv /\ [Gns3Next]_gns3Vars => Gns3Inv'
<1> SUFFICES ASSUME Gns3Inv, [Gns3Next]_gns3Vars PROVE Gns3Inv'
  OBVIOUS
<1>1. TypeInv /\ Heard /\ \A u \in Hosted : Settled(u) /\ Exclusive(u)
  BY DEF Gns3Inv
<1>2. TypeInv'
  BY <1>1, NextTypes
<1>3. Heard'
  <2>1. CASE UNCHANGED gns3Vars
    BY <1>1, <2>1 DEF gns3Vars, Heard, Awaiting, CallsLauncher, Addressed, NextRow
  <2> QED
    BY <1>1, <1>2, <2>1, RequestHeard, HandlerHeard, LauncherHeard, MachineHeard DEF Gns3Next
<1>4. ASSUME NEW u \in Hosted PROVE Settled(u)'
  <2>1. CASE UNCHANGED gns3Vars
    BY <1>1, <2>1, LauncherFrame DEF gns3Vars, ConnsFor
  <2> QED
    BY <1>1, <1>2, <2>1, RequestSettled, HandlerSettled, LauncherSettled, MachineSettled DEF Gns3Next
<1>5. ASSUME NEW u \in Hosted PROVE Exclusive(u)'
  <2>1. CASE \E k \in conns : Allocate(k)
    BY <1>1, <2>1, AllocateExclusive
  <2>2. CASE \A k \in conns : ~ Allocate(k)
    <3>1. \A v \in Hosted, p \in InstancePorts \cup {0} : Claims(v, p)' => Claims(v, p)
      BY <1>1, <2>2, ClaimsStay
    <3>2. CASE trust[u] = "agrees"
      BY <1>1, <3>1, <3>2 DEF Exclusive
    <3>3. CASE trust[u] # "agrees" /\ trust'[u] = "agrees"
      <4>1. \A p \in InstancePorts \cup {0} : ~ Claims(u, p)'
        BY <1>1, <1>2, <3>3, TrustRegained
      <4> QED
        BY <4>1 DEF Exclusive
    <3> QED
      BY <3>2, <3>3 DEF Exclusive
  <2> QED
    BY <2>1, <2>2
<1> QED
  BY <1>2, <1>3, <1>4, <1>5 DEF Gns3Inv

LEMMA InvAlways == Gns3Spec => []Gns3Inv
BY InitInv, NextInv, PTL DEF Gns3Spec

\* While nothing is done for a user, the running session of the user and the
\* instance on the GNS3 host agree, whatever other users do and whatever fails
\* for them, unless handlers of this user met or failed and no undisturbed
\* stop has come since (property AgreeUnlessOverlap).
THEOREM AgreeUnlessOverlapAlways == Gns3Spec => []AgreeUnlessOverlap
<1>1. ASSUME Gns3Inv PROVE AgreeUnlessOverlap
  <2> SUFFICES ASSUME NEW u \in Hosted, trust[u] = "agrees", ~ Busy(u)
      PROVE  \/ Running(u) = {} /\ units[u].state = "off"
             \/ \E i \in Running(u) : /\ Running(u) = {i}
                                      /\ units[u].state # "off" /\ units[u].port = sessions[i].port
    BY DEF AgreeUnlessOverlap
  <2>1. AtRest(u) /\ WorkingFor(u) = {}
    BY <1>1 DEF Gns3Inv, Settled, Busy
  <2> QED
    BY <2>1 DEF AtRest, Serving, Serves
<1> QED
  BY <1>1, InvAlways, PTL

\* nginx takes no user whose handlers went undisturbed to the instance of
\* another user, except while the session is being stopped: no two servers
\* claim one port (property OwnInstance).
THEOREM OwnInstanceAlways == Gns3Spec => []OwnInstance
<1>1. ASSUME Gns3Inv PROVE OwnInstance
  <2> SUFFICES ASSUME NEW u \in Hosted, NEW v \in Hosted, u # v, trust[u] = "agrees",
                      units[v].state = "listening", units[v].port \in ActivePort(u)
      PROVE  \E c \in WorkingFor(u) : works[c].op = "stop"
    BY DEF OwnInstance
  <2>1. StartUnderWay(u) /\ AtRest(u) /\ Exclusive(u) /\ Gns3TypeOK
    BY <1>1 DEF Gns3Inv, TypeInv, Settled
  <2>2. PICK i \in Running(u) : units[v].port = sessions[i].port
    BY DEF ActivePort
  <2>3. CASE WorkingFor(u) = {}
    <3>1. Serves(u, units[v].port)
      BY <2>1, <2>2, <2>3 DEF AtRest, Serving
    <3>2. Claims(u, units[v].port) /\ Claims(v, units[v].port)
      BY <3>1 DEF Serves, Claims, IsActive
    <3>3. units[v].port \in InstancePorts \cup {0}
      BY <2>1 DEF Gns3TypeOK
    <3> QED
      BY <2>1, <3>2, <3>3 DEF Exclusive
  <2>4. ASSUME NEW c \in WorkingFor(u) PROVE works[c].op = "stop"
    BY <2>1, <2>2 DEF StartUnderWay, WorkingFor, CallsLauncher
  <2> QED
    BY <2>3, <2>4
<1> QED
  BY <1>1, InvAlways, PTL

==============================================================================
