---------------------------- MODULE MCStudentPage ----------------------------
(***************************************************************************)
(* Instances of the student's page for TLC.  One run checks several        *)
(* scenarios, each of which is small: the initial state chooses one.       *)
(***************************************************************************)
EXTENDS StudentPage

CONSTANTS blank, typed

Quiet == [acts |-> {}, contents |-> {}, opens |-> 1, reopens |-> 0, leaves |-> 1,
          drops |-> FALSE, fails |-> {}, hasty |-> FALSE]

\* Typing against blurs and reopenings.
Drafting == [Quiet EXCEPT !.acts = {"type", "blur"}, !.contents = {typed}, !.reopens = 1]

\* Leaving the page within the client, and by closing the tab.
Leaving == [Quiet EXCEPT !.acts = {"type", "reset", "navigate", "close"}, !.contents = {typed}]

\* Coming back to it.
Returning == [Quiet EXCEPT !.acts = {"navigate", "close"}, !.opens = 2]

\* Submitting by hand and at the deadline, leaving meanwhile.
Deadline == [Quiet EXCEPT !.acts = {"submit", "tick"}]
Departing == [Quiet EXCEPT !.acts = {"submit", "navigate"}]

\* Coming back while a submit is on its way, and leaving again.
Resuming == [Quiet EXCEPT !.acts = {"submit", "navigate"}, !.opens = 2, !.leaves = 2,
                          !.reopens = 1, !.hasty = TRUE]

\* The connection breaks, or calls are lost.
Dropping == [Quiet EXCEPT !.acts = {"blur"}, !.reopens = 1, !.drops = TRUE]
Losing == [Quiet EXCEPT !.acts = {"navigate"}, !.reopens = 1, !.fails = AllOps]

\* Typing while calls are lost, but no saves.
Deaf == [Quiet EXCEPT !.acts = {"type", "blur"}, !.contents = {typed},
                      !.fails = {"get", "lock"}]

Each == {Drafting, Leaving, Returning, Deadline, Departing, Resuming, Dropping, Losing, Deaf}

============================================================================
