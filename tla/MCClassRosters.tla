--------------------------- MODULE MCClassRosters ---------------------------
(***************************************************************************)
(* Instances of the class rosters for TLC.                                 *)
(***************************************************************************)
EXTENDS ClassRosters, TLC

CONSTANTS s1, s2, A, B

Alone == [searches |-> FALSE, switches |-> FALSE, details |-> FALSE, adds |-> FALSE, others |-> 0, calls |-> 2,
          starts |-> {[c \in Classes |-> IF c = A THEN {s1, s2} ELSE {s1}]}]

\* One user and a search; two classes; both views of a class; two users.
Searching == [Alone EXCEPT !.searches = TRUE, !.adds = TRUE, !.calls = 1]
Switching == [Alone EXCEPT !.switches = TRUE, !.calls = 1]
TwoViews  == [Alone EXCEPT !.details = TRUE]
Shared    == [Alone EXCEPT !.others = 2, !.adds = TRUE]

Each == {Searching, Switching, TwoViews, Shared}

OnlySearching == {Searching}

============================================================================
