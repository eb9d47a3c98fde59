-------------------------- MODULE AttemptLifecycle --------------------------
(***************************************************************************)
(* What the attempt endpoints promise of the attempts when no two requests *)
(* overlap: a draft is saved while the attempt is active, a lock freezes   *)
(* it until a teacher reopens it, a submitted attempt is final, and the    *)
(* two counters count every lock and every reopen.                         *)
(***************************************************************************)
EXTENDS Naturals

CONSTANTS Attempts, Answers, NoDraft

VARIABLE life     \* attempt -> what its student and its teacher see of it

NotCreated == [status |-> "NONE", draft |-> NoDraft, incidents |-> 0, reopens |-> 0]

Init == life = [k \in Attempts |-> NotCreated]

Becomes(k, row) == life' = [life EXCEPT ![k] = row]

Create(k) ==
  /\ life[k].status = "NONE"
  /\ Becomes(k, [life[k] EXCEPT !.status = "ACTIVE"])

Save(k, draft) ==
  /\ life[k].status = "ACTIVE"
  /\ Becomes(k, [life[k] EXCEPT !.draft = draft])

Lock(k, draft) ==
  /\ life[k].status \in {"ACTIVE", "LOCKED"}
  /\ Becomes(k, [life[k] EXCEPT !.status = "LOCKED", !.draft = draft,
                                !.incidents = @ + 1])

Reopen(k) ==
  /\ life[k].status \in {"ACTIVE", "LOCKED"}
  /\ Becomes(k, [life[k] EXCEPT !.status = "ACTIVE", !.reopens = @ + 1])

Submit(k, draft) ==
  /\ life[k].status = "ACTIVE"
  /\ Becomes(k, [life[k] EXCEPT !.status = "SUBMITTED", !.draft = draft])

Step(k) ==
  \/ Create(k)
  \/ Reopen(k)
  \/ \E draft \in Answers : Save(k, draft) \/ Lock(k, draft) \/ Submit(k, draft)

Next == \E k \in Attempts : Step(k)

Spec == Init /\ [][Next]_life

============================================================================
