------------------------- MODULE AttemptRefinement --------------------------
(***************************************************************************)
(* How the attempt endpoints relate to the promise of AttemptLifecycle.    *)
(***************************************************************************)
EXTENDS AttemptApi

\* What is seen of attempt k, or that there is none yet.
SeenOf(k) ==
  IF k \in AttemptIds
    THEN [status    |-> attempts[k].status,
          draft     |-> attempts[k].draft,
          incidents |-> attempts[k].incidents,
          reopens   |-> attempts[k].reopens]
    ELSE [status |-> "NONE", draft |-> NoDraft, incidents |-> 0, reopens |-> 0]

lives == [k \in 1..MaxAttempts |-> SeenOf(k)]

Life == INSTANCE AttemptLifecycle WITH Attempts <- 1..MaxAttempts, life <- lives

(***************************************************************************)
(* With one request slot, that is when every request runs to its end (or   *)
(* dies) before the next one arrives, the attempts live the life of        *)
(* AttemptLifecycle.                                                       *)
(***************************************************************************)
Lifecycle == Life!Spec

(***************************************************************************)
(* A request about to save is stale when what it decided on is no longer   *)
(* what the tables hold.                                                   *)
(***************************************************************************)
Stale(r) ==
  \/ reqs[r].att # 0 /\ reqs[r].row # attempts[reqs[r].att]
  \/ At(r, "revive") /\ reqs[r].has # HasSubmit(reqs[r].asg)

(***************************************************************************)
(* With any number of requests in flight, every step an attempt takes      *)
(* outside of its lifecycle is the save of a stale request: a row version  *)
(* checked by each save (and, in GetCurrent, reading the attempt before    *)
(* the submit rows) is all the endpoints lack.                             *)
(***************************************************************************)
LifecycleUnlessStale ==
  [][ \/ [Life!Next]_lives
      \/ \E r \in Requests :
            /\ Stale(r) /\ reqs'[r] # reqs[r]
            /\ \A k \in 1..MaxAttempts : k # reqs[r].att => lives'[k] = lives[k] ]_vars

(***************************************************************************)
(* The revival of a submitted attempt in GetCurrent never repairs anything *)
(* (there always is a submit row): it only ever happens to a request whose *)
(* answer to HasSubmit is out of date.                                     *)
(***************************************************************************)
ReviveIsStale ==
  \A r \in Requests : At(r, "revive") => reqs[r].has # HasSubmit(reqs[r].asg)

(***************************************************************************)
(* "Submitted attempts cannot be reopened."                                *)
(***************************************************************************)
SubmittedNotReopened ==
  [][\A k \in AttemptIds :
       attempts[k].status = "SUBMITTED" => attempts'[k].status # "ACTIVE"]_vars

============================================================================
