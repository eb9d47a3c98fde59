------------------------ MODULE ClassRosters_proofs ------------------------
(***************************************************************************)
(* For any classes, students, users and number of calls: a removal takes   *)
(* out only the students it was confirmed for, unless there is a reason    *)
(* that ClassRosters names.                                                *)
(*                                                                         *)
(* The inductive invariant follows an answer from the server to the cache, *)
(* to the list of a call and back to the server: as long as no reason is   *)
(* noted for it, it is what is stored.                                     *)
(***************************************************************************)
EXTENDS ClassRosters, TLAPS

HonestAnswer(k, answer) == answer.since = {} => answer.data = Asked(k)

NoReason(call) == call.key.search = "all" /\ ~ call.borrowed /\ call.since = {}

HonestCall(call) ==
  (call.does = "remove" /\ NoReason(call)) =>
    /\ call.at = "sent" => call.list = member[call.key.class] \ call.chosen
    /\ call.at = "loaded" => Leaving(call) \subseteq call.chosen /\ Joining(call) = {}

HonestCalls(called) == \A j \in Ids : HonestCall(called[j])

Honest ==
  /\ \A k \in Keys : cache[k].at # "empty" => HonestAnswer(k, cache[k].is)
  /\ \A k \in Keys : fetch[k].at = "read" => HonestAnswer(k, fetch[k].is)
  /\ page.from \in Keys => cache[page.from].at # "empty"
  /\ page.chosen # {} => page.from \in Keys
  /\ HonestCalls(calls)

Inv == TypeOK /\ Honest

----------------------------------------------------------------------------
\* A key is known by its parts, and NoKey is none.
LEMMA KeyParts ==
  /\ NoKey \notin Keys
  /\ FirstKey \in Keys
  /\ \A k \in Keys : k.class \in Classes /\ k.view \in {"list", "details"} /\ k.search \in {"all", "text"}
  /\ \A c \in Classes : [view |-> "details", class |-> c, search |-> "all"] \in Keys
<1>1. \A k \in Keys : k.class \in Classes /\ k.view \in {"list", "details"} /\ k.search \in {"all", "text"}
  BY DEF Keys
<1>2. NoKey \notin Keys
  BY <1>1 DEF NoKey
<1>3. FirstKey \in Keys
  BY RostersAssumption DEF FirstKey, Keys
<1>4. ASSUME NEW c \in Classes
      PROVE  [view |-> "details", class |-> c, search |-> "all"] \in Keys
  <2>1. \E d \in Classes : [view |-> "details", class |-> c, search |-> "all"]
                            = [view |-> "details", class |-> d, search |-> "all"]
    OBVIOUS
  <2> QED
    BY <2>1 DEF Keys
<1> QED
  BY <1>1, <1>2, <1>3, <1>4

LEMMA AskedType ==
  ASSUME member \in [Classes -> SUBSET Students], NEW k \in Keys
  PROVE  Asked(k) \in SUBSET Students
BY KeyParts DEF Asked

\* What the server has changed leaves nothing honest that is older than the change.
LEMMA BecomesKeepsType ==
  ASSUME TypeOK, NEW i, NEW c \in Classes, NEW m \in SUBSET Students,
         NEW called \in [Ids -> CallRecords], Becomes(i, c, m, called),
         i = 0 \/ i \in Ids
  PROVE  /\ member' \in [Classes -> SUBSET Students]
         /\ cache' \in [Keys -> Entries]
         /\ fetch' \in [Keys -> Fetches]
         /\ calls' \in [Ids -> CallRecords]
<1>1. \A k \in Keys : Why(i, k) \in Whys
  BY DEF Why, Whys
<1>2. \A k \in Keys, a \in Answers : Older(i, c, k, a) \in Answers
  BY <1>1 DEF Older, Answers
<1>3. cache' \in [Keys -> Entries]
  BY <1>2 DEF Becomes, TypeOK, Entries
<1>4. fetch' \in [Keys -> Fetches]
  BY <1>2 DEF Becomes, TypeOK, Fetches
<1>5. ASSUME NEW j \in Ids
      PROVE  /\ called[j] \in CallRecords
             /\ [called[j] EXCEPT !.since = @ \cup {Why(i, called[j].key)}] \in CallRecords
  <2>1. called[j] \in CallRecords
    OBVIOUS
  <2>2. Why(i, called[j].key) \in Whys
    BY <2>1, <1>1 DEF CallRecords
  <2> QED
    BY <2>1, <2>2 DEF CallRecords
<1>6. calls' \in [Ids -> CallRecords]
  BY <1>5 DEF Becomes
<1> QED
  BY <1>3, <1>4, <1>6 DEF Becomes, TypeOK

\* No answer, and no list of a call, is honest about a class that has changed,
\* and every other is as honest as it was.
LEMMA BecomesKeepsHonest ==
  ASSUME TypeOK, Honest, NEW i, NEW c \in Classes, NEW m \in SUBSET Students,
         NEW called \in [Ids -> CallRecords], Becomes(i, c, m, called),
         i = 0 \/ i \in Ids, page' = page,
         HonestCalls(called)
  PROVE  Honest'
<1>1. \A k \in Keys, a \in Answers : k.class = c => Older(i, c, k, a).since # {}
  BY DEF Older, Answers
<1>2. \A k \in Keys, a \in Answers : k.class # c => Older(i, c, k, a) = a
  BY DEF Older
<1>3. ASSUME NEW k \in Keys, k.class # c
      PROVE  Asked(k)' = Asked(k)
  BY <1>3, KeyParts DEF Asked, Becomes, TypeOK
<1>4. ASSUME NEW k \in Keys, cache'[k].at # "empty"
      PROVE  HonestAnswer(k, cache[k].is)' /\ cache[k].at # "empty"
  <2>1. cache[k] \in Entries
    BY DEF TypeOK
  <2>2. cache[k].at # "empty" /\ cache'[k].is = Older(i, c, k, cache[k].is)
    BY <1>4, <2>1 DEF Becomes, Entries
  <2>3. CASE k.class = c
    BY <2>1, <2>2, <2>3, <1>1 DEF Entries, HonestAnswer
  <2>4. CASE k.class # c
    BY <2>1, <2>2, <2>4, <1>2, <1>3 DEF Entries, HonestAnswer, Honest
  <2> QED
    BY <2>2, <2>3, <2>4
<1>5. ASSUME NEW k \in Keys, fetch'[k].at = "read"
      PROVE  HonestAnswer(k, fetch[k].is)'
  <2>1. fetch[k] \in Fetches
    BY DEF TypeOK
  <2>2. fetch[k].at = "read" /\ fetch'[k].is = Older(i, c, k, fetch[k].is)
    BY <1>5, <2>1 DEF Becomes, Fetches
  <2>3. CASE k.class = c
    BY <2>1, <2>2, <2>3, <1>1 DEF Fetches, HonestAnswer
  <2>4. CASE k.class # c
    BY <2>1, <2>2, <2>4, <1>2, <1>3 DEF Fetches, HonestAnswer, Honest
  <2> QED
    BY <2>3, <2>4
<1>6. ASSUME NEW k \in Keys, cache[k].at # "empty"
      PROVE  cache'[k].at # "empty"
  BY <1>6 DEF Becomes, TypeOK, Entries
<1>7. ASSUME NEW j \in Ids
      PROVE  HonestCall(calls[j])'
  <2> DEFINE call == called[j]
  <2>0. call \in CallRecords /\ HonestCall(call)
    BY DEF HonestCalls
  <2>1. CASE call.at = "sent" /\ call.does = "remove" /\ call.key.class = c
    <3>1. calls'[j] = [call EXCEPT !.since = @ \cup {Why(i, call.key)}]
      BY <2>1 DEF Becomes
    <3>2. calls'[j].since # {} /\ calls'[j].at = "sent"
      BY <3>1, <2>0, <2>1 DEF CallRecords
    <3> QED
      BY <3>2 DEF HonestCall, NoReason
  <2>2. CASE ~ (call.at = "sent" /\ call.does = "remove" /\ call.key.class = c)
    <3>1. calls'[j] = call
      BY <2>2 DEF Becomes
    <3>2. call.at = "sent" /\ call.does = "remove" => member'[call.key.class] = member[call.key.class]
      BY <2>0, <2>2, KeyParts DEF Becomes, CallRecords, TypeOK
    <3> QED
      BY <3>1, <3>2, <2>0 DEF HonestCall, NoReason, Leaving, Joining
  <2> QED
    BY <2>1, <2>2
<1> QED
  BY <1>4, <1>5, <1>6, <1>7 DEF Honest, HonestCalls

----------------------------------------------------------------------------
LEMMA InitInv == Init => Inv
<1> SUFFICES ASSUME Init
             PROVE  Inv
  OBVIOUS
<1>1. TypeOK
  <2>1. Nothing \in Answers /\ Idle \in Fetches /\ Sent \in Fetches
    BY DEF Nothing, Answers, Idle, Sent, Fetches
  <2>2. NoCall("idle") \in CallRecords
    BY KeyParts DEF NoCall, CallRecords
  <2>3. member \in [Classes -> SUBSET Students]
    BY RostersAssumption DEF Init
  <2>4. [at |-> "empty", is |-> Nothing] \in Entries
    BY <2>1 DEF Entries
  <2>5. cache \in [Keys -> Entries] /\ fetch \in [Keys -> Fetches] /\ calls \in [Ids -> CallRecords]
    BY <2>1, <2>2, <2>4 DEF Init
  <2> QED
    BY <2>3, <2>5, KeyParts DEF Init, TypeOK
<1>2. Honest
  BY KeyParts DEF Init, Honest, HonestCalls, HonestCall, NoCall, Idle, Sent
<1> QED
  BY <1>1, <1>2 DEF Inv

\* Answers come and go: nothing that is stored changes.
LEMMA ServeFetchInv == ASSUME Inv, NEW k \in Keys, ServeFetch(k) PROVE Inv'
<1> USE DEF Inv
<1>1. TypeOK'
  BY AskedType DEF TypeOK, ServeFetch, Fetches, Answers
<1>2. \A q \in Keys : Asked(q)' = Asked(q)
  BY DEF ServeFetch, Asked
<1>3. ASSUME NEW q \in Keys, fetch'[q].at = "read"
      PROVE  HonestAnswer(q, fetch[q].is)'
  BY <1>2, <1>3 DEF ServeFetch, TypeOK, Honest, HonestAnswer
<1> QED
  BY <1>1, <1>2, <1>3
     DEF ServeFetch, Honest, HonestAnswer, HonestCalls, HonestCall, NoReason, Leaving, Joining

LEMMA FetchAnsweredInv == ASSUME Inv, NEW k \in Keys, FetchAnswered(k) PROVE Inv'
<1> USE DEF Inv
<1>0. fetch[k] \in Fetches /\ Idle \in Fetches
  BY DEF TypeOK, Idle, Fetches, Nothing, Answers
<1>1. TypeOK'
  <2>1. [at |-> "valid", is |-> fetch[k].is] \in Entries
    BY <1>0 DEF Fetches, Entries
  <2> QED
    BY <1>0, <2>1 DEF TypeOK, FetchAnswered
<1>2. \A q \in Keys : Asked(q)' = Asked(q)
  BY DEF FetchAnswered, Asked
<1>3. ASSUME NEW q \in Keys, fetch'[q].at = "read"
      PROVE  HonestAnswer(q, fetch[q].is)'
  BY <1>2, <1>3 DEF FetchAnswered, TypeOK, Honest, HonestAnswer, Idle
<1>4. ASSUME NEW q \in Keys, cache'[q].at # "empty"
      PROVE  HonestAnswer(q, cache[q].is)'
  BY <1>2, <1>4 DEF FetchAnswered, TypeOK, Honest, HonestAnswer
<1>5. page'.chosen = page.chosen /\ (page'.from = page.from \/ page'.from = k)
  BY DEF FetchAnswered, TypeOK
<1>6. page'.from \in Keys => cache'[page'.from].at # "empty"
  BY <1>5 DEF FetchAnswered, TypeOK, Honest
<1>7. page'.chosen # {} => page'.from \in Keys
  BY <1>5 DEF Honest
<1> QED
  BY <1>1, <1>3, <1>4, <1>6, <1>7
     DEF FetchAnswered, Honest, HonestCalls, HonestCall, NoReason, Leaving, Joining

LEMMA ShowInv ==
  ASSUME Inv, NEW k \in Keys, NEW before \in Keys \cup {NoKey},
         before \in Keys => before = page.from,
         Show(k, before), UNCHANGED << scenario, member, cache, calls, others >>
  PROVE  Inv'
<1> USE DEF Inv
<1>1. From(k, before) \in Keys \cup {NoKey}
  BY DEF From
<1>2. Sent \in Fetches
  BY DEF Sent, Fetches, Nothing, Answers
<1>3. fetch' = fetch \/ fetch' = [fetch EXCEPT ![k] = Sent]
  BY DEF Show
<1>4. page' = [key |-> k, from |-> From(k, before), chosen |-> {}]
  BY DEF Show
<1>5. TypeOK'
  BY <1>1, <1>2, <1>3, <1>4 DEF TypeOK
<1>6. \A q \in Keys : Asked(q)' = Asked(q)
  BY DEF Asked
<1>7. ASSUME NEW q \in Keys, fetch'[q].at = "read"
      PROVE  HonestAnswer(q, fetch[q].is)'
  BY <1>3, <1>6, <1>7 DEF TypeOK, Honest, HonestAnswer, Sent
<1>8. page'.from \in Keys => cache'[page'.from].at # "empty"
  BY <1>4 DEF From, Honest
<1> QED
  BY <1>4, <1>5, <1>6, <1>7, <1>8
     DEF Honest, HonestAnswer, HonestCalls, HonestCall, NoReason, Leaving, Joining

\* Only the calls change, and those as honestly as before.
LEMMA CallsInv ==
  ASSUME Inv, calls' \in [Ids -> CallRecords], HonestCalls(calls'),
         page' \in [key : Keys, from : Keys \cup {NoKey}, chosen : SUBSET Students],
         page'.from = page.from, page'.chosen # {} => page'.from \in Keys,
         UNCHANGED << scenario, member, cache, fetch, others >>
  PROVE  Inv'
<1>1. TypeOK'
  BY DEF Inv, TypeOK
<1>2. \A q \in Keys : Asked(q)' = Asked(q)
  BY DEF Asked
<1>3. HonestCalls(calls)'
  BY DEF HonestCalls, HonestCall, NoReason, Leaving, Joining
<1> QED
  BY <1>1, <1>2, <1>3 DEF Inv, Honest, HonestAnswer

LEMMA DialogInv == ASSUME Inv, (\E chosen \in SUBSET Students : Choose(chosen)) \/ Cancel PROVE Inv'
<1>1. /\ page' \in [key : Keys, from : Keys \cup {NoKey}, chosen : SUBSET Students]
      /\ page'.from = page.from /\ (page'.chosen # {} => page.from \in Keys)
      /\ UNCHANGED << scenario, member, cache, fetch, calls, others >>
  BY DEF Choose, Cancel, Loaded, Inv, TypeOK
<1> QED
  BY <1>1, CallsInv DEF Inv, TypeOK, Honest

LEMMA ConfirmInv == ASSUME Inv, NEW i \in Ids, Confirm(i) PROVE Inv'
<1> USE DEF Inv
<1>1. page.from \in Keys /\ page.key \in Keys /\ page.chosen \in SUBSET Students
  BY DEF Confirm, Honest, TypeOK
<1>2. cache[page.from] \in Entries /\ cache[page.from].is \in Answers /\ Shown \in SUBSET Students
  BY <1>1 DEF TypeOK, Entries, Answers, Shown
<1> DEFINE call == [at |-> "sent", does |-> "remove", key |-> page.key, chosen |-> page.chosen,
                    list |-> Shown \ page.chosen, loaded |-> {}, since |-> cache[page.from].is.since,
                    borrowed |-> page.from # page.key]
<1>3. call \in CallRecords
  BY <1>1, <1>2 DEF CallRecords, Answers
<1>4. calls' = [calls EXCEPT ![i] = call]
  BY DEF Confirm
<1>5. HonestCall(call)
  <2> SUFFICES ASSUME NoReason(call)
               PROVE  Shown \ page.chosen = member[page.key.class] \ page.chosen
    BY DEF HonestCall
  <2>1. page.from = page.key /\ page.key.search = "all" /\ cache[page.from].is.since = {}
    BY <1>1 DEF NoReason
  <2>2. Shown = Asked(page.key)
    BY <1>1, <2>1 DEF Honest, HonestAnswer, Shown
  <2> QED
    BY <2>1, <2>2 DEF Asked
<1>6. HonestCalls(calls')
  BY <1>4, <1>5 DEF Honest, HonestCalls, TypeOK
<1>7. calls' \in [Ids -> CallRecords]
  BY <1>3, <1>4 DEF TypeOK
<1> HIDE DEF call
<1>8. /\ page' \in [key : Keys, from : Keys \cup {NoKey}, chosen : SUBSET Students]
      /\ page'.from = page.from /\ page'.chosen = {}
      /\ UNCHANGED << scenario, member, cache, fetch, others >>
  BY DEF Confirm, TypeOK
<1> QED
  BY <1>6, <1>7, <1>8, CallsInv

LEMMA AddStudentInv == ASSUME Inv, NEW i \in Ids, NEW s \in Students, AddStudent(i, s) PROVE Inv'
<1> USE DEF Inv
<1> DEFINE call == [at |-> "sent", does |-> "add", key |-> page.key, chosen |-> {s}, list |-> {}, loaded |-> {},
                    since |-> {}, borrowed |-> FALSE]
<1>1. call \in CallRecords /\ HonestCall(call)
  BY DEF CallRecords, TypeOK, HonestCall
<1>2. calls' = [calls EXCEPT ![i] = call]
  BY DEF AddStudent
<1>3. HonestCalls(calls')
  BY <1>1, <1>2 DEF Honest, HonestCalls, TypeOK
<1>4. calls' \in [Ids -> CallRecords]
  BY <1>1, <1>2 DEF TypeOK
<1> HIDE DEF call
<1>5. page' = page /\ UNCHANGED << scenario, member, cache, fetch, others >>
  BY DEF AddStudent
<1> QED
  BY <1>3, <1>4, <1>5, CallsInv DEF TypeOK, Honest

LEMMA LoadClassInv == ASSUME Inv, NEW i \in Ids, LoadClass(i) PROVE Inv'
<1> USE DEF Inv
<1>1. calls[i] \in CallRecords /\ calls[i].key.class \in Classes
  BY KeyParts DEF TypeOK, CallRecords
<1> DEFINE call == [calls[i] EXCEPT !.at = "loaded", !.loaded = member[calls[i].key.class]]
<1>2. calls' = [calls EXCEPT ![i] = call]
  BY <1>1 DEF LoadClass, TypeOK, CallRecords
<1>3. call \in CallRecords
  BY <1>1 DEF TypeOK, CallRecords
<1>4. HonestCall(call)
  <2>1. HonestCall(calls[i]) /\ calls[i].at = "sent"
    BY DEF LoadClass, Honest, HonestCalls
  <2> QED
    BY <1>1, <2>1 DEF HonestCall, NoReason, Leaving, Joining, CallRecords
<1>6. HonestCalls(calls')
  BY <1>2, <1>4 DEF Honest, HonestCalls, TypeOK
<1>7. calls' \in [Ids -> CallRecords]
  BY <1>2, <1>3 DEF TypeOK
<1> HIDE DEF call
<1>8. page' = page /\ UNCHANGED << scenario, member, cache, fetch, others >>
  BY DEF LoadClass
<1> QED
  BY <1>6, <1>7, <1>8, CallsInv DEF TypeOK, Honest

\* The calls when one of them has been saved or is over.
LEMMA CallEnds ==
  ASSUME Inv, NEW i \in Ids, NEW call \in CallRecords, call.at \in {"saved", "over"}
  PROVE  /\ [calls EXCEPT ![i] = call] \in [Ids -> CallRecords]
         /\ HonestCalls([calls EXCEPT ![i] = call])
<1>1. HonestCall(call)
  BY DEF HonestCall
<1> QED
  BY <1>1 DEF Inv, TypeOK, Honest, HonestCalls

LEMMA BecomesInv ==
  ASSUME Inv, NEW i, i = 0 \/ i \in Ids, NEW c \in Classes, NEW m \in SUBSET Students,
         NEW called \in [Ids -> CallRecords], HonestCalls(called),
         Becomes(i, c, m, called), UNCHANGED << scenario, page >>, others' \in Nat
  PROVE  Inv'
<1>1. TypeOK /\ Honest
  BY DEF Inv
<1>2. TypeOK'
  BY <1>1, BecomesKeepsType DEF TypeOK
<1>3. Honest'
  BY <1>1, BecomesKeepsHonest
<1> QED
  BY <1>2, <1>3 DEF Inv

LEMMA NoCallType == NoCall("over") \in CallRecords /\ NoCall("over").at = "over"
BY KeyParts DEF NoCall, CallRecords

LEMMA SaveClassInv == ASSUME Inv, NEW i \in Ids, SaveClass(i) PROVE Inv'
<1> USE DEF Inv
<1> DEFINE call == [calls[i] EXCEPT !.at = "saved"]
           c == calls[i].key.class
           m == (member[c] \ Leaving(calls[i])) \cup Joining(calls[i])
           called == [calls EXCEPT ![i] = call]
<1>1. calls[i] \in CallRecords /\ c \in Classes
  BY KeyParts DEF TypeOK, CallRecords
<1>2. CASE ~ Fits(calls[i])
  <2>1. calls' = [calls EXCEPT ![i] = NoCall("over")] /\ page' = page
        /\ UNCHANGED << scenario, member, cache, fetch, others >>
    BY <1>2 DEF SaveClass
  <2>2. /\ [calls EXCEPT ![i] = NoCall("over")] \in [Ids -> CallRecords]
        /\ HonestCalls([calls EXCEPT ![i] = NoCall("over")])
    BY NoCallType, CallEnds
  <2>3. calls' \in [Ids -> CallRecords] /\ HonestCalls(calls')
    BY <2>1, <2>2
  <2> QED
    BY <2>1, <2>3, CallsInv DEF TypeOK, Honest
<1>3. CASE Fits(calls[i])
  <2>1. call \in CallRecords /\ call.at = "saved"
    BY <1>1 DEF CallRecords
  <2>2. [calls EXCEPT ![i].at = "saved"] = called
    BY DEF TypeOK
  <2>3. called \in [Ids -> CallRecords] /\ HonestCalls(called)
    BY <2>1, CallEnds
  <2>4. Becomes(i, c, m, called)
    BY <1>3, <2>2 DEF SaveClass
  <2>5. m \in SUBSET Students
    BY <1>1 DEF TypeOK, CallRecords, Leaving, Joining
  <2>6. UNCHANGED << scenario, page >> /\ others' \in Nat
    BY DEF SaveClass, TypeOK
  <2> HIDE DEF called, c, m
  <2> QED
    BY <1>1, <2>3, <2>4, <2>5, <2>6, BecomesInv
<1> QED
  BY <1>2, <1>3

LEMMA AnsweredInv == ASSUME Inv, NEW i \in Ids, Answered(i) PROVE Inv'
<1> USE DEF Inv
<1>1. Sent \in Fetches
  BY DEF Sent, Fetches, Nothing, Answers
<1>2. ASSUME NEW k \in Keys
      PROVE  /\ fetch'[k] \in Fetches
             /\ fetch'[k].at = "read" => /\ fetch[k].at = "read"
                                         /\ fetch'[k].is.since = {} => fetch'[k].is = fetch[k].is
  <2>1. fetch[k] \in Fetches
    BY DEF TypeOK
  <2>2. fetch'[k] = IF Hit(calls[i], k) THEN Refetched(k) ELSE fetch[k]
    BY DEF Answered
  <2> DEFINE overtaken == [fetch[k] EXCEPT !.is.since = @ \cup {"overtaken"}]
  <2>3. overtaken \in Fetches /\ overtaken.at = fetch[k].at /\ overtaken.is.since # {}
    BY <2>1 DEF Fetches, Answers, Whys
  <2>4. fetch'[k] = Sent \/ fetch'[k] = fetch[k] \/ (fetch[k].at = "read" /\ fetch'[k] = overtaken)
    BY <2>2 DEF Refetched
  <2> HIDE DEF overtaken
  <2>5. Sent.at = "sent"
    BY DEF Sent
  <2> QED
    BY <1>1, <2>1, <2>3, <2>4, <2>5
<1>3. ASSUME NEW k \in Keys
      PROVE  /\ cache'[k] \in Entries /\ cache'[k].is = cache[k].is
             /\ cache'[k].at = "empty" <=> cache[k].at = "empty"
  BY DEF Answered, TypeOK, Entries
<1>4. /\ calls' \in [Ids -> CallRecords]
      /\ HonestCalls(calls')
  <2>1. calls' = [calls EXCEPT ![i] = NoCall("over")]
    BY DEF Answered
  <2>2. /\ [calls EXCEPT ![i] = NoCall("over")] \in [Ids -> CallRecords]
        /\ HonestCalls([calls EXCEPT ![i] = NoCall("over")])
    BY NoCallType, CallEnds
  <2> QED
    BY <2>1, <2>2
<1>5. UNCHANGED << scenario, member, page, others >>
  BY DEF Answered
<1>6. cache' \in [Keys -> Entries] /\ fetch' \in [Keys -> Fetches]
  BY <1>2, <1>3 DEF Answered
<1>7. TypeOK'
  BY <1>4, <1>5, <1>6 DEF TypeOK
<1>8. \A q \in Keys : Asked(q)' = Asked(q)
  BY <1>5 DEF Asked
<1>9. ASSUME NEW k \in Keys
      PROVE  /\ cache'[k].at # "empty" => HonestAnswer(k, cache[k].is)'
             /\ fetch'[k].at = "read" => HonestAnswer(k, fetch[k].is)'
  BY <1>2, <1>3, <1>8 DEF Honest, HonestAnswer
<1>10. HonestCalls(calls)'
  BY <1>4, <1>5 DEF HonestCalls, HonestCall, NoReason, Leaving, Joining
<1> QED
  BY <1>3, <1>4, <1>5, <1>7, <1>9, <1>10 DEF Honest

LEMMA OthersChangeInv ==
  ASSUME Inv, NEW c \in Classes, NEW s \in Students, OthersChange(c, s) PROVE Inv'
<1> USE DEF Inv
<1>1. calls \in [Ids -> CallRecords] /\ HonestCalls(calls)
  BY DEF TypeOK, Honest
<1>2. UNCHANGED << scenario, page >> /\ others' \in Nat
  BY DEF OthersChange, TypeOK
<1>3. member[c] \cup {s} \in SUBSET Students /\ member[c] \ {s} \in SUBSET Students
  BY DEF TypeOK
<1>4. Becomes(0, c, member[c] \cup {s}, calls) \/ Becomes(0, c, member[c] \ {s}, calls)
  BY DEF OthersChange
<1> QED
  BY <1>1, <1>2, <1>3, <1>4, BecomesInv

LEMMA NextInv == Inv /\ [Next]_vars => Inv'
<1> SUFFICES ASSUME Inv, [Next]_vars
             PROVE  Inv'
  OBVIOUS
<1>1. ASSUME NEW k \in Keys, Select(k)
      PROVE  Inv'
  BY <1>1, ShowInv DEF Select, Inv, TypeOK
<1>2. CASE OpenDetails \/ Back
  <2> DEFINE k == IF Back THEN FirstKey ELSE [view |-> "details", class |-> page.key.class, search |-> "all"]
  <2>1. k \in Keys
    BY KeyParts DEF Inv, TypeOK
  <2>2. Show(k, NoKey) /\ UNCHANGED << scenario, member, cache, calls, others >>
    BY <1>2 DEF OpenDetails, Back
  <2> HIDE DEF k
  <2> QED
    BY <2>1, <2>2, ShowInv, KeyParts
<1>3. CASE UNCHANGED vars
  BY <1>3 DEF vars, Inv, TypeOK, Honest, HonestAnswer, Asked, HonestCalls, HonestCall,
              NoReason, Leaving, Joining
<1> QED
  BY <1>1, <1>2, <1>3, ServeFetchInv, FetchAnsweredInv, DialogInv, ConfirmInv, AddStudentInv,
     LoadClassInv, SaveClassInv, AnsweredInv, OthersChangeInv DEF Next

\* The page, its cache and the calls keep their types.
THEOREM RostersTypeCorrect == Spec => []TypeOK
<1>1. Inv => TypeOK
  BY DEF Inv
<1> QED
  BY <1>1, InitInv, NextInv, PTL DEF Spec

\* What the saving of a removal does to the class it is for.
LEMMA SavedRemoval ==
  ASSUME Inv, [Next]_vars, NEW i \in Ids, calls[i].at = "loaded", calls'[i].at = "saved"
  PROVE  member'[calls[i].key.class]
           = (member[calls[i].key.class] \ Leaving(calls[i])) \cup Joining(calls[i])
<1> USE DEF Inv
<1>0. calls[i] \in CallRecords /\ calls[i].key.class \in Classes
  BY KeyParts DEF TypeOK, CallRecords
<1>1. SaveClass(i)
  <2>1. ASSUME NEW j \in Ids, NEW c, NEW m, NEW k, NEW called, Becomes(k, c, m, called),
               called[j].at = "loaded"
        PROVE  calls'[j].at = "loaded"
    BY <2>1 DEF Becomes
  <2>2. calls' # calls
    OBVIOUS
  <2>3. ASSUME NEW c \in Classes, NEW s \in Students, OthersChange(c, s)
        PROVE  FALSE
    BY <2>1, <2>3 DEF OthersChange
  <2>4. ASSUME NEW j \in Ids, Confirm(j) \/ LoadClass(j) \/ Answered(j)
        PROVE  FALSE
    BY <2>4, <1>0 DEF Confirm, LoadClass, Answered, TypeOK, Unused, NoCall
  <2>5. ASSUME NEW j \in Ids, NEW s \in Students, AddStudent(j, s)
        PROVE  FALSE
    BY <2>5, <1>0 DEF AddStudent, TypeOK, Unused
  <2>6. ASSUME NEW j \in Ids, SaveClass(j), j # i
        PROVE  FALSE
    <3>1. [calls EXCEPT ![j].at = "saved"][i].at = "loaded"
      BY <2>6 DEF TypeOK
    <3>2. calls' # [calls EXCEPT ![j] = NoCall("over")]
      BY <2>6 DEF TypeOK
    <3> QED
      BY <2>1, <2>6, <3>1, <3>2 DEF SaveClass
  <2> QED
    BY <2>2, <2>3, <2>4, <2>5, <2>6
       DEF Next, vars, ServeFetch, FetchAnswered, Select, OpenDetails, Back, Choose, Cancel
<1>2. calls' # [calls EXCEPT ![i] = NoCall("over")]
  BY DEF TypeOK, NoCall
<1> QED
  BY <1>0, <1>1, <1>2 DEF SaveClass, Becomes, TypeOK

\* A removal takes out those it was confirmed for and no one else, and brings no
\* one back, unless one of the reasons of OnlyChosenLeave is there: whatever the
\* number of classes, students, calls and users, and however they overlap.
THEOREM OnlyChosenLeaveAlways == Spec => OnlyChosenLeave
<1>1. ASSUME Inv, [Next]_vars, NEW i \in Ids, RemovalSaved(i)
      PROVE  \/ Gone(i) \subseteq calls[i].chosen /\ Returned(i) = {}
             \/ calls[i].key.search = "text" \/ calls[i].borrowed \/ calls[i].since # {}
  <2>1. calls[i] \in CallRecords /\ calls[i].key.search \in {"all", "text"}
    BY <1>1, KeyParts DEF Inv, TypeOK, CallRecords
  <2>2. HonestCall(calls[i]) /\ calls[i].at = "loaded" /\ calls[i].does = "remove"
    BY <1>1 DEF RemovalSaved, Inv, Honest, HonestCalls
  <2>3. CASE NoReason(calls[i])
    <3>1. Leaving(calls[i]) \subseteq calls[i].chosen /\ Joining(calls[i]) = {}
      BY <2>2, <2>3 DEF HonestCall
    <3>2. member'[calls[i].key.class]
            = (member[calls[i].key.class] \ Leaving(calls[i])) \cup Joining(calls[i])
      BY <1>1, SavedRemoval DEF RemovalSaved
    <3> QED
      BY <3>1, <3>2 DEF Gone, Returned
  <2>4. CASE ~ NoReason(calls[i])
    BY <2>1, <2>4 DEF NoReason
  <2> QED
    BY <2>3, <2>4
<1>2. Inv /\ [Next]_vars => [ChosenLeave]_vars
  BY <1>1 DEF ChosenLeave
<1> QED
  BY <1>2, InitInv, NextInv, PTL DEF Spec, OnlyChosenLeave

\* The students of another class or search can be taken for those of this one
\* only while this one is being fetched.
THEOREM BorrowedWhileLoadingAlways == Spec => []BorrowedWhileLoading
<1>1. Init => BorrowedWhileLoading
  BY KeyParts DEF Init, BorrowedWhileLoading, Sent
<1>2. ASSUME Inv, BorrowedWhileLoading, [Next]_vars
      PROVE  BorrowedWhileLoading'
  <2> USE <1>2 DEF Inv
  <2>0. page.key \in Keys /\ page \in [key : Keys, from : Keys \cup {NoKey}, chosen : SUBSET Students]
    BY DEF TypeOK
  <2>1. ASSUME page'.key = page.key, page'.from = page.from,
               fetch[page.key].at # "none" => fetch'[page.key].at # "none"
        PROVE  BorrowedWhileLoading'
    BY <2>1 DEF BorrowedWhileLoading
  <2>2. ASSUME NEW i, NEW c, NEW m, NEW called, Becomes(i, c, m, called), page' = page
        PROVE  BorrowedWhileLoading'
    <3>1. fetch'[page.key].at = fetch[page.key].at
      BY <2>0, <2>2 DEF Becomes, TypeOK, Fetches
    <3> QED
      BY <2>1, <2>2, <3>1
  <2>3. ASSUME NEW k \in Keys, NEW before, Show(k, before)
        PROVE  BorrowedWhileLoading'
    <3>1. cache[k].at = "valid" => page'.from = k
      BY <2>3 DEF Show, From
    <3>2. page'.key = k
      BY <2>3 DEF Show
    <3>3. CASE fetch' = [fetch EXCEPT ![k] = Sent]
      BY <3>2, <3>3 DEF TypeOK, BorrowedWhileLoading, Sent
    <3>4. CASE (fetch[k].at # "none" \/ cache[k].at = "valid") /\ fetch' = fetch
      BY <3>1, <3>2, <3>4 DEF BorrowedWhileLoading
    <3> QED
      BY <2>3, <3>3, <3>4 DEF Show
  <2>4. ASSUME NEW k \in Keys, ServeFetch(k)
        PROVE  BorrowedWhileLoading'
    BY <2>0, <2>1, <2>4 DEF ServeFetch, TypeOK
  <2>5. ASSUME NEW k \in Keys, FetchAnswered(k)
        PROVE  BorrowedWhileLoading'
    <3>1. CASE page.key = k
      BY <2>0, <2>5, <3>1 DEF FetchAnswered, BorrowedWhileLoading
    <3>2. CASE page.key # k
      BY <2>0, <2>1, <2>5, <3>2 DEF FetchAnswered, TypeOK
    <3> QED
      BY <3>1, <3>2
  <2>6. ASSUME NEW k \in Keys, Select(k)
        PROVE  BorrowedWhileLoading'
    BY <2>3, <2>6 DEF Select
  <2>7. ASSUME OpenDetails \/ Back
        PROVE  BorrowedWhileLoading'
    BY <2>0, <2>3, <2>7, KeyParts DEF OpenDetails, Back
  <2>8. ASSUME (\E chosen \in SUBSET Students : Choose(chosen)) \/ Cancel \/ UNCHANGED vars
        PROVE  BorrowedWhileLoading'
    BY <2>0, <2>1, <2>8 DEF Choose, Cancel, vars
  <2>9. ASSUME NEW i \in Ids, Confirm(i) \/ LoadClass(i) \/ (\E s \in Students : AddStudent(i, s))
        PROVE  BorrowedWhileLoading'
    BY <2>0, <2>1, <2>9 DEF Confirm, LoadClass, AddStudent
  <2>10. ASSUME NEW i \in Ids, SaveClass(i)
         PROVE  BorrowedWhileLoading'
    <3>1. CASE fetch' = fetch /\ page' = page
      BY <2>1, <3>1
    <3>2. CASE ~ (fetch' = fetch /\ page' = page)
      BY <2>2, <2>10, <3>2 DEF SaveClass
    <3> QED
      BY <3>1, <3>2
  <2>11. ASSUME NEW i \in Ids, Answered(i)
         PROVE  BorrowedWhileLoading'
    <3>1. fetch[page.key] \in Fetches
      BY <2>0 DEF TypeOK
    <3>2. fetch'[page.key] = IF Hit(calls[i], page.key) THEN Refetched(page.key) ELSE fetch[page.key]
      BY <2>0, <2>11 DEF Answered
    <3>3. fetch[page.key].at # "none" => fetch'[page.key].at # "none"
      BY <3>1, <3>2 DEF Refetched, Sent, Fetches
    <3> QED
      BY <2>1, <2>11, <3>3 DEF Answered
  <2>12. ASSUME NEW c \in Classes, NEW s \in Students, OthersChange(c, s)
         PROVE  BorrowedWhileLoading'
    BY <2>2, <2>12 DEF OthersChange
  <2> QED
    BY <2>4, <2>5, <2>6, <2>7, <2>8, <2>9, <2>10, <2>11, <2>12 DEF Next
<1> QED
  BY <1>1, <1>2, InitInv, NextInv, PTL DEF Spec

----------------------------------------------------------------------------
(***************************************************************************)
(* What a page at rest shows of its own changes.                           *)
(***************************************************************************)
\* A change of this view that is saved will invalidate the answers for k.
Pending(k) == \E i \in Ids : calls[i].at = "saved" /\ Hit(calls[i], k)

\* Here an answer misses a change although nothing overtook it.
Behind(answer) == "here" \in answer.since /\ "overtaken" \notin answer.since

\* What is valid, or will be, misses only a change that is yet to be answered;
\* and what is shown is invalid only while it is fetched.
Refreshing ==
  /\ \A k \in Keys : cache[k].at = "valid" /\ Behind(cache[k].is) => Pending(k)
  /\ \A k \in Keys : fetch[k].at = "read" /\ Behind(fetch[k].is) => Pending(k)
  /\ cache[page.key].at = "invalid" => fetch[page.key].at # "none"

SavedCallsStay ==
  \A i \in Ids : calls[i].at = "saved" => calls'[i].at = "saved" /\ calls'[i].key = calls[i].key

LEMMA PendingStays ==
  ASSUME SavedCallsStay, NEW k \in Keys, Pending(k)
  PROVE  Pending(k)'
  BY DEF SavedCallsStay, Pending, Hit

\* Nothing changes but the calls that are not yet saved.
LEMMA QuietRefreshing ==
  ASSUME Refreshing, SavedCallsStay, UNCHANGED << cache, fetch >>, page'.key = page.key
  PROVE  Refreshing'
  BY PendingStays DEF Refreshing

LEMMA ShowRefreshing ==
  ASSUME Inv, Refreshing, NEW k \in Keys, NEW before, Show(k, before), UNCHANGED << cache, calls >>
  PROVE  Refreshing'
<1>1. SavedCallsStay /\ page'.key = k
  BY DEF SavedCallsStay, Show
<1>2. \A q \in Keys : Pending(q) => Pending(q)'
  BY <1>1, PendingStays
<1>3. CASE fetch' = [fetch EXCEPT ![k] = Sent]
  <2>1. fetch'[k].at = "sent" /\ \A q \in Keys \ {k} : fetch'[q] = fetch[q]
    BY <1>3 DEF Inv, TypeOK, Sent
  <2> QED
    BY <1>1, <1>2, <2>1 DEF Refreshing
<1>4. CASE (fetch[k].at # "none" \/ cache[k].at = "valid") /\ fetch' = fetch
  BY <1>1, <1>2, <1>4 DEF Refreshing
<1> QED
  BY <1>3, <1>4 DEF Show

LEMMA ServeFetchRefreshing ==
  ASSUME Inv, Refreshing, NEW k \in Keys, ServeFetch(k)
  PROVE  Refreshing'
<1>1. SavedCallsStay /\ UNCHANGED << cache, page, calls >>
  BY DEF SavedCallsStay, ServeFetch
<1>2. /\ fetch'[k].at = "read" /\ fetch'[k].is.since = {}
      /\ \A q \in Keys \ {k} : fetch'[q] = fetch[q]
  BY DEF ServeFetch, Inv, TypeOK
<1>3. page.key \in Keys
  BY DEF Inv, TypeOK
<1> QED
  BY <1>1, <1>2, <1>3, PendingStays DEF Refreshing, Behind

LEMMA FetchAnsweredRefreshing ==
  ASSUME Inv, Refreshing, NEW k \in Keys, FetchAnswered(k)
  PROVE  Refreshing'
<1>1. SavedCallsStay /\ page'.key = page.key /\ page.key \in Keys
  BY DEF SavedCallsStay, FetchAnswered, Inv, TypeOK
<1>2. /\ fetch[k].at = "read" /\ fetch'[k] = Idle
      /\ cache'[k] = [at |-> "valid", is |-> fetch[k].is]
      /\ \A q \in Keys \ {k} : fetch'[q] = fetch[q] /\ cache'[q] = cache[q]
  BY DEF FetchAnswered, Inv, TypeOK
<1>3. \A q \in Keys : Pending(q) => Pending(q)'
  BY <1>1, PendingStays
<1>4. cache'[k].at = "valid" /\ cache'[k].is = fetch[k].is /\ fetch'[k].at = "none"
  BY <1>2 DEF Idle
<1> QED
  BY <1>1, <1>2, <1>3, <1>4 DEF Refreshing

\* A change marks the answers of its own view, and its call is saved.
LEMMA BecomesRefreshing ==
  ASSUME Inv, Refreshing, NEW i, i = 0 \/ i \in Ids, NEW c, NEW m,
         NEW called \in [Ids -> CallRecords], Becomes(i, c, m, called), page' = page,
         \A j \in Ids : calls[j].at = "saved" =>
            called[j].at = "saved" /\ called[j].key = calls[j].key,
         i \in Ids => /\ called[i].at = "saved" /\ called[i].key = calls[i].key
                      /\ calls[i].key.class = c
  PROVE  Refreshing'
<1>1. \A j \in Ids : called[j].at = "saved" => calls'[j] = called[j]
  BY DEF Becomes
<1>2. SavedCallsStay
  BY <1>1 DEF SavedCallsStay
<1>3. \A q \in Keys : Pending(q) => Pending(q)'
  BY <1>2, PendingStays
<1>4. ASSUME NEW k \in Keys, NEW a \in Answers, Behind(Older(i, c, k, a))
      PROVE  Behind(a) \/ Pending(k)'
  <2>1. CASE k.class # c \/ i = 0
    BY <1>4, <2>1 DEF Older, Behind, Answers, Why
  <2>2. CASE k.class = c /\ i \in Ids /\ k.view # calls[i].key.view
    BY <1>4, <2>2 DEF Older, Behind, Answers, Why
  <2>3. CASE k.class = c /\ i \in Ids /\ k.view = calls[i].key.view
    <3>1. calls'[i].at = "saved" /\ calls'[i].key = calls[i].key
      BY <1>1, <2>3
    <3> QED
      BY <2>3, <3>1 DEF Pending, Hit
  <2> QED
    BY <2>1, <2>2, <2>3
<1>5. ASSUME NEW k \in Keys
      PROVE  /\ cache'[k].at = cache[k].at
             /\ cache[k].at # "empty" => cache'[k].is = Older(i, c, k, cache[k].is)
             /\ fetch'[k].at = fetch[k].at
             /\ fetch[k].at = "read" => fetch'[k].is = Older(i, c, k, fetch[k].is)
             /\ cache[k].is \in Answers /\ fetch[k].is \in Answers
  <2>1. cache[k] \in Entries /\ fetch[k] \in Fetches
    BY DEF Inv, TypeOK
  <2> QED
    BY <2>1 DEF Becomes, Entries, Fetches
<1>6. page.key \in Keys
  BY DEF Inv, TypeOK
<1> QED
  BY <1>3, <1>4, <1>5, <1>6 DEF Refreshing

LEMMA SaveClassRefreshing ==
  ASSUME Inv, Refreshing, NEW i \in Ids, SaveClass(i)
  PROVE  Refreshing'
<1> DEFINE c == calls[i].key.class
           m == (member[c] \ Leaving(calls[i])) \cup Joining(calls[i])
           called == [calls EXCEPT ![i].at = "saved"]
<1>0. calls[i] \in CallRecords /\ calls[i].at = "loaded" /\ calls \in [Ids -> CallRecords]
  BY DEF Inv, TypeOK, SaveClass
<1>1. CASE ~ Fits(calls[i])
  <2>1. calls' = [calls EXCEPT ![i] = NoCall("over")] /\ UNCHANGED << cache, fetch, page >>
    BY <1>1 DEF SaveClass
  <2>2. SavedCallsStay
    BY <1>0, <2>1 DEF SavedCallsStay
  <2> QED
    BY <2>1, <2>2, QuietRefreshing
<1>2. CASE Fits(calls[i])
  <2>1. Becomes(i, c, m, called) /\ page' = page
    BY <1>2 DEF SaveClass
  <2>2. [calls[i] EXCEPT !.at = "saved"] \in CallRecords
    BY <1>0 DEF CallRecords
  <2>3. /\ called[i] = [calls[i] EXCEPT !.at = "saved"]
        /\ \A j \in Ids \ {i} : called[j] = calls[j]
        /\ called \in [Ids -> CallRecords]
    BY <1>0, <2>2
  <2>4. called[i].at = "saved" /\ called[i].key = calls[i].key
    BY <1>0, <2>3 DEF CallRecords
  <2>5. \A j \in Ids : calls[j].at = "saved" =>
           called[j].at = "saved" /\ called[j].key = calls[j].key
    BY <2>3, <2>4
  <2>6. c = calls[i].key.class
    OBVIOUS
  <2> HIDE DEF called, c, m
  <2> QED
    BY <2>1, <2>3, <2>4, <2>5, <2>6, BecomesRefreshing
<1> QED
  BY <1>1, <1>2

\* The answer of a call leaves nothing valid, and nothing on its way, that misses it.
LEMMA AnsweredRefreshing ==
  ASSUME Inv, Refreshing, NEW i \in Ids, Answered(i)
  PROVE  Refreshing'
<1>0. page' = page /\ page.key \in Keys
  BY DEF Answered, Inv, TypeOK
<1>1. ASSUME NEW k \in Keys, ~ Hit(calls[i], k), Pending(k)
      PROVE  Pending(k)'
  <2>1. PICK j \in Ids : calls[j].at = "saved" /\ Hit(calls[j], k)
    BY <1>1 DEF Pending
  <2>2. j # i /\ calls'[j] = calls[j]
    BY <1>1, <2>1 DEF Answered, Inv, TypeOK
  <2> QED
    BY <2>1, <2>2 DEF Pending
<1>2. ASSUME NEW k \in Keys, ~ Hit(calls[i], k)
      PROVE  cache'[k] = cache[k] /\ fetch'[k] = fetch[k]
  BY <1>2 DEF Answered
<1>3. ASSUME NEW k \in Keys, Hit(calls[i], k)
      PROVE  /\ cache'[k].at # "valid"
             /\ fetch'[k].at = "read" => "overtaken" \in fetch'[k].is.since
             /\ cache'[k].at = "invalid" /\ k = page.key => fetch'[k].at # "none"
  <2>1. cache[k] \in Entries /\ fetch[k] \in Fetches
    BY DEF Inv, TypeOK
  <2>2. /\ cache'[k].at # "valid" /\ (cache'[k].at = "empty" <=> cache[k].at = "empty")
        /\ fetch'[k] = Refetched(k)
    BY <1>3, <2>1 DEF Answered, Entries
  <2>3. CASE k = page.key /\ (fetch[k].at = "none" \/ cache[k].at # "empty")
    BY <2>2, <2>3 DEF Refetched, Sent
  <2>4. CASE ~ (k = page.key /\ (fetch[k].at = "none" \/ cache[k].at # "empty")) /\ fetch[k].at = "read"
    <3> DEFINE is == [fetch[k].is EXCEPT !.since = @ \cup {"overtaken"}]
    <3>1. fetch'[k] = [fetch[k] EXCEPT !.is = is]
      BY <2>1, <2>2, <2>4 DEF Refetched, Fetches
    <3>2. "overtaken" \in is.since
      BY <2>1 DEF Fetches, Answers
    <3> HIDE DEF is
    <3> QED
      BY <2>1, <2>2, <2>4, <3>1, <3>2 DEF Fetches
  <2>5. CASE ~ (k = page.key /\ (fetch[k].at = "none" \/ cache[k].at # "empty")) /\ fetch[k].at # "read"
    BY <2>2, <2>5 DEF Refetched
  <2> QED
    BY <2>3, <2>4, <2>5
<1> QED
  BY <1>0, <1>1, <1>2, <1>3 DEF Refreshing, Behind

LEMMA NextRefreshing == Inv /\ Refreshing /\ [Next]_vars => Refreshing'
<1> SUFFICES ASSUME Inv, Refreshing, [Next]_vars PROVE Refreshing'
  OBVIOUS
<1>0. calls \in [Ids -> CallRecords] /\ page.key \in Keys /\ page.key.class \in Classes
  BY KeyParts DEF Inv, TypeOK
<1>1. ASSUME NEW k \in Keys, Select(k) PROVE Refreshing'
  BY <1>1, ShowRefreshing DEF Select
<1>2. CASE OpenDetails
  BY <1>0, <1>2, KeyParts, ShowRefreshing DEF OpenDetails
<1>3. CASE Back
  BY <1>3, KeyParts, ShowRefreshing DEF Back
<1>4. CASE (\E chosen \in SUBSET Students : Choose(chosen)) \/ Cancel \/ UNCHANGED vars
  <2>1. UNCHANGED << cache, fetch, calls >> /\ page'.key = page.key
    BY <1>4 DEF Choose, Cancel, vars, Inv, TypeOK
  <2> QED
    BY <2>1, QuietRefreshing DEF SavedCallsStay
<1>5. ASSUME NEW i \in Ids, Confirm(i) \/ LoadClass(i) \/ \E s \in Students : AddStudent(i, s)
      PROVE  Refreshing'
  <2>1. UNCHANGED << cache, fetch >> /\ page'.key = page.key
    BY <1>5 DEF Confirm, LoadClass, AddStudent, Inv, TypeOK
  <2>2. calls[i].at # "saved" /\ \A j \in Ids \ {i} : calls'[j] = calls[j]
    BY <1>0, <1>5 DEF Confirm, LoadClass, AddStudent, Unused
  <2> QED
    BY <2>1, <2>2, QuietRefreshing DEF SavedCallsStay
<1>6. ASSUME NEW c \in Classes, NEW s \in Students, OthersChange(c, s)
      PROVE  Refreshing'
  <2>1. PICK m : Becomes(0, c, m, calls)
    BY <1>6 DEF OthersChange
  <2>2. page' = page /\ 0 \notin Ids
    BY <1>6, RostersAssumption DEF OthersChange, Ids
  <2> QED
    BY <1>0, <2>1, <2>2, BecomesRefreshing
<1> QED
  BY <1>1, <1>2, <1>3, <1>4, <1>5, <1>6, ServeFetchRefreshing, FetchAnsweredRefreshing,
     SaveClassRefreshing, AnsweredRefreshing DEF Next

(***************************************************************************)
(* A page at rest shows what its own calls have done: an answer that       *)
(* misses one of them was in flight, and not cancelled, when the call was  *)
(* answered.  The answers may be of any age, and the user may have gone to *)
(* other classes, searches and the details and have come back.             *)
(***************************************************************************)
THEOREM RestShowsOwnChangesAlways == Spec => []RestShowsOwnChanges
<1>1. Init => Refreshing
  BY KeyParts DEF Init, Refreshing, Idle, Sent
<1>2. Inv /\ Refreshing => RestShowsOwnChanges
  <2> SUFFICES ASSUME Inv, Refreshing, page.from = page.key, fetch[page.key].at = "none",
                      \A i \in Ids : calls[i].at \in {"idle", "over"},
                      Behind(cache[page.key].is)
               PROVE  FALSE
    BY DEF RestShowsOwnChanges, Behind
  <2>1. page.key \in Keys /\ cache[page.key].at # "empty" /\ cache[page.key] \in Entries
    BY DEF Inv, TypeOK, Honest
  <2>2. cache[page.key].at = "valid"
    BY <2>1 DEF Refreshing, Entries
  <2>3. Pending(page.key)
    BY <2>1, <2>2 DEF Refreshing
  <2> QED
    BY <2>3 DEF Pending
<1> QED
  BY <1>1, <1>2, InitInv, NextInv, NextRefreshing, PTL DEF Spec

=============================================================================
