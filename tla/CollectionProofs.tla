-------------------------- MODULE CollectionProofs --------------------------
(***************************************************************************)
(* Proofs about Collection for any invoices, requests, attempts and bounds.*)
(*                                                                         *)
(* The claims travel with the work: a task that is to report a success has *)
(* seen a confirmation, so every reported success is about a request that  *)
(* has an intent; a task that is to record a success as processed has      *)
(* found or made its invoice paid; and a status read to be written back    *)
(* later was true when it was read, which is enough because intents,       *)
(* announcements and marks set by hand never go away.                      *)
(***************************************************************************)
EXTENDS Collection, TLAPS

Typed ==
    /\ status \in [Invoices -> Statuses \cup {"none"}]
    /\ byHand \in SUBSET Invoices
    /\ announced \in SUBSET Invoices
    /\ asked \in Seq(Invoices)
    /\ intents \in Seq([request : Nat, status : IntentStatuses])
    /\ outcomes \in Seq([request : Nat, ok : BOOLEAN])
    /\ handled \in [Services -> SUBSET (Nat \ {0})]
    /\ task \in [Services -> Task]
    /\ pc \in [Requests -> [place : {"idle", "finalize", "update"},
                            of : Invoices \cup {"none"}]]
    /\ \A r \in Requests : pc[r].place # "idle" => pc[r].of \in Invoices
    /\ seen \in [Requests -> Statuses \cup {"none"}]

(* A task has an event that is there; only payments reports. *)
TasksSound ==
    /\ \A s \in Services : task[s].place # "idle" => task[s].event \in Inbox(s)
    /\ task["ar"].place \notin {"succeeded", "failed"}

HasIntent(e) == \E n \in DOMAIN intents : intents[n].request = e

(* Every success, reported or about to be, is about a request that has an  *)
(* intent, and every intent and outcome about a request there is.          *)
SuccessConfirmed ==
    /\ \A n \in DOMAIN intents : intents[n].request \in DOMAIN asked
    /\ \A o \in DOMAIN outcomes :
         /\ outcomes[o].request \in DOMAIN asked
         /\ outcomes[o].ok => HasIntent(outcomes[o].request)
    /\ task["payments"].place = "succeeded" =>
         HasIntent(task["payments"].event)

AnnouncedConfirmed == \A i \in announced : IntentsOf(i) # {}

(* What is paid, or was when a request read it. *)
PaidAccounted ==
    /\ \A i \in Invoices : status[i] = "paid" => i \in byHand \cup announced
    /\ \A r \in Requests :
         pc[r].place = "update" /\ seen[r] = "paid" =>
             pc[r].of \in byHand \cup announced

(* What is recorded as processed, or about to be. *)
MarkSound ==
    /\ task["ar"].place = "mark" => PaidInvoice \in byHand \cup announced
    /\ \A o \in handled["ar"] :
         /\ o \in DOMAIN outcomes
         /\ asked[outcomes[o].request] \in byHand \cup announced

CollectInv ==
    /\ Typed /\ TasksSound /\ SuccessConfirmed
    /\ AnnouncedConfirmed /\ PaidAccounted /\ MarkSound

-----------------------------------------------------------------------------
LEMMA InitInv ==
    ASSUME MaxAttempts \in Nat \ {0}
    PROVE  Init => CollectInv
BY DEF Init, CollectInv, Typed, Task, TasksSound, SuccessConfirmed, AnnouncedConfirmed,
       PaidAccounted, MarkSound, Services, Statuses, Resting, Idle, Inbox,
       HasIntent, IntentsOf

(* The HTTP requests, one lemma for each. *)
LEMMA CreateInv ==
    ASSUME CollectInv, NEW i \in Invoices, NEW s \in Statuses,
           CreateInvoice(i, s)
    PROVE  CollectInv'
<1>1. /\ UNCHANGED <<announced, asked, intents, outcomes, handled, task, pc, seen>>
      /\ status' = [status EXCEPT ![i] = s]
      /\ byHand \subseteq byHand' /\ byHand' \in SUBSET Invoices
      /\ s = "paid" => i \in byHand'
  BY DEF CreateInvoice, SetByHand, eventVars, requestVars, CollectInv, Typed
<1>2. Typed'
  BY <1>1 DEF CollectInv, Typed
<1>3. PaidAccounted'
  BY <1>1 DEF CollectInv, Typed, PaidAccounted
<1>4. TasksSound' /\ SuccessConfirmed' /\ AnnouncedConfirmed' /\ MarkSound'
  BY <1>1 DEF CollectInv, TasksSound, SuccessConfirmed, AnnouncedConfirmed,
     MarkSound, HasIntent, IntentsOf, Inbox, PaidInvoice
<1> QED BY <1>2, <1>3, <1>4 DEF CollectInv

LEMMA ReadInv ==
    ASSUME CollectInv, NEW r \in Requests, NEW i \in Invoices,
           NEW place \in {"finalize", "update"}, ReadInvoice(r, i, place)
    PROVE  CollectInv'
<1>1. /\ UNCHANGED <<status, byHand, announced, asked, intents, outcomes,
                     handled, task>>
      /\ pc' = [pc EXCEPT ![r] = [place |-> place, of |-> i]]
      /\ seen' = [seen EXCEPT ![r] = status[i]]
  BY DEF ReadInvoice, eventVars, invoiceVars
<1>2. Typed'
  BY <1>1 DEF CollectInv, Typed
<1>3. PaidAccounted'
  BY <1>1 DEF CollectInv, Typed, PaidAccounted
<1>4. TasksSound' /\ SuccessConfirmed' /\ AnnouncedConfirmed' /\ MarkSound'
  BY <1>1 DEF CollectInv, TasksSound, SuccessConfirmed, AnnouncedConfirmed,
     MarkSound, HasIntent, IntentsOf, Inbox, PaidInvoice
<1> QED BY <1>2, <1>3, <1>4 DEF CollectInv

(* A new collection request, without an intent, disturbs nothing there is. *)
LEMMA FinalizeInv ==
    ASSUME CollectInv, NEW r \in Requests, FinalizeInvoice(r)
    PROVE  CollectInv'
<1> DEFINE i == pc[r].of
<1>1. /\ UNCHANGED <<byHand, announced, intents, outcomes, handled, task>>
      /\ status' = [status EXCEPT ![i] = "open"]
      /\ asked' = Append(asked, i)
      /\ pc' = [pc EXCEPT ![r] = Idle]
      /\ seen' = [seen EXCEPT ![r] = "none"]
      /\ pc[r].place = "finalize"
  BY DEF FinalizeInvoice, Answer
<1>2. i \in Invoices
  BY <1>1 DEF CollectInv, Typed
<1>3. /\ DOMAIN asked \subseteq DOMAIN asked'
      /\ \A e \in DOMAIN asked : asked'[e] = asked[e]
  BY <1>1, <1>2 DEF CollectInv, Typed
<1>4. Typed'
  <2>1. asked' \in Seq(Invoices)
    BY <1>1, <1>2 DEF CollectInv, Typed
  <2>2. status' \in [Invoices -> Statuses \cup {"none"}]
    BY <1>1, <1>2 DEF CollectInv, Typed, Statuses
  <2> QED BY <1>1, <2>1, <2>2 DEF CollectInv, Typed, Idle
<1>5. PaidAccounted'
  BY <1>1, <1>2 DEF CollectInv, Typed, PaidAccounted, Idle
<1>6. TasksSound'
  BY <1>1, <1>3 DEF CollectInv, TasksSound, Inbox
<1>7. SuccessConfirmed'
  <2>1. task["payments"].place = "succeeded" =>
            task["payments"].event \in DOMAIN asked
    BY DEF CollectInv, TasksSound, Inbox, Services
  <2> QED BY <1>1, <1>3, <2>1 DEF CollectInv, SuccessConfirmed, HasIntent
<1>8. AnnouncedConfirmed'
  BY <1>1, <1>3
  DEF CollectInv, SuccessConfirmed, AnnouncedConfirmed, IntentsOf
<1>9. MarkSound'
  <2>1. task["ar"].place = "mark" => task["ar"].event \in DOMAIN outcomes
    BY DEF CollectInv, TasksSound, Inbox, Services
  <2> QED
    BY <1>1, <1>3, <2>1 DEF CollectInv, SuccessConfirmed, MarkSound, PaidInvoice
<1> QED BY <1>4, <1>5, <1>6, <1>7, <1>8, <1>9 DEF CollectInv

LEMMA UpdateInv ==
    ASSUME CollectInv, NEW r \in Requests, NEW s \in Statuses,
           UpdateInvoice(r, s)
    PROVE  CollectInv'
<1> DEFINE i == pc[r].of
<1>1. /\ UNCHANGED <<announced, asked, intents, outcomes, handled, task>>
      /\ status' = [status EXCEPT ![i] = s]
      /\ pc' = [pc EXCEPT ![r] = Idle]
      /\ seen' = [seen EXCEPT ![r] = "none"]
      /\ pc[r].place = "update"
  BY DEF UpdateInvoice, Answer, eventVars
<1>2. i \in Invoices
  BY <1>1 DEF CollectInv, Typed
<1>3. byHand \subseteq byHand' /\ byHand' \in SUBSET Invoices
  BY <1>2 DEF UpdateInvoice, SetByHand, CollectInv, Typed
<1>4. s = "paid" => i \in byHand' \cup announced
  <2>1. CASE s = seen[r]
    BY <1>1, <1>3, <2>1 DEF CollectInv, PaidAccounted
  <2>2. CASE s # seen[r]
    BY <2>2 DEF UpdateInvoice, SetByHand
  <2> QED BY <2>1, <2>2
<1>5. Typed'
  BY <1>1, <1>3 DEF CollectInv, Typed, Idle
<1>6. PaidAccounted'
  BY <1>1, <1>2, <1>3, <1>4 DEF CollectInv, Typed, PaidAccounted, Idle
<1>7. TasksSound' /\ SuccessConfirmed' /\ AnnouncedConfirmed' /\ MarkSound'
  BY <1>1, <1>3 DEF CollectInv, TasksSound, SuccessConfirmed, AnnouncedConfirmed,
     MarkSound, HasIntent, IntentsOf, Inbox, PaidInvoice
<1> QED BY <1>5, <1>6, <1>7 DEF CollectInv

-----------------------------------------------------------------------------
(* The consumer tasks: only what is in hand changes, or what is marked.     *)

LEMMA RestInv ==
    ASSUME MaxAttempts \in Nat \ {0},
           CollectInv, NEW s \in Services, Duplicate(s) \/ Crash(s)
    PROVE  CollectInv'
<1>1. /\ UNCHANGED <<status, byHand, announced, asked, intents, outcomes,
                     handled, pc, seen>>
      /\ task' = [task EXCEPT ![s] = Resting]
  BY DEF Duplicate, Crash, Rest, invoiceVars, eventVars, requestVars
<1>2. Typed'
  BY <1>1 DEF CollectInv, Typed, Task, Resting
<1>3. TasksSound' /\ SuccessConfirmed' /\ AnnouncedConfirmed' /\ MarkSound'
  BY <1>1 DEF CollectInv, Typed, TasksSound, SuccessConfirmed, AnnouncedConfirmed,
     MarkSound, HasIntent, IntentsOf, Inbox, PaidInvoice, Resting, Services
<1> QED BY <1>1, <1>2, <1>3 DEF CollectInv, PaidAccounted

LEMMA TakeInv ==
    ASSUME MaxAttempts \in Nat \ {0},
           CollectInv, NEW s \in Services, NEW e \in Inbox(s), Take(s, e)
    PROVE  CollectInv'
<1>1. /\ UNCHANGED <<status, byHand, announced, asked, intents, outcomes,
                     handled, pc, seen>>
      /\ task' = [task EXCEPT ![s] =
                      [place |-> "check", event |-> e, attempt |-> 1]]
  BY DEF Take, invoiceVars, eventVars, requestVars
<1>2. e \in Nat
  BY DEF Inbox, CollectInv, Typed
<1>3. Typed'
  <2>1. [place |-> "check", event |-> e, attempt |-> 1] \in Task
    BY <1>2 DEF Task
  <2> QED BY <1>1, <2>1 DEF CollectInv, Typed
<1>4. TasksSound' /\ SuccessConfirmed' /\ AnnouncedConfirmed' /\ MarkSound'
  BY <1>1 DEF CollectInv, Typed, TasksSound, SuccessConfirmed, AnnouncedConfirmed,
     MarkSound, HasIntent, IntentsOf, Inbox, PaidInvoice, Services
<1> QED BY <1>1, <1>3, <1>4 DEF CollectInv, PaidAccounted

LEMMA FailInv ==
    ASSUME MaxAttempts \in Nat \ {0},
           CollectInv, NEW s \in Services, Fail(s)
    PROVE  CollectInv'
<1>1. UNCHANGED <<status, byHand, announced, asked, intents, outcomes,
                  handled, pc, seen>>
  BY DEF Fail, invoiceVars, eventVars, requestVars
<1>2. CASE task' = [task EXCEPT ![s] = Resting]
  <2>1. Typed'
    BY <1>1, <1>2 DEF CollectInv, Typed, Task, Resting
  <2>2. TasksSound' /\ SuccessConfirmed' /\ AnnouncedConfirmed' /\ MarkSound'
    BY <1>1, <1>2 DEF CollectInv, Typed, TasksSound, SuccessConfirmed,
       AnnouncedConfirmed, MarkSound, HasIntent, IntentsOf, Inbox, PaidInvoice, Resting,
       Services
  <2> QED BY <1>1, <2>1, <2>2 DEF CollectInv, PaidAccounted
<1>3. CASE /\ task[s].attempt < MaxAttempts
           /\ task' = [task EXCEPT ![s].place = "check", ![s].attempt = @ + 1]
  <2>1. /\ task[s].place # "idle"
        /\ task'[s].place = "check" /\ task'[s].event = task[s].event
        /\ \A t \in Services \ {s} : task'[t] = task[t]
    BY <1>3 DEF Fail, CollectInv, Typed
  <2>2. Typed'
    <3> DEFINE once == [task EXCEPT ![s].place = "check"]
    <3>2. /\ task[s] \in Task /\ task \in [Services -> Task]
          /\ task' = [once EXCEPT ![s].attempt = @ + 1]
      BY <1>3 DEF CollectInv, Typed
    <3>3. [task[s] EXCEPT !.place = "check"] \in Task
      BY <3>2 DEF Task
    <3>4. once \in [Services -> Task]
      BY <3>2, <3>3
    <3>5. once[s] \in Task
      BY <3>4
    <3>8. once[s].attempt < MaxAttempts
      BY <1>3, <3>2 DEF Task
    <3>6. [once[s] EXCEPT !.attempt = @ + 1] \in Task
      BY <3>5, <3>8 DEF Task
    <3> HIDE DEF once
    <3>7. task' \in [Services -> Task]
      BY <3>2, <3>4, <3>6
    <3> QED BY <1>1, <3>7 DEF CollectInv, Typed
  <2>3. TasksSound' /\ SuccessConfirmed' /\ AnnouncedConfirmed' /\ MarkSound'
    BY <1>1, <2>1 DEF CollectInv, TasksSound, SuccessConfirmed,
       AnnouncedConfirmed, MarkSound, HasIntent, IntentsOf, Inbox, PaidInvoice, Services
  <2> QED BY <1>1, <2>2, <2>3 DEF CollectInv, PaidAccounted
<1> QED BY <1>2, <1>3 DEF Fail, Rest

LEMMA MarkInv ==
    ASSUME MaxAttempts \in Nat \ {0},
           CollectInv, NEW s \in Services, Mark(s)
    PROVE  CollectInv'
<1>1. /\ UNCHANGED <<status, byHand, announced, asked, intents, outcomes, pc, seen>>
      /\ task' = [task EXCEPT ![s] = Resting]
      /\ handled' = [handled EXCEPT ![s] = @ \cup {task[s].event}]
      /\ task[s].place = "mark"
  BY DEF Mark, Rest, invoiceVars, eventVars, requestVars
<1>2. Typed'
  <2>1. task[s].event \in Nat \ {0}
    <3>1. task[s].event \in Inbox(s)
      BY <1>1 DEF CollectInv, TasksSound
    <3>2. /\ DOMAIN asked = 1 .. Len(asked)
          /\ DOMAIN outcomes = 1 .. Len(outcomes)
      BY DEF CollectInv, Typed
    <3> QED BY <3>1, <3>2 DEF Inbox
  <2>2. Resting \in Task
    BY DEF Task, Resting
  <2> QED BY <1>1, <2>1, <2>2 DEF CollectInv, Typed
<1>3. TasksSound' /\ SuccessConfirmed' /\ AnnouncedConfirmed'
  BY <1>1 DEF CollectInv, Typed, TasksSound, SuccessConfirmed, AnnouncedConfirmed,
     HasIntent, IntentsOf, Inbox, Resting, Services
<1>4. MarkSound'
  <2>1. CASE s = "ar"
    <3>1. handled'["ar"] = handled["ar"] \cup {task["ar"].event}
      BY <1>1, <2>1 DEF CollectInv, Typed
    <3>2. task["ar"].event \in DOMAIN outcomes
      BY <1>1, <2>1 DEF CollectInv, TasksSound, Inbox
    <3>3. asked[outcomes[task["ar"].event].request] \in byHand \cup announced
      BY <1>1, <2>1 DEF CollectInv, MarkSound, PaidInvoice
    <3>4. task'["ar"].place = "idle"
      BY <1>1, <2>1 DEF CollectInv, Typed, Resting
    <3> QED BY <1>1, <3>1, <3>2, <3>3, <3>4 DEF CollectInv, MarkSound
  <2>2. CASE s # "ar"
    BY <1>1, <2>2 DEF CollectInv, Typed, MarkSound, PaidInvoice, Services
  <2> QED BY <2>1, <2>2
<1> QED BY <1>1, <1>2, <1>3, <1>4 DEF CollectInv, PaidAccounted

-----------------------------------------------------------------------------
(* The handlers.                                                           *)

(* A confirmed intent stays one of its request, whatever becomes of it. *)
IntentsStay ==
    /\ DOMAIN intents \subseteq DOMAIN intents'
    /\ \A n \in DOMAIN intents : intents'[n].request = intents[n].request
    /\ \A n \in DOMAIN intents' : intents'[n].request \in DOMAIN asked

LEMMA IntentsGrow ==
    ASSUME CollectInv, IntentsStay, UNCHANGED <<asked, announced>>
    PROVE  /\ \A e : HasIntent(e) => HasIntent(e)'
           /\ AnnouncedConfirmed'
<1>1. \A e : HasIntent(e) => HasIntent(e)'
  BY DEF HasIntent, IntentsStay
<1>2. \A i : IntentsOf(i) \subseteq IntentsOf(i)'
  BY DEF IntentsOf, IntentsStay
<1> QED BY <1>1, <1>2 DEF CollectInv, AnnouncedConfirmed

LEMMA ChargeInv ==
    ASSUME CollectInv, NEW result \in {"none", "succeeded", "processing"},
           NEW ok \in BOOLEAN, Charge(result, ok)
    PROVE  CollectInv'
<1> DEFINE e == task["payments"].event
           new == [request |-> e, status |-> result]
<1>1. /\ UNCHANGED <<status, byHand, announced, asked, outcomes, handled, pc, seen>>
      /\ Confirmed(e, result)
      /\ task' = [task EXCEPT !["payments"].place =
                      IF ok THEN "succeeded" ELSE "failed"]
      /\ task["payments"].place = "check"
      /\ ok => result # "none"
  BY DEF Charge, Goto, Fresh, invoiceVars, requestVars
<1>2. e \in DOMAIN asked /\ e \in Nat
  BY <1>1 DEF CollectInv, Typed, TasksSound, Inbox, Services
<1>3. /\ intents' \in Seq([request : Nat, status : IntentStatuses])
      /\ IntentsStay
      /\ ok => HasIntent(e)'
  <2>1. CASE result = "none"
    BY <1>1, <2>1 DEF Confirmed, CollectInv, Typed, SuccessConfirmed, IntentsStay
  <2>2. CASE result # "none"
    <3>1. intents' = Append(intents, new)
      BY <1>1, <2>2 DEF Confirmed
    <3>2. new \in [request : Nat, status : IntentStatuses]
      BY <1>2, <2>2 DEF IntentStatuses
    <3>3. /\ intents' \in Seq([request : Nat, status : IntentStatuses])
          /\ DOMAIN intents' = DOMAIN intents \cup {Len(intents) + 1}
          /\ \A n \in DOMAIN intents : intents'[n] = intents[n]
          /\ intents'[Len(intents) + 1] = new
      BY <3>1, <3>2 DEF CollectInv, Typed
    <3>4. intents'[Len(intents) + 1].request = e
      BY <3>3
    <3>5. HasIntent(e)'
      BY <1>1, <3>3, <3>4 DEF HasIntent
    <3> QED
      BY <1>1, <1>2, <3>3, <3>4, <3>5
      DEF IntentsStay, CollectInv, SuccessConfirmed
  <2> QED BY <2>1, <2>2
<1>4. /\ task'["payments"].place \in {"succeeded", "failed"}
      /\ task'["payments"].place = "succeeded" => ok
      /\ task'["payments"].event = e /\ task'["ar"] = task["ar"]
  BY <1>1 DEF CollectInv, Typed, Services
<1>5. Typed'
  <2>1. [task["payments"] EXCEPT !.place = IF ok THEN "succeeded" ELSE "failed"] \in Task
    BY DEF CollectInv, Typed, Task, Services
  <2>2. task' \in [Services -> Task]
    BY <1>1, <2>1 DEF CollectInv, Typed
  <2> QED BY <1>1, <1>3, <2>2 DEF CollectInv, Typed
<1>6. TasksSound'
  BY <1>1, <1>2, <1>4 DEF CollectInv, TasksSound, Inbox, Services
<1>7. SuccessConfirmed' /\ AnnouncedConfirmed'
  <2>1. /\ \A f : HasIntent(f) => HasIntent(f)'
        /\ AnnouncedConfirmed'
    BY <1>1, <1>3, IntentsGrow
  <2> QED
    BY <1>1, <1>3, <1>4, <2>1
    DEF CollectInv, SuccessConfirmed, IntentsStay, HasIntent
<1>8. MarkSound'
  BY <1>1, <1>4 DEF CollectInv, MarkSound, PaidInvoice
<1> QED BY <1>1, <1>5, <1>6, <1>7, <1>8 DEF CollectInv, PaidAccounted

LEMMA SettleInv ==
    ASSUME CollectInv, NEW n \in DOMAIN intents,
           NEW result \in {"succeeded", "failed"}, Settle(n, result)
    PROVE  CollectInv'
<1>1. /\ UNCHANGED <<status, byHand, announced, asked, outcomes, handled, task,
                     pc, seen>>
      /\ intents' = [intents EXCEPT ![n].status = result]
  BY DEF Settle, invoiceVars, requestVars
<1> DEFINE Intent == [request : Nat, status : IntentStatuses]
<1>2. intents \in Seq(Intent) /\ intents[n] \in Intent
  <2>1. intents \in Seq(Intent)
    BY DEF CollectInv, Typed
  <2> HIDE DEF Intent
  <2> QED BY <2>1
<1>3. /\ [intents[n] EXCEPT !.status = result] \in Intent
      /\ [intents[n] EXCEPT !.status = result].request = intents[n].request
  BY <1>2 DEF IntentStatuses
<1>4. intents' \in Seq(Intent) /\ DOMAIN intents' = DOMAIN intents
      /\ \A m \in DOMAIN intents : intents'[m].request = intents[m].request
  <2> HIDE DEF Intent
  <2> QED BY <1>1, <1>2, <1>3
<1>5. IntentsStay
  BY <1>4 DEF IntentsStay, CollectInv, SuccessConfirmed
<1>6. Typed'
  BY <1>1, <1>4 DEF CollectInv, Typed
<1>7. /\ \A f : HasIntent(f) => HasIntent(f)'
      /\ AnnouncedConfirmed'
  BY <1>1, <1>5, IntentsGrow
<1>8. SuccessConfirmed'
  BY <1>1, <1>4 DEF CollectInv, SuccessConfirmed, HasIntent
<1>9. TasksSound' /\ PaidAccounted' /\ MarkSound'
  BY <1>1 DEF CollectInv, TasksSound, PaidAccounted, MarkSound, Inbox, PaidInvoice
<1> QED BY <1>6, <1>7, <1>8, <1>9 DEF CollectInv

LEMMA ReportInv ==
    ASSUME CollectInv, Report
    PROVE  CollectInv'
<1> DEFINE e == task["payments"].event
           new == [request |-> e, ok |-> task["payments"].place = "succeeded"]
<1>1. /\ UNCHANGED <<status, byHand, announced, asked, intents, handled, pc, seen>>
      /\ outcomes' = Append(outcomes, new)
      /\ task' = [task EXCEPT !["payments"].place = "mark"]
      /\ task["payments"].place \in {"succeeded", "failed"}
  BY DEF Report, Goto, invoiceVars, requestVars
<1>2. e \in DOMAIN asked /\ e \in Nat
  BY <1>1 DEF CollectInv, Typed, TasksSound, Inbox, Services
<1>3. /\ outcomes' \in Seq([request : Nat, ok : BOOLEAN])
      /\ DOMAIN outcomes' = DOMAIN outcomes \cup {Len(outcomes) + 1}
      /\ \A o \in DOMAIN outcomes : outcomes'[o] = outcomes[o]
      /\ outcomes'[Len(outcomes) + 1] = new
  BY <1>1, <1>2 DEF CollectInv, Typed
<1>4. /\ task'["payments"].place = "mark" /\ task'["payments"].event = e
      /\ task'["ar"] = task["ar"]
  BY <1>1 DEF CollectInv, Typed, Services
<1>5. Typed'
  <2>1. [task["payments"] EXCEPT !.place = "mark"] \in Task
    BY DEF CollectInv, Typed, Task, Services
  <2>2. task' \in [Services -> Task]
    BY <1>1, <2>1 DEF CollectInv, Typed
  <2> QED BY <1>1, <1>3, <2>2 DEF CollectInv, Typed
<1>6. TasksSound'
  BY <1>1, <1>2, <1>3, <1>4 DEF CollectInv, TasksSound, Inbox, Services
<1>7. SuccessConfirmed'
  <2> SUFFICES ASSUME NEW o \in DOMAIN outcomes'
               PROVE  /\ outcomes'[o].request \in DOMAIN asked
                      /\ outcomes'[o].ok => HasIntent(outcomes'[o].request)
    BY <1>1, <1>4 DEF CollectInv, SuccessConfirmed, HasIntent
  <2>1. CASE o \in DOMAIN outcomes
    BY <1>3, <2>1 DEF CollectInv, SuccessConfirmed
  <2>2. CASE o = Len(outcomes) + 1
    <3>1. outcomes'[o].request = e
      BY <1>3, <2>2
    <3>2. outcomes'[o].ok = (task["payments"].place = "succeeded")
      BY <1>3, <2>2
    <3> QED BY <1>2, <3>1, <3>2 DEF CollectInv, SuccessConfirmed
  <2> QED BY <1>3, <2>1, <2>2
<1>8. AnnouncedConfirmed'
  BY <1>1 DEF CollectInv, AnnouncedConfirmed, IntentsOf
<1>9. MarkSound'
  <2>1. task["ar"].place = "mark" => task["ar"].event \in DOMAIN outcomes
    BY DEF CollectInv, TasksSound, Inbox, Services
  <2> QED
    BY <1>1, <1>3, <1>4, <2>1 DEF CollectInv, MarkSound, PaidInvoice
<1> QED BY <1>1, <1>5, <1>6, <1>7, <1>8, <1>9 DEF CollectInv, PaidAccounted

LEMMA ApplyInv ==
    ASSUME CollectInv, ApplyPayment
    PROVE  CollectInv'
<1> DEFINE o == task["ar"].event
<1>1. /\ UNCHANGED <<byHand, asked, intents, outcomes, handled, pc, seen>>
      /\ task' = [task EXCEPT !["ar"].place = "mark"]
      /\ task["ar"].place = "check"
      /\ status[PaidInvoice] # "paid" =>
           /\ status' = [status EXCEPT ![PaidInvoice] = "paid"]
           /\ announced' = announced \cup {PaidInvoice}
      /\ status[PaidInvoice] = "paid" => UNCHANGED <<status, announced>>
  BY DEF ApplyPayment, Goto, Fresh, eventVars, requestVars
<1>2. o \in DOMAIN outcomes /\ outcomes[o].ok
  BY <1>1 DEF CollectInv, TasksSound, Inbox, Services
<1>3. IntentsOf(PaidInvoice) # {} /\ PaidInvoice \in Invoices
  <2>1. /\ outcomes[o].request \in DOMAIN asked
        /\ HasIntent(outcomes[o].request)
    BY <1>2 DEF CollectInv, SuccessConfirmed
  <2>2. asked[outcomes[o].request] \in Invoices
    BY <2>1 DEF CollectInv, Typed
  <2> QED BY <2>1, <2>2 DEF HasIntent, IntentsOf, PaidInvoice
<1>4. /\ PaidInvoice' = PaidInvoice
      /\ task'["ar"].place = "mark" /\ task'["ar"].event = o
      /\ task'["payments"] = task["payments"]
  BY <1>1 DEF CollectInv, Typed, Services, PaidInvoice
<1>5. announced \subseteq announced' /\ announced' \subseteq announced \cup {PaidInvoice}
  BY <1>1
<1>6. PaidInvoice \in byHand \cup announced'
  BY <1>1, <1>3 DEF CollectInv, PaidAccounted
<1>7. Typed'
  <2>1. [task["ar"] EXCEPT !.place = "mark"] \in Task
    BY DEF CollectInv, Typed, Task, Services
  <2>2. task' \in [Services -> Task]
    BY <1>1, <2>1 DEF CollectInv, Typed
  <2> QED BY <1>1, <1>3, <1>5, <2>2 DEF CollectInv, Typed, Statuses
<1>8. TasksSound'
  BY <1>1, <1>2, <1>4 DEF CollectInv, TasksSound, Inbox, Services
<1>9. SuccessConfirmed' /\ AnnouncedConfirmed'
  BY <1>1, <1>3, <1>4, <1>5
  DEF CollectInv, SuccessConfirmed, AnnouncedConfirmed, HasIntent, IntentsOf
<1>10. PaidAccounted'
  BY <1>1, <1>3, <1>5, <1>6 DEF CollectInv, Typed, PaidAccounted
<1>11. MarkSound'
  BY <1>1, <1>4, <1>5, <1>6 DEF CollectInv, MarkSound
<1> QED BY <1>7, <1>8, <1>9, <1>10, <1>11 DEF CollectInv

-----------------------------------------------------------------------------
(* The theorems.                                                           *)

LEMMA StepInv ==
    ASSUME MaxAttempts \in Nat \ {0}
    PROVE  CollectInv /\ [Next]_vars => CollectInv'
<1> SUFFICES ASSUME CollectInv, [Next]_vars PROVE CollectInv'
  OBVIOUS
<1>1. CASE UNCHANGED vars
  <2>1. UNCHANGED <<status, byHand, announced, asked, intents, outcomes, handled,
                    task, pc, seen>>
    BY <1>1 DEF vars, invoiceVars, eventVars, requestVars
  <2>2. Typed' /\ TasksSound'
    BY <2>1 DEF CollectInv, Typed, TasksSound, Inbox
  <2>3. SuccessConfirmed' /\ AnnouncedConfirmed'
    BY <2>1 DEF CollectInv, SuccessConfirmed, AnnouncedConfirmed, HasIntent,
                IntentsOf
  <2>4. PaidAccounted' /\ MarkSound'
    BY <2>1 DEF CollectInv, PaidAccounted, MarkSound, PaidInvoice
  <2> QED BY <2>2, <2>3, <2>4 DEF CollectInv
<1>2. ASSUME NEW r \in Requests, Http(r) PROVE CollectInv'
  BY <1>2, ReadInv, FinalizeInv, UpdateInv DEF Http
<1>3. ASSUME NEW s \in Services, Consume(s) PROVE CollectInv'
  BY <1>3, TakeInv, RestInv, MarkInv, FailInv DEF Consume
<1> QED
  BY <1>1, <1>2, <1>3, CreateInv, ChargeInv, SettleInv, ReportInv,
     ApplyInv DEF Next

(* Every table and task has its type: a reported outcome is about a        *)
(* request there is, and no handler runs more often than MaxAttempts.      *)
THEOREM TypeCorrect ==
    ASSUME MaxAttempts \in Nat \ {0}
    PROVE  Spec => []TypeOK
<1>1. CollectInv => TypeOK
  <2> SUFFICES ASSUME CollectInv PROVE TypeOK
    OBVIOUS
  <2>1. outcomes \in Seq([request : 1 .. Len(asked), ok : BOOLEAN])
    <3> DEFINE R == [request : Nat, ok : BOOLEAN]
               Q == [request : 1 .. Len(asked), ok : BOOLEAN]
    <3>1. /\ outcomes \in Seq(R)
          /\ DOMAIN asked = 1 .. Len(asked)
      BY DEF CollectInv, Typed
    <3>2. \A o \in 1 .. Len(outcomes) : outcomes[o] \in Q
      <4> SUFFICES ASSUME NEW o \in 1 .. Len(outcomes) PROVE outcomes[o] \in Q
        OBVIOUS
      <4>1. outcomes[o] \in R
        <5> HIDE DEF R
        <5> QED BY <3>1
      <4>2. outcomes[o].request \in 1 .. Len(asked)
        BY <3>1 DEF CollectInv, SuccessConfirmed
      <4> QED BY <4>1, <4>2
    <3> HIDE DEF R, Q
    <3>3. outcomes \in Seq(Q)
      BY <3>1, <3>2
    <3> QED BY <3>3 DEF Q
  <2>2. intents \in Seq([request : 1 .. Len(asked), status : IntentStatuses])
    <3> DEFINE R == [request : Nat, status : IntentStatuses]
               Q == [request : 1 .. Len(asked), status : IntentStatuses]
    <3>1. /\ intents \in Seq(R)
          /\ DOMAIN asked = 1 .. Len(asked)
      BY DEF CollectInv, Typed
    <3>2. \A n \in 1 .. Len(intents) : intents[n] \in Q
      <4> SUFFICES ASSUME NEW n \in 1 .. Len(intents) PROVE intents[n] \in Q
        OBVIOUS
      <4>1. intents[n] \in R
        <5> HIDE DEF R
        <5> QED BY <3>1
      <4>2. intents[n].request \in 1 .. Len(asked)
        BY <3>1 DEF CollectInv, SuccessConfirmed
      <4> QED BY <4>1, <4>2
    <3> HIDE DEF R, Q
    <3>3. intents \in Seq(Q)
      BY <3>1, <3>2
    <3> QED BY <3>3 DEF Q
  <2> QED BY <2>1, <2>2 DEF CollectInv, Typed, TypeOK
<1> QED BY <1>1, InitInv, StepInv, PTL DEF Spec

(* No invoice counts as paid unless the provider confirmed a payment of    *)
(* it, succeeded or still processing.                                      *)
THEOREM PaidIsConfirmed ==
    ASSUME MaxAttempts \in Nat \ {0}
    PROVE  Spec => []PaidMeansConfirmed
<1>1. CollectInv => PaidMeansConfirmed
  BY DEF CollectInv, PaidAccounted, AnnouncedConfirmed, CountsAsPaid,
         PaidMeansConfirmed
<1> QED BY <1>1, InitInv, StepInv, PTL DEF Spec

(* A success that is recorded as processed has been announced, unless the  *)
(* invoice was set to paid by hand.                                        *)
THEOREM HandledIsAnnounced ==
    ASSUME MaxAttempts \in Nat \ {0}
    PROVE  Spec => []HandledMeansAnnounced
<1>1. CollectInv => HandledMeansAnnounced
  BY DEF CollectInv, MarkSound, HandledMeansAnnounced
<1> QED BY <1>1, InitInv, StepInv, PTL DEF Spec
=============================================================================
