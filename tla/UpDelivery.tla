------------------------------- MODULE UpDelivery -------------------------------
(* Delivery of FCM messages to UnifiedPush endpoints (delivery.rs): the outbox rows *)
(* of that transport, and the one task that posts the oldest due rows in batches,   *)
(* deletes what an endpoint took and defers the rest.                               *)
(*                                                                                  *)
(* Time passes in units of the five seconds that a poll takes and a back-off starts *)
(* from; statements and answers take none.                                          *)
EXTENDS Integers, Sequences, FiniteSets

CONSTANTS
  Apps,          (* registered pairs of install and application                       *)
  Endpoints,     (* endpoints a registration may name                                 *)
  Accepting,     (* those that take a message                                         *)
  Refusing,      (* those that answer at once with an error of the client             *)
  None,          (* no registration                                                   *)
  LIMIT,         (* rows in a batch                                                   *)
  MAX_ATTEMPTS,  (* posts of one delivery                                             *)
  MAX_SHIFT,     (* back-offs that double                                             *)
  AttemptTime,   (* a post that fails, and the pause after it                         *)
  MaxId,         (* bound: rows ever written                                          *)
  MaxChanges,    (* bound: registrations and unregistrations                          *)
  MaxFaults      (* bound: crashes, failed statements, lost answers, failed posts     *)

ASSUME EndpointsAssumption ==
  /\ Apps # {}
  /\ Accepting \subseteq Endpoints /\ Refusing \subseteq Endpoints \ Accepting
  /\ None \notin Endpoints
ASSUME LimitsAssumption ==
  /\ LIMIT \in Nat \ {0} /\ MAX_ATTEMPTS \in Nat \ {0}
  /\ MAX_SHIFT \in Nat /\ AttemptTime \in Nat \ {0}
ASSUME BoundsAssumption == MaxId \in Nat /\ MaxChanges \in Nat /\ MaxFaults \in Nat

VARIABLES
  endpoint,  (* registrations.endpoint of each application, None without a row        *)
  outbox,    (* ids of the rows of transport unified_push                             *)
  app,       (* the application of each row                                           *)
  attempts,  (* outbox.attempts, up to Enough                                         *)
  wait,      (* units until next_attempt_at, 0 when it is past                        *)
  lastId,    (* sqlite_sequence                                                       *)
  notices,   (* producers between commit and notify_one                               *)
  permit,    (* the permit of up_wake                                                 *)
  pc,        (* where the delivery task stands                                        *)
  batch,     (* rows it has loaded and not dealt with                                 *)
  attempt,   (* number of the post at hand                                            *)
  timer,     (* units its sleep has left                                              *)
  copies,    (* history: how often an endpoint has got each message                   *)
  dropped,   (* history: rows that went with a registration                           *)
  repeats,   (* history: faults after which the same message may be posted again      *)
  changes,
  faults

table == <<outbox, app, attempts, wait>>
producers == <<lastId, notices>>
task == <<pc, batch, attempt, timer>>
history == <<copies, dropped, repeats>>
vars == <<endpoint, table, producers, permit, task, history, changes, faults>>

-------------------------------------------------------------------------------
Id == 1..MaxId
Phase == {"load", "idle", "post", "pause", "delete", "defer", "error"}
Message == [id: Id, endpoint: Endpoints, attempts: Nat]

(* 1 << n.                                                                          *)
Doubled[n \in Nat] == IF n = 0 THEN 1 ELSE 2 * Doubled[n - 1]

(* Faulty variant of BackOff: the shift is not bounded.                             *)
BackOffUnbounded(n) == Doubled[n]

(* 5 * (1 << min(attempts, 6)) seconds.                                             *)
BackOff(n) == Doubled[IF n < MAX_SHIFT THEN n ELSE MAX_SHIFT]
Longest == Doubled[MAX_SHIFT]

(* Counts beyond the last that changes the back-off are one.                        *)
Enough == MAX_SHIFT + 1
Poll == 1

Init ==
  /\ endpoint \in [Apps -> Endpoints \cup {None}]
  /\ outbox = {}
  /\ app = [r \in Id |-> CHOOSE a \in Apps : TRUE]
  /\ attempts = [r \in Id |-> 0]
  /\ wait = [r \in Id |-> 0]
  /\ lastId = 0
  /\ notices = 0
  /\ permit = FALSE
  /\ pc = "load"
  /\ batch = <<>>
  /\ attempt = 1
  /\ timer = 0
  /\ copies = [r \in Id |-> 0]
  /\ dropped = {}
  /\ repeats = 0
  /\ changes = 0
  /\ faults = 0

Fault == faults < MaxFaults /\ faults' = faults + 1
NoFault == UNCHANGED faults

-------------------------------------------------------------------------------
(* Registrations and producers.                                                     *)

(* A registration for the socket has the empty endpoint, which accepts nothing.     *)
Register(a, e) ==
  /\ changes < MaxChanges
  /\ endpoint[a] # e
  /\ endpoint' = [endpoint EXCEPT ![a] = e]
  /\ changes' = changes + 1
  /\ UNCHANGED <<table, producers, permit, task, history, faults>>

(* delete_registration and prune_stale: a crash between two statements keeps rows.  *)
DeleteRegistration(a) ==
  /\ changes < MaxChanges
  /\ endpoint[a] # None
  /\ endpoint' = [endpoint EXCEPT ![a] = None]
  /\ changes' = changes + 1
  /\ LET gone == {r \in outbox : app[r] = a} IN
       /\ outbox' = outbox \ gone
       /\ dropped' = dropped \cup gone
  /\ UNCHANGED <<app, attempts, wait, producers, permit, task, copies, repeats, faults>>

(* A listener stores a message; one that has been aborted may still do.             *)
Enqueue(a) ==
  /\ lastId < MaxId
  /\ lastId' = lastId + 1
  /\ notices' = notices + 1
  /\ outbox' = outbox \cup {lastId'}
  /\ app' = [app EXCEPT ![lastId'] = a]
  /\ UNCHANGED <<endpoint, attempts, wait, permit, task, history, changes, faults>>

(* notify_one, or the listener is aborted before it.                                *)
Notify ==
  /\ notices > 0
  /\ notices' = notices - 1
  /\ permit' = TRUE \/ UNCHANGED permit
  /\ UNCHANGED <<endpoint, table, lastId, task, history, changes, faults>>

-------------------------------------------------------------------------------
(* run_unified_push_delivery.                                                       *)

(* Faulty variant of Due: a row is due whatever it waits for.                       *)
DueAlways(r) == r \in outbox /\ endpoint[app[r]] # None

(* The JOIN leaves out a row whose registration is gone.                            *)
Due(r) ==
  /\ r \in outbox
  /\ endpoint[app[r]] # None
  /\ wait[r] = 0

(* The LIMIT oldest rows that are due.                                              *)
IsDueBatch(rows) ==
  LET due == {r \in Id : Due(r)} IN
    /\ \A k \in DOMAIN rows :
         /\ rows[k] \in due
         /\ Cardinality({r \in due : r < rows[k]}) = k - 1
    /\ Len(rows) = IF Cardinality(due) < LIMIT THEN Cardinality(due) ELSE LIMIT

Loaded(rows) ==
  [k \in DOMAIN rows |->
     [id |-> rows[k], endpoint |-> endpoint[app[rows[k]]], attempts |-> attempts[rows[k]]]]

LoadBatch ==
  /\ pc = "load"
  /\ \E n \in 0..LIMIT : \E rows \in [1..n -> Id] :
       /\ IsDueBatch(rows)
       /\ batch' = Loaded(rows)
       /\ pc' = IF n = 0 THEN "idle" ELSE "post"
       /\ timer' = IF n = 0 THEN Poll ELSE 0
  /\ attempt' = 1
  /\ UNCHANGED <<endpoint, table, producers, permit, history, changes, faults>>

LoadFails ==
  /\ pc = "load"
  /\ Fault
  /\ pc' = "error"
  /\ timer' = Poll
  /\ UNCHANGED <<endpoint, table, producers, permit, batch, attempt, history, changes>>

LoadAgain ==
  /\ pc' = "load"
  /\ timer' = 0
  /\ UNCHANGED <<endpoint, table, producers, batch, attempt, history, changes, faults>>

(* notified() takes the permit.                                                     *)
Wake ==
  /\ pc = "idle"
  /\ permit
  /\ permit' = FALSE
  /\ LoadAgain

(* Faulty variant of PollEnds: only a notice ends the wait.                         *)
NeverPolls == pc = "error" /\ timer = 0 /\ UNCHANGED permit /\ LoadAgain

PollEnds ==
  /\ pc \in {"idle", "error"}
  /\ timer = 0
  /\ UNCHANGED permit
  /\ LoadAgain

(* forward_to_up: one post.                                                         *)
Post ==
  /\ pc = "post"
  /\ LET m == Head(batch) IN
       \/ /\ m.endpoint \in Accepting
          /\ copies' = [copies EXCEPT ![m.id] = @ + 1]
          /\ \/ pc' = "delete" /\ NoFault /\ UNCHANGED <<timer, repeats>>
             \/ Fault /\ repeats' = repeats + 1 /\ pc' = "pause" /\ timer' = AttemptTime
       \/ /\ m.endpoint \in Refusing
          /\ pc' = "defer"
          /\ NoFault /\ UNCHANGED <<timer, copies, repeats>>
       \/ /\ m.endpoint \notin Refusing
          /\ IF m.endpoint \in Accepting THEN Fault ELSE NoFault
          /\ pc' = "pause"
          /\ timer' = AttemptTime
          /\ UNCHANGED <<copies, repeats>>
  /\ UNCHANGED <<endpoint, table, producers, permit, batch, attempt, dropped, changes>>

(* It is tried again, or given up.                                                  *)
PauseEnds ==
  /\ pc = "pause"
  /\ timer = 0
  /\ IF attempt < MAX_ATTEMPTS
     THEN pc' = "post" /\ attempt' = attempt + 1
     ELSE pc' = "defer" /\ UNCHANGED attempt
  /\ UNCHANGED <<endpoint, table, producers, permit, batch, timer, history, changes, faults>>

NextInBatch ==
  /\ batch' = Tail(batch)
  /\ pc' = IF Len(batch) = 1 THEN "load" ELSE "post"
  /\ attempt' = 1
  /\ UNCHANGED timer

(* Faulty variant of DeleteDelivered: only the row of an unchanged registration.    *)
DeleteUnchanged ==
  /\ pc = "delete"
  /\ LET m == Head(batch) IN
       outbox' = IF endpoint[app[m.id]] = m.endpoint THEN outbox \ {m.id} ELSE outbox
  /\ NextInBatch
  /\ UNCHANGED <<endpoint, app, attempts, wait, producers, permit, history, changes, faults>>

(* delete_outbox_message: when it fails the row stays due.                          *)
DeleteDelivered ==
  /\ pc = "delete"
  /\ \/ /\ outbox' = outbox \ {Head(batch).id}
        /\ NoFault /\ UNCHANGED repeats
     \/ Fault /\ repeats' = repeats + 1 /\ UNCHANGED outbox
  /\ NextInBatch
  /\ UNCHANGED <<endpoint, app, attempts, wait, producers, permit, copies, dropped, changes>>

(* Faulty variant of Defer: a refused message is given up.                          *)
DeferOrGiveUp ==
  /\ pc = "defer"
  /\ outbox' = outbox \ {Head(batch).id}
  /\ NextInBatch
  /\ UNCHANGED <<endpoint, app, attempts, wait, producers, permit, history, changes, faults>>

(* defer_outbox_message: nothing happens to a row that is gone.                     *)
Defer ==
  /\ pc = "defer"
  /\ LET m == Head(batch) IN
       \/ /\ m.id \in outbox
          /\ attempts' = [attempts EXCEPT ![m.id] = IF @ < Enough THEN @ + 1 ELSE @]
          /\ wait' = [wait EXCEPT ![m.id] = BackOff(m.attempts)]
          /\ NoFault
       \/ m.id \notin outbox /\ NoFault /\ UNCHANGED <<attempts, wait>>
       \/ Fault /\ UNCHANGED <<attempts, wait>>
  /\ NextInBatch
  /\ UNCHANGED <<endpoint, outbox, app, producers, permit, history, changes>>

-------------------------------------------------------------------------------
(* The task sleeps, and the back-off of rows runs.                                  *)
Tick ==
  /\ pc \in {"idle", "pause", "error"}
  /\ timer > 0
  /\ timer' = timer - 1
  /\ wait' = [r \in Id |-> IF wait[r] > 0 THEN wait[r] - 1 ELSE 0]
  /\ UNCHANGED <<endpoint, outbox, app, attempts, producers, permit, pc, batch, attempt, history, changes,
                 faults>>

(* A message that was taken and not deleted is posted again.                        *)
Crash ==
  /\ Fault
  /\ pc' = "load"
  /\ batch' = <<>>
  /\ attempt' = 1
  /\ timer' = 0
  /\ notices' = 0
  /\ permit' = FALSE
  /\ repeats' = IF pc = "delete" THEN repeats + 1 ELSE repeats
  /\ UNCHANGED <<endpoint, table, lastId, copies, dropped, changes>>

-------------------------------------------------------------------------------
Registrations == \E a \in Apps : DeleteRegistration(a) \/ \E e \in Endpoints : Register(a, e)
Producers == Notify \/ \E a \in Apps : Enqueue(a)
Task == LoadBatch \/ Wake \/ PollEnds \/ Post \/ PauseEnds \/ DeleteDelivered \/ Defer

Next == Registrations \/ Producers \/ Task \/ LoadFails \/ Tick \/ Crash

Spec == Init /\ [][Next]_vars

(* The task runs and time passes; no listener need come to notify_one.              *)
FairSpec == Spec /\ WF_vars(Task) /\ WF_vars(Tick)

-------------------------------------------------------------------------------
TypeOK ==
  /\ endpoint \in [Apps -> Endpoints \cup {None}]
  /\ outbox \subseteq 1..lastId
  /\ app \in [Id -> Apps]
  /\ attempts \in [Id -> 0..Enough]
  /\ wait \in [Id -> 0..Longest]
  /\ lastId \in 0..MaxId /\ notices \in 0..MaxId /\ permit \in BOOLEAN
  /\ pc \in Phase
  /\ batch \in Seq(Message) /\ Len(batch) <= LIMIT
  /\ (pc \in {"post", "pause", "delete", "defer"} <=> batch # <<>>)
  /\ attempt \in 1..MAX_ATTEMPTS
  /\ timer \in Nat
  /\ copies \in [Id -> Nat] /\ dropped \subseteq Id /\ repeats \in 0..MaxFaults
  /\ changes \in 0..MaxChanges /\ faults \in 0..MaxFaults

(* A message leaves the outbox only when an endpoint has answered that it took it,  *)
(* or with its registration: neither a refusal, nor any number of failures, nor a   *)
(* registration that changes under a batch loses it.                                *)
NoLoss == \A r \in 1..lastId : r \in outbox \/ r \in dropped \/ copies[r] > 0

(* Endpoints get a message again only for a fault in between: a lost answer, a      *)
(* delete that failed, a crash before it.                                           *)
OnceUnlessFault ==
  \A r \in Id : copies[r] <= 1 + repeats

(* No row is posted while its back-off runs, whatever wakes the task, and however   *)
(* long its batch was loaded ago.                                                   *)
BackedOff ==
  [][pc' = "post" /\ pc # "post" => LET m == Head(batch') IN m.id \in outbox => wait[m.id] = 0]_vars

(* A message of an application that is registered with an endpoint that accepts     *)
(* messages is delivered, or its registration changes.                              *)
Deliverable(r) == r \in outbox /\ endpoint[app[r]] \in Accepting

EventuallyForwarded == \A r \in Id : Deliverable(r) ~> ~Deliverable(r)
===============================================================================
