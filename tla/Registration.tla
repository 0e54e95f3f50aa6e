----------------------------- MODULE Registration -----------------------------
(* Registration of applications with the bridge, and the life of their FCM       *)
(* listeners: the handlers register and unregister of main.rs, its prune task    *)
(* and restore_registrations, the FcmManager of fcm.rs behind its RwLock, and    *)
(* the tables installations, registrations and fcm_sessions.                     *)
(*                                                                               *)
(* One action is what a task does between two awaits.  The lock is held across   *)
(* the awaits of start_listener.  A statement of a handler that is dropped while *)
(* it is queued still runs; that is the same as running it and dropping the      *)
(* handler afterwards, because the database serves its callers in order.         *)
(* What delete_registration removes from acked_messages and outbox is read by    *)
(* no one here and left out.                                                     *)
EXTENDS Integers, FiniteSets

CONSTANTS
  Installs,     (* install ids                                                     *)
  Apps,         (* application ids                                                 *)
  Secrets,      (* installation secrets, standing for their hashes too             *)
  Creds,        (* Firebase credentials of an application                          *)
  Refused,      (* those from which no sender id can be extracted                  *)
  Targets,      (* everything else in a ListenerConfig                             *)
  Handlers,     (* requests that can be served at the same time                    *)
  Main,         (* the task of main() and, once it serves, the prune task          *)
  None,
  FaultKinds,   (* what may go wrong: see Fault                                    *)
  MaxRequests,  (* bound: requests besides heartbeats                              *)
  MaxFaults     (* bound: how often something goes wrong                           *)

ASSUME NoneAssumption ==
  None \notin Secrets \cup Creds \cup Handlers \cup {Main} /\ Main \notin Handlers
ASSUME JobAssumption ==
  Installs # {} /\ Apps # {} /\ Secrets # {} /\ Targets # {} /\ Refused \subseteq Creds
ASSUME BoundAssumption == MaxRequests \in Nat /\ MaxFaults \in Nat

VARIABLES
  owner,      (* table installations: whose secret claimed the install             *)
  rows,       (* table registrations                                               *)
  sessions,   (* table fcm_sessions: the FCM token of the session, 0 for no row    *)
  listeners,  (* FcmManager::listeners                                             *)
  lock,       (* who holds the RwLock around the FcmManager                        *)
  pc,         (* where each task stands                                            *)
  job,        (* what it works on                                                  *)
  todo,       (* pairs Main still has to restore, or to stop after a prune         *)
  failed,     (* history: pairs whose last start_listener left no listener         *)
  pruned,     (* history: pairs whose listener the prune task stopped last         *)
  wanted,     (* external: the registration a device repeats every day             *)
  requests,   (* requests so far                                                   *)
  faults      (* faults so far                                                     *)

tables == <<owner, rows, sessions>>
manager == <<listeners, lock, failed, pruned>>
tasks == <<pc, job>>
world == <<wanted, requests>>
vars == <<tables, manager, tasks, todo, world, faults>>

-------------------------------------------------------------------------------
Pairs == Installs \X Apps
Procs == Handlers \cup {Main}

Row == [secret: Secrets, creds: Creds, target: Targets, stale: BOOLEAN]
Listener == [creds: Creds, target: Targets, token: Nat]
Request == [secret: Secrets, creds: Creds, target: Targets]
Job == [pair: Pairs, secret: Secrets, creds: Creds \cup {None}, target: Targets, token: Nat]

(* None stands for no row and for no listener.                                   *)
ASSUME RecordAssumption == None \notin Row /\ None \notin Listener

(* The value of job outside a request.                                           *)
NoJob == [pair |-> CHOOSE p \in Pairs : TRUE, secret |-> CHOOSE s \in Secrets : TRUE,
          creds |-> None, target |-> CHOOSE t \in Targets : TRUE, token |-> 0]

(* The awaits of register ("claim" to "insert"), of unregister ("verify" to      *)
(* "delete"), of restore_registrations ("boot", then those of start_listener)    *)
(* and of the prune task ("sleep", "stop").                                      *)
Starting == {"load", "fcm", "save_session", "insert"}
Phase == {"idle", "claim", "lookup", "save", "lock", "verify", "unlisten", "delete",
          "boot", "sleep", "stop"} \cup Starting

Serving == pc[Main] \in {"sleep", "stop"}

Holder(p) == lock = p

Init ==
  /\ owner = [i \in Installs |-> None]
  /\ rows = [p \in Pairs |-> None]
  /\ sessions = [p \in Pairs |-> 0]
  /\ listeners = [p \in Pairs |-> None]
  /\ lock = None
  /\ pc = [p \in Procs |-> IF p = Main THEN "boot" ELSE "idle"]
  /\ job = [p \in Procs |-> NoJob]
  /\ todo = {}
  /\ failed = {}
  /\ pruned = {}
  /\ wanted = [p \in Pairs |-> None]
  /\ requests = 0
  /\ faults = 0

(* "crash": the process stops.  "drop": the client closes its connection and the *)
(* server drops the handler at the next await.  "database": a statement fails.   *)
(* "fcm": Google cannot be reached.  "silence": a device is quiet for 90 days.   *)
Fault(kind) ==
  /\ kind \in FaultKinds
  /\ faults < MaxFaults
  /\ faults' = faults + 1

Goto(p, phase) == pc' = [pc EXCEPT ![p] = phase] /\ UNCHANGED job

(* A handler answers; Main goes on with the next registration to restore.        *)
Done(p) ==
  /\ pc' = [pc EXCEPT ![p] = IF p = Main THEN "boot" ELSE "idle"]
  /\ job' = [job EXCEPT ![p] = NoJob]

-------------------------------------------------------------------------------
(* Requests.                                                                     *)

Receive(h, phase, p, s, k, t) ==
  /\ Serving
  /\ pc[h] = "idle"
  /\ pc' = [pc EXCEPT ![h] = phase]
  /\ job' = [job EXCEPT ![h] =
       [pair |-> p, secret |-> s, creds |-> k, target |-> t, token |-> 0]]
  /\ UNCHANGED <<tables, manager, todo, faults>>

Counted == requests < MaxRequests /\ requests' = requests + 1

(* A first registration, or a changed one; without credentials, those of the     *)
(* registration that exists are meant.                                           *)
ReceiveRegister(h) ==
  /\ Counted
  /\ \E p \in Pairs, s \in Secrets, k \in Creds \cup {None}, t \in Targets :
       /\ Receive(h, "claim", p, s, k, t)
       /\ wanted' = IF k = None THEN wanted
                    ELSE [wanted EXCEPT ![p] = [secret |-> s, creds |-> k, target |-> t]]

(* The daily registration of the shim.                                           *)
Heartbeat(h, p) ==
  /\ wanted[p] # None
  /\ Receive(h, "claim", p, wanted[p].secret, wanted[p].creds, wanted[p].target)
  /\ UNCHANGED world

ReceiveUnregister(h) ==
  /\ Counted
  /\ \E p \in Pairs, s \in Secrets :
       /\ Receive(h, "verify", p, s, None, NoJob.target)
       /\ wanted' = [wanted EXCEPT ![p] = None]

-------------------------------------------------------------------------------
(* register, up to the row.                                                      *)

(* Faulty variant of MayClaim: the upsert forgets its WHERE.                      *)
AnyoneMayClaim(i, s) == TRUE

(* An install belongs to the first secret that claims it.                        *)
MayClaim(i, s) == owner[i] \in {None, s}

ClaimInstallation(h) ==
  /\ pc[h] = "claim"
  /\ LET i == job[h].pair[1] IN
       \/ /\ MayClaim(i, job[h].secret)
          /\ owner' = [owner EXCEPT ![i] = job[h].secret]
          /\ Goto(h, "lookup")
       \/ /\ ~MayClaim(i, job[h].secret)
          /\ Done(h)
          /\ UNCHANGED owner
  /\ UNCHANGED <<rows, sessions, manager, todo, world, faults>>

(* Faulty variant of GetRegistration: nobody asks for credentials.               *)
GetRegistrationUnchecked(h) ==
  /\ pc[h] = "lookup"
  /\ Goto(h, "save")
  /\ UNCHANGED <<tables, manager, todo, world, faults>>

(* The registration that exists supplies the credentials the request leaves out. *)
GetRegistration(h) ==
  /\ pc[h] = "lookup"
  /\ LET row == rows[job[h].pair] IN
       \/ /\ job[h].creds # None
          /\ Goto(h, "save")
       \/ /\ job[h].creds = None /\ row # None
          /\ job' = [job EXCEPT ![h].creds = row.creds]
          /\ pc' = [pc EXCEPT ![h] = "save"]
       \/ /\ job[h].creds = None /\ row = None
          /\ Done(h)
  /\ UNCHANGED <<tables, manager, todo, world, faults>>

(* The upsert touches a row of its own secret only.                              *)
LostClaimRace(h) == LET row == rows[job[h].pair] IN row # None /\ row.secret # job[h].secret

SaveRegistration(h) ==
  /\ pc[h] = "save"
  /\ IF LostClaimRace(h)
     THEN Done(h) /\ UNCHANGED rows
     ELSE /\ rows' = [rows EXCEPT ![job[h].pair] =
               [secret |-> job[h].secret, creds |-> job[h].creds,
                target |-> job[h].target, stale |-> FALSE]]
          /\ Goto(h, "lock")
  /\ UNCHANGED <<owner, sessions, manager, todo, world, faults>>

-------------------------------------------------------------------------------
(* FcmManager::start_listener, for a handler and for Main.                       *)

(* Faulty variant of LockFree: the manager is locked for each of its steps only.  *)
NeverLocked == TRUE

LockFree == lock = None

(* Faulty variant of Unchanged: the credentials are not compared.                *)
UnchangedTarget(p) ==
  LET running == listeners[job[p].pair] IN running # None /\ running.target = job[p].target

(* running_token: the listener there is already does what the request wants.     *)
Unchanged(p) ==
  LET running == listeners[job[p].pair] IN
    /\ running # None
    /\ running.creds = job[p].creds
    /\ running.target = job[p].target

(* What runs before the first await: keep the listener, or stop it and start     *)
(* another one, which invalid credentials prevent at once.                       *)
StartListener(p) ==
  /\ pc[p] = "lock"
  /\ LockFree
  /\ \/ /\ Unchanged(p)
        /\ failed' = failed \ {job[p].pair}
        /\ Done(p)
        /\ UNCHANGED <<listeners, lock>>
     \/ /\ ~Unchanged(p)
        /\ listeners' = [listeners EXCEPT ![job[p].pair] = None]
        /\ failed' = failed \cup {job[p].pair}
        /\ \/ job[p].creds \in Refused /\ Done(p) /\ UNCHANGED lock
           \/ job[p].creds \notin Refused /\ lock' = p /\ Goto(p, "load")
  /\ pruned' = pruned \ {job[p].pair}
  /\ UNCHANGED <<tables, todo, world, faults>>

(* Faulty variant of HasSession: every start registers with FCM anew.            *)
NeverHasSession(pair) == FALSE

HasSession(pair) == sessions[pair] # 0

(* get_fcm_session; a query that fails counts as no session.                     *)
LoadSession(p) ==
  /\ pc[p] = "load"
  /\ LET pair == job[p].pair IN
       \/ /\ HasSession(pair)
          /\ job' = [job EXCEPT ![p].token = sessions[pair]]
          /\ pc' = [pc EXCEPT ![p] = "save_session"]
          /\ UNCHANGED faults
       \/ /\ ~HasSession(pair)
          /\ Goto(p, "fcm")
          /\ UNCHANGED faults
       \/ /\ HasSession(pair)
          /\ Fault("database")
          /\ Goto(p, "fcm")
  /\ UNCHANGED <<tables, manager, todo, world>>

(* Tokens somebody still has; the next one that FCM issues is none of them.      *)
TokensInUse ==
  {sessions[p] : p \in Pairs} \cup {job[p].token : p \in Procs}
    \cup {listeners[p].token : p \in {q \in Pairs : listeners[q] # None}}

IsFresh(n) ==
  /\ n \in 1..(Cardinality(TokensInUse) + 1)
  /\ n \notin TokensInUse
  /\ \A m \in 1..(n - 1) : m \in TokensInUse

(* Faulty variant of ReleaseLock: a failure leaves the manager locked.           *)
KeepLock == UNCHANGED lock

ReleaseLock == lock' = None

(* register_app: check-in and registration over HTTP.                            *)
RegisterApp(p) ==
  /\ pc[p] = "fcm"
  /\ \/ /\ \E n \in 1..(Cardinality(TokensInUse) + 1) :
             IsFresh(n) /\ job' = [job EXCEPT ![p].token = n]
        /\ pc' = [pc EXCEPT ![p] = "save_session"]
        /\ UNCHANGED <<lock, faults>>
     \/ /\ Fault("fcm")
        /\ ReleaseLock
        /\ Done(p)
  /\ UNCHANGED <<tables, listeners, failed, pruned, todo, world>>

(* save_fcm_session, whose failure is ignored.                                   *)
SaveSession(p) ==
  /\ pc[p] = "save_session"
  /\ Goto(p, "insert")
  /\ \/ sessions' = [sessions EXCEPT ![job[p].pair] = job[p].token] /\ UNCHANGED faults
     \/ Fault("database") /\ UNCHANGED sessions
  /\ UNCHANGED <<owner, rows, manager, todo, world>>

(* The task is spawned, and the lock released.                                   *)
InsertListener(p) ==
  /\ pc[p] = "insert"
  /\ listeners' = [listeners EXCEPT ![job[p].pair] =
       [creds |-> job[p].creds, target |-> job[p].target, token |-> job[p].token]]
  /\ failed' = failed \ {job[p].pair}
  /\ lock' = None
  /\ Done(p)
  /\ UNCHANGED <<tables, pruned, todo, world, faults>>

-------------------------------------------------------------------------------
(* unregister.                                                                   *)

VerifyInstallation(h) ==
  /\ pc[h] = "verify"
  /\ \/ owner[job[h].pair[1]] = job[h].secret /\ Goto(h, "unlisten")
     \/ owner[job[h].pair[1]] # job[h].secret /\ Done(h)
  /\ UNCHANGED <<tables, manager, todo, world, faults>>

(* FcmManager::stop_listener.                                                    *)
StopListener(pair) ==
  /\ LockFree
  /\ listeners' = [listeners EXCEPT ![pair] = None]
  /\ failed' = failed \ {pair}
  /\ UNCHANGED lock

Unlisten(h) ==
  /\ pc[h] = "unlisten"
  /\ StopListener(job[h].pair)
  /\ Goto(h, "delete")
  /\ UNCHANGED <<tables, pruned, todo, world, faults>>

(* The statements are not a transaction, and rows goes first: of the pairs that  *)
(* are gone, the last one may have kept its session.                             *)
DeleteRows(gone, kept) ==
  /\ rows' = [p \in Pairs |-> IF p \in gone THEN None ELSE rows[p]]
  /\ sessions' = [p \in Pairs |-> IF p \in gone \ kept THEN 0 ELSE sessions[p]]

DeleteSome(pairs) ==
  \E gone \in SUBSET pairs :
    \E kept \in {{}} \cup {{p} : p \in gone} : DeleteRows(gone, kept)

DeleteRegistration(h) ==
  /\ pc[h] = "delete"
  /\ Done(h)
  /\ \/ DeleteRows({job[h].pair}, {}) /\ UNCHANGED faults
     \/ DeleteSome({job[h].pair}) /\ Fault("database")
  /\ UNCHANGED <<owner, manager, todo, world>>

-------------------------------------------------------------------------------
(* Main.                                                                         *)

(* restore_registrations: one registration after the other.                      *)
RestoreNext ==
  /\ pc[Main] = "boot"
  /\ \E p \in todo :
       /\ todo' = todo \ {p}
       /\ job' = [job EXCEPT ![Main] =
            [pair |-> p, secret |-> rows[p].secret, creds |-> rows[p].creds,
             target |-> rows[p].target, token |-> 0]]
  /\ pc' = [pc EXCEPT ![Main] = "lock"]
  /\ UNCHANGED <<tables, manager, world, faults>>

(* Faulty variant of Restored: the first registration ends the loop.             *)
RestoredEarly ==
  /\ pc[Main] = "boot"
  /\ todo' = {}
  /\ Goto(Main, "sleep")
  /\ UNCHANGED <<tables, manager, world, faults>>

Restored ==
  /\ pc[Main] = "boot"
  /\ todo = {}
  /\ Goto(Main, "sleep")
  /\ UNCHANGED <<tables, manager, todo, world, faults>>

Stale == {p \in Pairs : rows[p] # None /\ rows[p].stale}

(* prune_stale in one await, the listeners of the pairs it returns in others.    *)
PruneStale ==
  /\ pc[Main] = "sleep"
  /\ Stale # {}
  /\ \/ /\ DeleteRows(Stale, {})
        /\ todo' = Stale
        /\ Goto(Main, "stop")
        /\ UNCHANGED faults
     \/ /\ Fault("database")
        /\ DeleteSome(Stale)
        /\ UNCHANGED <<tasks, todo>>
  /\ UNCHANGED <<owner, manager, world>>

StopPruned ==
  /\ pc[Main] = "stop"
  /\ \E p \in todo :
       /\ StopListener(p)
       /\ todo' = todo \ {p}
       /\ pruned' = pruned \cup {p}
       /\ Goto(Main, IF todo = {p} THEN "sleep" ELSE "stop")
  /\ UNCHANGED <<tables, world, faults>>

-------------------------------------------------------------------------------
(* What goes wrong.                                                              *)

(* A statement of a handler fails: it answers 500.                               *)
DatabaseFails(h) ==
  /\ pc[h] \in {"claim", "lookup", "save", "verify"}
  /\ Fault("database")
  /\ Done(h)
  /\ UNCHANGED <<tables, manager, todo, world>>

(* The lock guard is dropped with the handler.                                   *)
DropHandler(h) ==
  /\ pc[h] # "idle"
  /\ Fault("drop")
  /\ Done(h)
  /\ lock' = IF Holder(h) THEN None ELSE lock
  /\ UNCHANGED <<tables, listeners, failed, pruned, todo, world>>

(* The statements a crash interrupts.                                            *)
BeingDeleted == {job[h].pair : h \in {g \in Handlers : pc[g] = "delete"}}
                  \cup (IF pc[Main] = "sleep" THEN Stale ELSE {})

(* Only the tables survive; main() lists the registrations again.                *)
Crash ==
  /\ Fault("crash")
  /\ DeleteSome(BeingDeleted)
  /\ listeners' = [p \in Pairs |-> None]
  /\ lock' = None
  /\ failed' = {}
  /\ pruned' = {}
  /\ pc' = [p \in Procs |-> IF p = Main THEN "boot" ELSE "idle"]
  /\ job' = [p \in Procs |-> NoJob]
  /\ todo' = {p \in Pairs : rows'[p] # None}
  /\ UNCHANGED <<owner, world>>

AtRest == pc[Main] = "sleep" /\ \A h \in Handlers : pc[h] = "idle"

(* updated_at of a row falls behind the cutoff of prune_stale.                   *)
RowAges(p) ==
  /\ AtRest
  /\ rows[p] # None /\ ~rows[p].stale
  /\ Fault("silence")
  /\ rows' = [rows EXCEPT ![p].stale = TRUE]
  /\ UNCHANGED <<owner, sessions, manager, tasks, todo, world>>

-------------------------------------------------------------------------------
StartStep(p) ==
  StartListener(p) \/ LoadSession(p) \/ RegisterApp(p) \/ SaveSession(p) \/ InsertListener(p)

HandlerStep(h) ==
  \/ ClaimInstallation(h) \/ GetRegistration(h) \/ SaveRegistration(h)
  \/ StartStep(h)
  \/ VerifyInstallation(h) \/ Unlisten(h) \/ DeleteRegistration(h)

MainStep == RestoreNext \/ Restored \/ StartStep(Main) \/ PruneStale \/ StopPruned

Requesting ==
  \E h \in Handlers :
    ReceiveRegister(h) \/ ReceiveUnregister(h) \/ \E p \in Pairs : Heartbeat(h, p)

Failing ==
  \/ \E h \in Handlers : DatabaseFails(h) \/ DropHandler(h)
  \/ Crash
  \/ \E p \in Pairs : RowAges(p)

Next == Requesting \/ (\E h \in Handlers : HandlerStep(h)) \/ MainStep \/ Failing

Spec == Init /\ [][Next]_vars

(* Tasks run; the lock is handed out in the order of the queue, so that nobody    *)
(* waits for it for ever; the shim registers again every day.                    *)
Fairness ==
  /\ \A h \in Handlers : WF_vars(HandlerStep(h)) /\ SF_vars(StartListener(h)) /\ SF_vars(Unlisten(h))
  /\ WF_vars(MainStep) /\ SF_vars(StopPruned)
  /\ \A p \in Pairs : WF_vars(\E h \in Handlers : Heartbeat(h, p))

FairSpec == Spec /\ Fairness

-------------------------------------------------------------------------------
TypeOK ==
  /\ owner \in [Installs -> Secrets \cup {None}]
  /\ rows \in [Pairs -> Row \cup {None}]
  /\ sessions \in [Pairs -> Nat]
  /\ listeners \in [Pairs -> Listener \cup {None}]
  /\ lock \in Procs \cup {None}
  /\ pc \in [Procs -> Phase]
  /\ job \in [Procs -> Job]
  /\ todo \subseteq Pairs /\ failed \subseteq Pairs /\ pruned \subseteq Pairs
  /\ wanted \in [Pairs -> Request \cup {None}]
  /\ requests \in 0..MaxRequests /\ faults \in 0..MaxFaults

(* Every registration belongs to the secret that owns its install, whichever     *)
(* requests compete for the first claim, and is never taken over by another.     *)
RowsOwned == \A p \in Pairs : rows[p] # None => rows[p].secret = owner[p[1]]

(* A token that has been saved is replaced only after its session was deleted:   *)
(* of two requests that start the listener of an application at the same time,   *)
(* the second finds what the first has saved.  (A start that is cut off between  *)
(* the answer of FCM and the save loses a token nobody has used, and the next    *)
(* one registers again.)                                                         *)
TokenStable ==
  [][\A p \in Pairs : sessions[p] # 0 => sessions'[p] \in {0, sessions[p]}]_vars

(* A listener that runs has the token that is saved for the next start.          *)
TokenAgrees ==
  \A p \in Pairs : listeners[p] # None /\ sessions[p] # 0 => listeners[p].token = sessions[p]

(* main.rs:5: the bridge maintains an FCM connection for each registered app,    *)
(* unless its last attempt to start one failed.                                  *)
Maintained ==
  AtRest => \A p \in Pairs : rows[p] # None /\ p \notin failed => listeners[p] # None

(* Between requests that do not overlap, only a failed start and the prune task   *)
(* leave a registered application without a listener, across restarts too.       *)
MaintainedOrPruned ==
  AtRest => \A p \in Pairs :
    rows[p] # None /\ p \notin failed \cup pruned => listeners[p] # None

(* Nothing listens for an application that is not registered, or with another    *)
(* configuration than the registered one.                                        *)
ListenerMatchesRow ==
  AtRest => \A p \in Pairs : listeners[p] # None =>
    /\ rows[p] # None
    /\ rows[p].creds = listeners[p].creds
    /\ rows[p].target = listeners[p].target

(* Every request is answered: the lock around the manager is always released,    *)
(* whatever fails while it is held.                                              *)
EventuallyAnswered == \A h \in Handlers : []<>(pc[h] = "idle")

Listens(p) ==
  /\ rows[p] # None /\ rows[p].creds = wanted[p].creds /\ rows[p].target = wanted[p].target
  /\ listeners[p] # None
  /\ listeners[p].creds = wanted[p].creds /\ listeners[p].target = wanted[p].target

(* Whatever races and failures leave behind, the daily registrations of a device *)
(* lead back to a registration and a listener with its present configuration.    *)
EventuallyMaintained ==
  \A p \in Pairs : <>[](wanted[p] # None /\ wanted[p].secret = owner[p[1]] => Listens(p))
===============================================================================
