-------------------------- MODULE RegistrationProofs --------------------------
(* Proofs about Registration: its types, that a registration belongs to the      *)
(* secret that owns its install, and that the lock around the manager keeps one  *)
(* FCM token per application as long as no statement of the database fails.      *)
(* When requests do not overlap either, nor are dropped, the listeners are those *)
(* of the registrations.                                                         *)
EXTENDS Registration, TLAPS

(* While main() restores, no request is served, and what is left to restore is   *)
(* registered.                                                                   *)
BootInv ==
  ~Serving => /\ \A h \in Handlers : pc[h] = "idle"
              /\ \A p \in todo : rows[p] # None

(* From the second await of register on, the credentials are known.              *)
CredsKnown ==
  \A p \in Procs : pc[p] \in {"save", "lock"} \cup Starting => job[p].creds \in Creds

TypeInv == TypeOK /\ BootInv /\ CredsKnown

-------------------------------------------------------------------------------
(* The idle value of job is a job.                                               *)
LEMMA NoJobType == NoJob \in Job
<1>1. \E p \in Pairs : TRUE
  <2> PICK i \in Installs, a \in Apps : TRUE
    BY JobAssumption
  <2>1. <<i, a>> \in Pairs
    BY DEF Pairs
  <2> QED
    BY <2>1
<1>2. (\E s \in Secrets : TRUE) /\ (\E t \in Targets : TRUE)
  BY JobAssumption
<1> QED
  BY <1>1, <1>2 DEF NoJob, Job

(* A task that is done goes back to where it waits, and no other task moves.     *)
LEMMA DoneType ==
  ASSUME TypeOK, NEW p \in Procs, Done(p)
  PROVE  /\ pc' \in [Procs -> Phase] /\ job' \in [Procs -> Job]
         /\ pc'[p] = IF p = Main THEN "boot" ELSE "idle"
         /\ \A q \in Procs \ {p} : pc'[q] = pc[q] /\ job'[q] = job[q]
BY NoJobType DEF TypeOK, Done, Phase

(* So does a task that goes on, with the job it has.                             *)
LEMMA GotoType ==
  ASSUME TypeOK, NEW p \in Procs, NEW phase \in Phase, Goto(p, phase)
  PROVE  /\ pc' \in [Procs -> Phase] /\ job' = job
         /\ pc'[p] = phase
         /\ \A q \in Procs \ {p} : pc'[q] = pc[q]
BY DEF TypeOK, Goto

(* A request that arrives.                                                       *)
LEMMA ReceiveType ==
  ASSUME TypeInv, NEW h \in Handlers, NEW phase \in {"claim", "verify"},
         NEW p \in Pairs, NEW s \in Secrets, NEW k \in Creds \cup {None}, NEW t \in Targets,
         Receive(h, phase, p, s, k, t)
  PROVE  /\ pc' \in [Procs -> Phase] /\ job' \in [Procs -> Job]
         /\ BootInv' /\ CredsKnown'
<1>1. [pair |-> p, secret |-> s, creds |-> k, target |-> t, token |-> 0] \in Job
  BY DEF Job
<1>2. h \in Procs /\ h # Main /\ phase \in Phase
  BY NoneAssumption DEF Procs, Phase
<1>3. pc' \in [Procs -> Phase] /\ job' \in [Procs -> Job]
  BY <1>1, <1>2 DEF Receive, TypeInv, TypeOK
<1>4. /\ pc'[h] = phase
      /\ \A q \in Procs \ {h} : pc'[q] = pc[q] /\ job'[q] = job[q]
  BY <1>2 DEF Receive, TypeInv, TypeOK
<1>5. Serving'
  BY <1>2, <1>4 DEF Receive, Serving, Procs
<1>6. CredsKnown'
  BY <1>4 DEF TypeInv, CredsKnown, Starting
<1> QED
  BY <1>3, <1>5, <1>6 DEF BootInv

(* What is deleted is deleted from the tables only.                              *)
LEMMA DeleteType ==
  ASSUME TypeOK, NEW gone, NEW kept, DeleteRows(gone, kept)
  PROVE  /\ rows' \in [Pairs -> Row \cup {None}] /\ sessions' \in [Pairs -> Nat]
         /\ \A p \in Pairs : rows'[p] \in {None, rows[p]} /\ sessions'[p] \in {0, sessions[p]}
BY DEF TypeOK, DeleteRows

(* Several deletions of which some may be missing.                               *)
LEMMA DeleteSomeType ==
  ASSUME TypeOK, NEW pairs, DeleteSome(pairs)
  PROVE  /\ rows' \in [Pairs -> Row \cup {None}] /\ sessions' \in [Pairs -> Nat]
         /\ \A p \in Pairs : rows'[p] \in {None, rows[p]} /\ sessions'[p] \in {0, sessions[p]}
BY DeleteType DEF DeleteSome

(* A fault is counted, and bounded.                                              *)
LEMMA FaultType ==
  ASSUME TypeOK, NEW kind, Fault(kind)
  PROVE  faults' \in 0..MaxFaults
BY BoundAssumption DEF TypeOK, Fault

-------------------------------------------------------------------------------
(* Requests keep the types.                                                      *)
LEMMA RequestingType ==
  ASSUME TypeInv, Requesting
  PROVE  TypeInv'
<1> PICK h \in Handlers :
      ReceiveRegister(h) \/ ReceiveUnregister(h) \/ \E p \in Pairs : Heartbeat(h, p)
  BY DEF Requesting
<1>1. CASE ReceiveRegister(h)
  <2> PICK p \in Pairs, s \in Secrets, k \in Creds \cup {None}, t \in Targets :
        /\ Receive(h, "claim", p, s, k, t)
        /\ wanted' = IF k = None THEN wanted
                     ELSE [wanted EXCEPT ![p] = [secret |-> s, creds |-> k, target |-> t]]
    BY <1>1 DEF ReceiveRegister
  <2>1. wanted' \in [Pairs -> Request \cup {None}]
    BY DEF TypeInv, TypeOK, Request
  <2>2. requests' \in 0..MaxRequests
    BY <1>1, BoundAssumption DEF ReceiveRegister, Counted, TypeInv, TypeOK
  <2> QED
    BY <2>1, <2>2, ReceiveType DEF Receive, TypeInv, TypeOK, tables, manager
<1>2. CASE ReceiveUnregister(h)
  <2> PICK p \in Pairs, s \in Secrets :
        /\ Receive(h, "verify", p, s, None, NoJob.target)
        /\ wanted' = [wanted EXCEPT ![p] = None]
    BY <1>2 DEF ReceiveUnregister
  <2>1. wanted' \in [Pairs -> Request \cup {None}]
    BY DEF TypeInv, TypeOK
  <2>2. requests' \in 0..MaxRequests
    BY <1>2, BoundAssumption DEF ReceiveUnregister, Counted, TypeInv, TypeOK
  <2>3. NoJob.target \in Targets
    BY NoJobType DEF Job
  <2> QED
    BY <2>1, <2>2, <2>3, ReceiveType DEF Receive, TypeInv, TypeOK, tables, manager
<1>3. ASSUME NEW p \in Pairs, Heartbeat(h, p) PROVE TypeInv'
  <2>1. wanted[p] \in Request
    BY <1>3 DEF Heartbeat, TypeInv, TypeOK
  <2>2. /\ wanted[p].secret \in Secrets /\ wanted[p].creds \in Creds \cup {None}
        /\ wanted[p].target \in Targets
    BY <2>1 DEF Request
  <2>3. Receive(h, "claim", p, wanted[p].secret, wanted[p].creds, wanted[p].target)
    BY <1>3 DEF Heartbeat
  <2>4. pc' \in [Procs -> Phase] /\ job' \in [Procs -> Job] /\ BootInv' /\ CredsKnown'
    BY <2>2, <2>3, ReceiveType
  <2> QED
    BY <1>3, <2>3, <2>4 DEF Heartbeat, Receive, TypeInv, TypeOK, tables, manager, world
<1> QED
  BY <1>1, <1>2, <1>3

(* start_listener leaves the rows alone and moves its own task only, along its    *)
(* awaits or to where that task waits.                                           *)
Moves(p) ==
  /\ UNCHANGED <<owner, rows, todo, world>>
  /\ \A q \in Procs \ {p} : pc'[q] = pc[q] /\ job'[q] = job[q]
  /\ \/ pc'[p] \in Starting /\ job'[p].creds = job[p].creds
     \/ pc'[p] = IF p = Main THEN "boot" ELSE "idle"

LEMMA StartStepMoves ==
  ASSUME TypeInv, NEW p \in Procs, StartStep(p)
  PROVE  TypeOK' /\ Moves(p)
<1>1. pc[p] \in {"lock"} \cup Starting /\ job[p] \in Job
  BY DEF StartStep, StartListener, LoadSession, RegisterApp, SaveSession, InsertListener,
         TypeInv, TypeOK, Starting
<1>2. job[p].pair \in Pairs /\ job[p].creds \in Creds /\ job[p].target \in Targets
      /\ job[p].token \in Nat
  BY <1>1 DEF Job, TypeInv, CredsKnown
<1>3. TypeOK
  BY DEF TypeInv
<1>4. Starting \subseteq Phase
  BY DEF Starting, Phase
<1>5. CASE StartListener(p)
  <2>1. listeners' \in [Pairs -> Listener \cup {None}] /\ lock' \in Procs \cup {None}
    BY <1>5, <1>3 DEF StartListener, TypeOK
  <2>2. failed' \subseteq Pairs /\ pruned' \subseteq Pairs
    BY <1>5, <1>2, <1>3 DEF StartListener, TypeOK
  <2>3. Done(p) \/ Goto(p, "load")
    BY <1>5 DEF StartListener
  <2>4. UNCHANGED <<tables, todo, world, faults>>
    BY <1>5 DEF StartListener
  <2>5. "load" \in Phase /\ "load" \in Starting
    BY DEF Phase, Starting
  <2>6. pc' \in [Procs -> Phase] /\ job' \in [Procs -> Job] /\ Moves(p)
    <3>1. CASE Done(p)
      BY <3>1, <2>4, <1>3, DoneType DEF Moves, tables
    <3>2. CASE Goto(p, "load")
      <4>1. /\ pc' \in [Procs -> Phase] /\ job' = job /\ pc'[p] = "load"
            /\ \A q \in Procs \ {p} : pc'[q] = pc[q]
        BY <3>2, <2>5, <1>3, GotoType
      <4> QED
        BY <4>1, <2>4, <2>5, <1>3 DEF Moves, tables, TypeOK
    <3> QED
      BY <2>3, <3>1, <3>2
  <2> QED
    BY <2>1, <2>2, <2>4, <2>6, <1>3 DEF TypeOK, tables, world
<1>6. CASE LoadSession(p)
  <2>1. UNCHANGED <<tables, manager, todo, world>> /\ faults' \in 0..MaxFaults
    BY <1>6, <1>3, FaultType DEF LoadSession, TypeOK
  <2>2. \/ /\ job' = [job EXCEPT ![p].token = sessions[job[p].pair]]
           /\ pc' = [pc EXCEPT ![p] = "save_session"]
        \/ Goto(p, "fcm")
    BY <1>6 DEF LoadSession
  <2>3. sessions[job[p].pair] \in Nat
    BY <1>2, <1>3 DEF TypeOK
  <2>4. pc' \in [Procs -> Phase] /\ job' \in [Procs -> Job]
    BY <2>2, <2>3, <1>1, <1>3, <1>4 DEF Goto, TypeOK, Job, Starting
  <2>5. Moves(p)
    BY <2>1, <2>2, <1>3 DEF Moves, Goto, TypeOK, Job, Starting, tables
  <2> QED
    BY <2>1, <2>4, <2>5, <1>3 DEF TypeOK, tables, manager, world
<1>7. CASE RegisterApp(p)
  <2>1. UNCHANGED <<tables, listeners, failed, pruned, todo, world>>
    BY <1>7 DEF RegisterApp
  <2>2. faults' \in 0..MaxFaults /\ lock' \in Procs \cup {None}
    BY <1>7, <1>3, FaultType DEF RegisterApp, ReleaseLock, TypeOK
  <2>3. \/ /\ \E n \in Nat : job' = [job EXCEPT ![p].token = n]
           /\ pc' = [pc EXCEPT ![p] = "save_session"]
        \/ Done(p)
    <3>1. \A n : n \in 1..(Cardinality(TokensInUse) + 1) => n \in Nat
      OBVIOUS
    <3> QED
      BY <1>7, <3>1 DEF RegisterApp
  <2>4. pc' \in [Procs -> Phase] /\ job' \in [Procs -> Job] /\ Moves(p)
    <3>1. CASE Done(p)
      BY <3>1, <2>1, <1>3, DoneType DEF Moves, tables
    <3>2. ASSUME NEW n \in Nat, job' = [job EXCEPT ![p].token = n],
                 pc' = [pc EXCEPT ![p] = "save_session"]
          PROVE  pc' \in [Procs -> Phase] /\ job' \in [Procs -> Job] /\ Moves(p)
      <4>1. pc' \in [Procs -> Phase] /\ job' \in [Procs -> Job]
        BY <3>2, <1>1, <1>3, <1>4 DEF TypeOK, Job, Starting
      <4>2. Moves(p)
        BY <3>2, <2>1, <1>1, <1>3 DEF Moves, TypeOK, Job, Starting, tables
      <4> QED
        BY <4>1, <4>2
    <3> QED
      BY <2>3, <3>1, <3>2
  <2> QED
    BY <2>1, <2>2, <2>4, <1>3 DEF TypeOK, tables, world
<1>8. CASE SaveSession(p)
  <2>1. UNCHANGED <<owner, rows, manager, todo, world>> /\ Goto(p, "insert")
    BY <1>8 DEF SaveSession
  <2>2. faults' \in 0..MaxFaults /\ sessions' \in [Pairs -> Nat]
    BY <1>8, <1>2, <1>3, FaultType DEF SaveSession, TypeOK
  <2>3. "insert" \in Phase /\ "insert" \in Starting
    BY DEF Phase, Starting
  <2>4. pc' \in [Procs -> Phase] /\ job' = job /\ Moves(p)
    BY <2>1, <2>3, <1>3, GotoType DEF Moves
  <2> QED
    BY <2>1, <2>2, <2>4, <1>3 DEF TypeOK, manager, world
<1>9. CASE InsertListener(p)
  <2>1. UNCHANGED <<tables, pruned, todo, world, faults>> /\ Done(p) /\ lock' = None
        /\ failed' = failed \ {job[p].pair}
    BY <1>9 DEF InsertListener
  <2>2. listeners' \in [Pairs -> Listener \cup {None}]
    BY <1>9, <1>2, <1>3 DEF InsertListener, TypeOK, Listener
  <2>3. pc' \in [Procs -> Phase] /\ job' \in [Procs -> Job] /\ Moves(p)
    BY <2>1, <1>3, DoneType DEF Moves, tables
  <2> QED
    BY <2>1, <2>2, <2>3, <1>3 DEF TypeOK, tables, world
<1> QED
  BY <1>5, <1>6, <1>7, <1>8, <1>9 DEF StartStep

(* So start_listener keeps the types.                                             *)
LEMMA StartStepType ==
  ASSUME TypeInv, NEW p \in Procs, StartStep(p)
  PROVE  TypeInv'
<1>1. TypeOK' /\ Moves(p)
  BY StartStepMoves
<1>2. pc[p] \in {"lock"} \cup Starting
  BY DEF StartStep, StartListener, LoadSession, RegisterApp, SaveSession, InsertListener,
         Starting
<1>3. job[p].creds \in Creds
  BY <1>2 DEF TypeInv, CredsKnown
<1>4. CredsKnown'
  <2> SUFFICES ASSUME NEW q \in Procs, pc'[q] \in {"save", "lock"} \cup Starting
               PROVE  job'[q].creds \in Creds
    BY DEF CredsKnown
  <2>1. CASE q = p
    BY <2>1, <1>1, <1>3 DEF Moves, Starting
  <2>2. CASE q # p
    BY <2>2, <1>1 DEF Moves, TypeInv, CredsKnown
  <2> QED
    BY <2>1, <2>2
<1>5. BootInv'
  <2>1. CASE p = Main
    <3>1. ~Serving
      BY <2>1, <1>2 DEF Serving, Starting
    <3> QED
      BY <3>1, <2>1, <1>1, NoneAssumption DEF TypeInv, BootInv, Moves, Procs
  <2>2. CASE p # Main
    <3>1. p \in Handlers /\ Serving
      BY <2>2, <1>2 DEF TypeInv, BootInv, Procs, Starting
    <3>2. pc'[Main] = pc[Main]
      BY <2>2, <1>1 DEF Moves, Procs
    <3> QED
      BY <3>1, <3>2 DEF BootInv, Serving
  <2> QED
    BY <2>1, <2>2
<1> QED
  BY <1>1, <1>4, <1>5 DEF TypeInv

(* The other steps of a handler keep the types.                                  *)
LEMMA HandlerStepType ==
  ASSUME TypeInv, NEW h \in Handlers, HandlerStep(h)
  PROVE  TypeInv'
<1>1. TypeOK /\ h \in Procs /\ h # Main /\ job[h] \in Job /\ pc[h] # "idle"
  BY NoneAssumption DEF TypeInv, TypeOK, Procs, HandlerStep, StartStep, StartListener,
     LoadSession, RegisterApp, SaveSession, InsertListener, ClaimInstallation,
     GetRegistration, SaveRegistration, VerifyInstallation, Unlisten, DeleteRegistration
<1>2. /\ job[h].pair \in Pairs /\ job[h].pair[1] \in Installs /\ job[h].secret \in Secrets
      /\ job[h].creds \in Creds \cup {None} /\ job[h].target \in Targets
  BY <1>1 DEF Job, Pairs
<1>3. Serving
  BY <1>1 DEF TypeInv, BootInv
<1>4. ASSUME NEW phase \in Phase, Done(h) \/ Goto(h, phase)
      PROVE  /\ pc' \in [Procs -> Phase] /\ job' \in [Procs -> Job] /\ BootInv'
             /\ \A q \in Procs \ {h} : pc'[q] = pc[q] /\ job'[q] = job[q]
             /\ \/ pc'[h] = "idle"
                \/ Goto(h, phase) /\ pc'[h] = phase /\ job'[h] = job[h]
  <2>1. CASE Done(h)
    BY <2>1, <1>1, <1>3, DoneType DEF BootInv, Serving, Procs
  <2>2. CASE Goto(h, phase)
    <3>1. /\ pc' \in [Procs -> Phase] /\ job' = job /\ pc'[h] = phase
          /\ \A q \in Procs \ {h} : pc'[q] = pc[q]
      BY <2>2, <1>1, GotoType
    <3> QED
      BY <3>1, <2>2, <1>1, <1>3 DEF BootInv, Serving, Procs, TypeOK
  <2> QED
    BY <1>4, <2>1, <2>2
<1>5. CASE ClaimInstallation(h)
  <2>1. owner' \in [Installs -> Secrets \cup {None}]
    BY <1>5, <1>1, <1>2 DEF ClaimInstallation, TypeOK
  <2>2. Done(h) \/ Goto(h, "lookup")
    BY <1>5 DEF ClaimInstallation
  <2>3. "lookup" \in Phase
    BY DEF Phase
  <2>4. pc' \in [Procs -> Phase] /\ job' \in [Procs -> Job] /\ BootInv' /\ CredsKnown'
    BY <2>2, <2>3, <1>4 DEF TypeInv, CredsKnown, Starting
  <2> QED
    BY <1>5, <2>1, <2>4, <1>1 DEF ClaimInstallation, TypeInv, TypeOK, manager, world
<1>6. CASE GetRegistration(h)
  <2>1. UNCHANGED <<tables, manager, todo, world, faults>>
    BY <1>6 DEF GetRegistration
  <2>2. CASE job[h].creds # None
    <3>1. Goto(h, "save") /\ "save" \in Phase
      BY <1>6, <2>2 DEF GetRegistration, Phase
    <3>2. pc' \in [Procs -> Phase] /\ job' \in [Procs -> Job] /\ BootInv' /\ CredsKnown'
      BY <3>1, <2>2, <1>2, <1>4 DEF TypeInv, CredsKnown, Starting
    <3> QED
      BY <3>2, <2>1, <1>1 DEF TypeInv, TypeOK, tables, manager, world
  <2>3. CASE job[h].creds = None /\ rows[job[h].pair] # None
    <3>1. rows[job[h].pair].creds \in Creds
      BY <2>3, <1>1, <1>2 DEF TypeOK, Row
    <3>2. /\ job' = [job EXCEPT ![h].creds = rows[job[h].pair].creds]
          /\ pc' = [pc EXCEPT ![h] = "save"]
      BY <1>6, <2>3 DEF GetRegistration
    <3>3. /\ pc' \in [Procs -> Phase] /\ job' \in [Procs -> Job]
          /\ job'[h].creds \in Creds /\ pc'[h] = "save"
          /\ \A q \in Procs \ {h} : pc'[q] = pc[q] /\ job'[q] = job[q]
      BY <3>1, <3>2, <1>1 DEF TypeOK, Job, Phase
    <3>4. BootInv' /\ CredsKnown'
      BY <3>3, <1>1, <1>3 DEF TypeInv, BootInv, CredsKnown, Serving, Procs
    <3> QED
      BY <3>3, <3>4, <2>1, <1>1 DEF TypeInv, TypeOK, tables, manager, world
  <2>4. CASE job[h].creds = None /\ rows[job[h].pair] = None
    <3>1. Done(h) /\ "idle" \in Phase
      BY <1>6, <2>4 DEF GetRegistration, Phase
    <3>2. pc' \in [Procs -> Phase] /\ job' \in [Procs -> Job] /\ BootInv' /\ CredsKnown'
      <4>1. pc'[h] = "idle"
        BY <3>1, <1>1, DoneType
      <4> QED
        BY <4>1, <3>1, <1>4 DEF TypeInv, CredsKnown, Starting
    <3> QED
      BY <3>2, <2>1, <1>1 DEF TypeInv, TypeOK, tables, manager, world
  <2> QED
    BY <2>2, <2>3, <2>4
<1>7. CASE SaveRegistration(h)
  <2>1. job[h].creds \in Creds
    BY <1>1, <1>7 DEF SaveRegistration, TypeInv, CredsKnown
  <2>2. rows' \in [Pairs -> Row \cup {None}]
    <3>1. [secret |-> job[h].secret, creds |-> job[h].creds,
           target |-> job[h].target, stale |-> FALSE] \in Row
      BY <2>1, <1>2 DEF Row
    <3> QED
      BY <3>1, <1>1, <1>2, <1>7 DEF SaveRegistration, TypeOK
  <2>3. Done(h) \/ Goto(h, "lock")
    BY <1>7 DEF SaveRegistration
  <2>4. "lock" \in Phase
    BY DEF Phase
  <2>5. pc' \in [Procs -> Phase] /\ job' \in [Procs -> Job] /\ BootInv' /\ CredsKnown'
    BY <2>1, <2>3, <2>4, <1>4 DEF TypeInv, CredsKnown, Starting
  <2> QED
    BY <1>7, <2>2, <2>5, <1>1 DEF SaveRegistration, TypeInv, TypeOK, manager, world
<1>8. CASE VerifyInstallation(h)
  <2>1. (Done(h) \/ Goto(h, "unlisten")) /\ "unlisten" \in Phase
    BY <1>8 DEF VerifyInstallation, Phase
  <2>2. pc' \in [Procs -> Phase] /\ job' \in [Procs -> Job] /\ BootInv' /\ CredsKnown'
    BY <2>1, <1>4 DEF TypeInv, CredsKnown, Starting
  <2> QED
    BY <1>8, <2>2, <1>1 DEF VerifyInstallation, TypeInv, TypeOK, tables, manager, world
<1>9. CASE Unlisten(h)
  <2>1. Goto(h, "delete") /\ "delete" \in Phase
    BY <1>9 DEF Unlisten, Phase
  <2>2. pc' \in [Procs -> Phase] /\ job' \in [Procs -> Job] /\ BootInv' /\ CredsKnown'
    BY <2>1, <1>4 DEF TypeInv, CredsKnown, Starting
  <2>3. listeners' \in [Pairs -> Listener \cup {None}] /\ failed' \subseteq Pairs /\ UNCHANGED lock
    BY <1>9, <1>1 DEF Unlisten, StopListener, TypeOK
  <2> QED
    BY <1>9, <2>2, <2>3, <1>1 DEF Unlisten, TypeInv, TypeOK, tables, world
<1>10. CASE DeleteRegistration(h)
  <2>1. Done(h) /\ "idle" \in Phase
    BY <1>10 DEF DeleteRegistration, Phase
  <2>2. pc' \in [Procs -> Phase] /\ job' \in [Procs -> Job] /\ BootInv' /\ CredsKnown'
    <3>1. pc'[h] = "idle"
      BY <2>1, <1>1, DoneType
    <3> QED
      BY <3>1, <2>1, <1>4 DEF TypeInv, CredsKnown, Starting
  <2>3. rows' \in [Pairs -> Row \cup {None}] /\ sessions' \in [Pairs -> Nat]
    BY <1>10, <1>1, DeleteType, DeleteSomeType DEF DeleteRegistration
  <2>4. faults' \in 0..MaxFaults
    BY <1>10, <1>1, FaultType DEF DeleteRegistration, TypeOK
  <2> QED
    BY <1>10, <2>2, <2>3, <2>4, <1>1 DEF DeleteRegistration, TypeInv, TypeOK, manager, world
<1>11. CASE StartStep(h)
  BY <1>1, <1>11, StartStepType
<1> QED
  BY <1>5, <1>6, <1>7, <1>8, <1>9, <1>10, <1>11 DEF HandlerStep

(* Restoring and pruning keep the types.                                         *)
LEMMA MainStepType ==
  ASSUME TypeInv, MainStep
  PROVE  TypeInv'
<1>1. TypeOK /\ Main \in Procs
  BY DEF TypeInv, Procs
<1>2. ASSUME NEW phase \in Phase \ ({"save"} \cup Starting), Goto(Main, phase),
             phase = "lock" => job[Main].creds \in Creds
      PROVE  /\ pc' \in [Procs -> Phase] /\ job' \in [Procs -> Job] /\ CredsKnown'
             /\ pc'[Main] = phase /\ \A h \in Handlers : pc'[h] = pc[h]
  <2>1. /\ pc' \in [Procs -> Phase] /\ job' = job /\ pc'[Main] = phase
        /\ \A q \in Procs \ {Main} : pc'[q] = pc[q]
    BY <1>1, <1>2, GotoType
  <2> QED
    BY <2>1, <1>1, <1>2, NoneAssumption DEF TypeOK, TypeInv, CredsKnown, Procs
<1>3. CASE RestoreNext
  <2> PICK p \in todo :
        /\ todo' = todo \ {p}
        /\ job' = [job EXCEPT ![Main] =
             [pair |-> p, secret |-> rows[p].secret, creds |-> rows[p].creds,
              target |-> rows[p].target, token |-> 0]]
    BY <1>3 DEF RestoreNext
  <2>1. p \in Pairs /\ pc[Main] = "boot" /\ ~Serving
    BY <1>1, <1>3 DEF TypeOK, RestoreNext, Serving
  <2>2. rows[p] \in Row
    BY <2>1, <1>1 DEF TypeOK, TypeInv, BootInv
  <2>3. [pair |-> p, secret |-> rows[p].secret, creds |-> rows[p].creds,
         target |-> rows[p].target, token |-> 0] \in Job /\ rows[p].creds \in Creds
    BY <2>1, <2>2 DEF Row, Job
  <2>4. pc' = [pc EXCEPT ![Main] = "lock"] /\ UNCHANGED <<tables, manager, world, faults>>
    BY <1>3 DEF RestoreNext
  <2>5. pc' \in [Procs -> Phase] /\ job' \in [Procs -> Job] /\ CredsKnown'
    BY <2>3, <2>4, <1>1 DEF TypeOK, TypeInv, CredsKnown, Phase
  <2>6. BootInv'
    BY <2>1, <2>4, <1>1, NoneAssumption DEF TypeOK, TypeInv, BootInv, Procs, tables
  <2> QED
    BY <2>4, <2>5, <2>6, <1>1 DEF TypeInv, TypeOK, tables, manager, world
<1>4. CASE Restored
  <2>1. Goto(Main, "sleep") /\ "sleep" \in Phase \ ({"save"} \cup Starting)
    BY <1>4 DEF Restored, Phase, Starting
  <2>2. /\ pc' \in [Procs -> Phase] /\ job' \in [Procs -> Job] /\ CredsKnown'
        /\ pc'[Main] = "sleep"
    BY <1>2, <2>1
  <2> QED
    BY <1>4, <2>2, <1>1
    DEF Restored, Serving, BootInv, TypeInv, TypeOK, tables, manager, world
<1>5. CASE PruneStale
  <2>1. rows' \in [Pairs -> Row \cup {None}] /\ sessions' \in [Pairs -> Nat]
    BY <1>5, <1>1, DeleteType, DeleteSomeType DEF PruneStale
  <2>2. todo' \subseteq Pairs
    BY <1>5, <1>1 DEF PruneStale, Stale, TypeOK
  <2>3. faults' \in 0..MaxFaults
    BY <1>5, <1>1, FaultType DEF PruneStale, TypeOK
  <2>4. /\ pc' \in [Procs -> Phase] /\ job' \in [Procs -> Job] /\ CredsKnown'
        /\ pc'[Main] \in {"sleep", "stop"}
    <3>1. "stop" \in Phase \ ({"save"} \cup Starting)
      BY DEF Phase, Starting
    <3>2. CASE Goto(Main, "stop")
      BY <3>1, <3>2, <1>2
    <3>3. CASE UNCHANGED tasks
      BY <3>3, <1>1, <1>5 DEF tasks, PruneStale, TypeInv, TypeOK, CredsKnown
    <3> QED
      BY <1>5, <3>2, <3>3 DEF PruneStale, tasks
  <2> QED
    BY <1>5, <2>1, <2>2, <2>3, <2>4, <1>1
    DEF PruneStale, Serving, BootInv, TypeInv, TypeOK, manager, world
<1>6. CASE StopPruned
  <2> PICK p \in todo :
        /\ StopListener(p)
        /\ todo' = todo \ {p}
        /\ pruned' = pruned \cup {p}
        /\ Goto(Main, IF todo = {p} THEN "sleep" ELSE "stop")
    BY <1>6 DEF StopPruned
  <2>1. p \in Pairs
    BY <1>1 DEF TypeOK
  <2>2. listeners' \in [Pairs -> Listener \cup {None}] /\ UNCHANGED lock
        /\ failed' \subseteq Pairs /\ pruned' \subseteq Pairs /\ todo' \subseteq Pairs
    BY <2>1, <1>1 DEF StopListener, TypeOK
  <2>3. \A phase \in {"sleep", "stop"} : phase \in Phase \ ({"save"} \cup Starting)
    BY DEF Phase, Starting
  <2>4. /\ pc' \in [Procs -> Phase] /\ job' \in [Procs -> Job] /\ CredsKnown'
        /\ pc'[Main] \in {"sleep", "stop"}
    BY <2>3, <1>2
  <2> QED
    BY <1>6, <2>2, <2>4, <1>1
    DEF StopPruned, Serving, BootInv, TypeInv, TypeOK, tables, world
<1>7. CASE StartStep(Main)
  BY <1>1, <1>7, StartStepType
<1> QED
  BY <1>3, <1>4, <1>5, <1>6, <1>7 DEF MainStep

(* Faults keep the types.                                                        *)
LEMMA FailingType ==
  ASSUME TypeInv, Failing
  PROVE  TypeInv'
<1>1. TypeOK
  BY DEF TypeInv
<1>2. ASSUME NEW h \in Handlers, pc[h] # "idle", Done(h), UNCHANGED <<rows, todo>>
      PROVE  pc' \in [Procs -> Phase] /\ job' \in [Procs -> Job] /\ BootInv' /\ CredsKnown'
  <2>1. h \in Procs /\ h # Main /\ Serving
    BY <1>2, NoneAssumption DEF TypeInv, BootInv, Procs
  <2>2. /\ pc' \in [Procs -> Phase] /\ job' \in [Procs -> Job] /\ pc'[h] = "idle"
        /\ \A q \in Procs \ {h} : pc'[q] = pc[q] /\ job'[q] = job[q]
    BY <1>1, <1>2, <2>1, DoneType
  <2> QED
    BY <2>1, <2>2 DEF TypeInv, BootInv, CredsKnown, Serving, Starting, Procs
<1>3. ASSUME NEW h \in Handlers, DatabaseFails(h) PROVE TypeInv'
  <2>1. pc[h] # "idle" /\ Done(h) /\ UNCHANGED <<tables, manager, todo, world>>
    BY <1>3 DEF DatabaseFails
  <2>2. faults' \in 0..MaxFaults
    BY <1>1, <1>3, FaultType DEF DatabaseFails
  <2>3. pc' \in [Procs -> Phase] /\ job' \in [Procs -> Job] /\ BootInv' /\ CredsKnown'
    BY <1>2, <2>1 DEF tables
  <2> QED
    BY <2>1, <2>2, <2>3, <1>1 DEF TypeInv, TypeOK, tables, manager, world
<1>4. ASSUME NEW h \in Handlers, DropHandler(h) PROVE TypeInv'
  <2>1. /\ pc[h] # "idle" /\ Done(h)
        /\ UNCHANGED <<tables, listeners, failed, pruned, todo, world>>
        /\ lock' \in {None, lock}
    BY <1>4 DEF DropHandler
  <2>2. faults' \in 0..MaxFaults
    BY <1>1, <1>4, FaultType DEF DropHandler
  <2>3. pc' \in [Procs -> Phase] /\ job' \in [Procs -> Job] /\ BootInv' /\ CredsKnown'
    BY <1>2, <2>1 DEF tables
  <2> QED
    BY <2>1, <2>2, <2>3, <1>1 DEF TypeInv, TypeOK, tables, world
<1>5. CASE Crash
  <2>1. rows' \in [Pairs -> Row \cup {None}] /\ sessions' \in [Pairs -> Nat]
    BY <1>1, <1>5, DeleteSomeType DEF Crash
  <2>2. faults' \in 0..MaxFaults
    BY <1>1, <1>5, FaultType DEF Crash
  <2>3. pc' \in [Procs -> Phase] /\ job' \in [Procs -> Job]
    BY <1>5, NoJobType DEF Crash, Phase
  <2>4. /\ \A q \in Procs : pc'[q] \in {"boot", "idle"}
        /\ \A h \in Handlers : pc'[h] = "idle"
    BY <1>5, NoneAssumption DEF Crash, Procs
  <2>5. todo' \subseteq Pairs /\ BootInv' /\ CredsKnown'
    BY <1>5, <2>4 DEF Crash, BootInv, CredsKnown, Starting
  <2>6. listeners' \in [Pairs -> Listener \cup {None}]
    BY <1>5 DEF Crash
  <2> QED
    BY <1>5, <2>1, <2>2, <2>3, <2>5, <2>6, <1>1 DEF Crash, TypeInv, TypeOK, world
<1>6. ASSUME NEW p \in Pairs, RowAges(p) PROVE TypeInv'
  <2>1. rows' \in [Pairs -> Row \cup {None}]
    <3>1. rows[p] \in Row
      BY <1>1, <1>6 DEF RowAges, TypeOK
    <3>2. [rows[p] EXCEPT !.stale = TRUE] \in Row
      BY <3>1 DEF Row
    <3> QED
      BY <3>2, <1>1, <1>6 DEF RowAges, TypeOK
  <2>2. faults' \in 0..MaxFaults
    BY <1>1, <1>6, FaultType DEF RowAges
  <2>3. UNCHANGED <<owner, sessions, manager, tasks, todo, world>> /\ pc[Main] = "sleep"
    BY <1>6 DEF RowAges, AtRest
  <2> QED
    BY <2>1, <2>2, <2>3, <1>1
    DEF TypeInv, TypeOK, BootInv, CredsKnown, Serving, manager, tasks, world
<1> QED
  BY <1>3, <1>4, <1>5, <1>6 DEF Failing

(* TypeInv is an invariant.                                                       *)
LEMMA TypeInvInductive ==
  /\ Init => TypeInv
  /\ TypeInv /\ [Next]_vars => TypeInv'
<1>1. Init => TypeInv
  <2> SUFFICES ASSUME Init PROVE TypeInv
    OBVIOUS
  <2>1. TypeOK
    BY NoJobType, BoundAssumption DEF Init, TypeOK, Phase
  <2>2. BootInv /\ CredsKnown
    BY NoneAssumption DEF Init, BootInv, CredsKnown, Starting, Procs
  <2> QED
    BY <2>1, <2>2 DEF TypeInv
<1>2. TypeInv /\ [Next]_vars => TypeInv'
  <2> SUFFICES ASSUME TypeInv, [Next]_vars PROVE TypeInv'
    OBVIOUS
  <2>1. CASE UNCHANGED vars
    BY <2>1 DEF vars, tables, manager, tasks, world, TypeInv, TypeOK, BootInv, CredsKnown, Serving
  <2>2. CASE Next
    BY <2>2, RequestingType, HandlerStepType, MainStepType, FailingType DEF Next
  <2> QED
    BY <2>1, <2>2
<1> QED
  BY <1>1, <1>2

(* Every reachable state has the declared types, whatever the sets of installs,  *)
(* applications, secrets and handlers are: in particular the configuration a row  *)
(* or a listener gets always has credentials, although requests may omit them.   *)
THEOREM TypeCorrect == Spec => []TypeOK
<1>1. TypeInv => TypeOK
  BY DEF TypeInv
<1> QED
  BY <1>1, TypeInvInductive, PTL DEF Spec

-------------------------------------------------------------------------------
(* A handler that has passed the claim works for the owner of the install.       *)
ClaimHeld ==
  \A h \in Handlers : pc[h] \in {"lookup", "save"} => owner[job[h].pair[1]] = job[h].secret

OwnedInv == ClaimHeld /\ RowsOwned

(* Steps that leave the owners alone, add no row and take no handler past the    *)
(* claim keep OwnedInv.                                                          *)
LEMMA QuietKeepsOwned ==
  ASSUME OwnedInv, UNCHANGED owner,
         \A p \in Pairs : rows'[p] # None => rows[p] # None /\ rows'[p].secret = rows[p].secret,
         \A h \in Handlers : pc'[h] \in {"lookup", "save"} =>
            pc[h] \in {"lookup", "save"} /\ job'[h].pair = job[h].pair
              /\ job'[h].secret = job[h].secret
  PROVE  OwnedInv'
BY DEF OwnedInv, ClaimHeld, RowsOwned

(* The owner of an install never changes, and every registration is its own.     *)
LEMMA HandlerStepOwned ==
  ASSUME TypeInv, OwnedInv, NEW h \in Handlers, HandlerStep(h)
  PROVE  OwnedInv'
<1>1. TypeOK /\ h \in Procs /\ h # Main
  BY NoneAssumption DEF TypeInv, Procs
<1>2. job[h] \in Job
  BY <1>1 DEF TypeOK
<1>3. job[h].pair \in Pairs /\ job[h].pair[1] \in Installs /\ job[h].secret \in Secrets
  BY <1>2 DEF Job, Pairs
<1>4. ASSUME Done(h)
      PROVE  pc'[h] = "idle" /\ \A q \in Procs \ {h} : pc'[q] = pc[q] /\ job'[q] = job[q]
  BY <1>1, <1>4, DoneType
<1>5. ASSUME NEW phase \in Phase, Goto(h, phase)
      PROVE  pc'[h] = phase /\ job' = job /\ \A q \in Procs \ {h} : pc'[q] = pc[q]
  BY <1>1, <1>5, GotoType
<1>6. CASE ClaimInstallation(h)
  <2>1. CASE MayClaim(job[h].pair[1], job[h].secret)
    <3>1. owner' = [owner EXCEPT ![job[h].pair[1]] = job[h].secret] /\ Goto(h, "lookup")
          /\ UNCHANGED rows
      BY <1>6, <2>1 DEF ClaimInstallation
    <3>2. /\ owner'[job[h].pair[1]] = job[h].secret
          /\ \A i \in Installs : owner[i] # None => owner'[i] = owner[i]
      BY <3>1, <2>1, <1>1, <1>3 DEF MayClaim, TypeOK
    <3>3. "lookup" \in Phase
      BY DEF Phase
    <3>4. /\ job' = job /\ \A q \in Procs \ {h} : pc'[q] = pc[q]
      BY <3>1, <3>3, <1>5
    <3>5. ClaimHeld'
      <4> SUFFICES ASSUME NEW g \in Handlers, pc'[g] \in {"lookup", "save"}
                   PROVE  owner'[job'[g].pair[1]] = job'[g].secret
        BY DEF ClaimHeld
      <4>1. CASE g = h
        BY <4>1, <3>2, <3>4
      <4>2. CASE g # h
        <5>1. owner[job[g].pair[1]] = job[g].secret
          BY <4>2, <3>4 DEF OwnedInv, ClaimHeld, Procs
        <5>2. job[g] \in Job
          BY <1>1 DEF TypeOK, Procs
        <5>3. job[g].pair[1] \in Installs /\ job[g].secret # None
          BY <5>2, NoneAssumption DEF Job, Pairs
        <5> QED
          BY <5>1, <5>3, <3>2, <3>4
      <4> QED
        BY <4>1, <4>2
    <3>6. RowsOwned'
      <4> SUFFICES ASSUME NEW p \in Pairs, rows[p] # None
                   PROVE  rows[p].secret = owner'[p[1]]
        BY <3>1 DEF RowsOwned
      <4>1. rows[p] \in Row /\ p[1] \in Installs /\ rows[p].secret = owner[p[1]]
        BY <1>1 DEF TypeOK, Pairs, OwnedInv, RowsOwned
      <4>2. owner[p[1]] # None
        BY <4>1, NoneAssumption DEF Row
      <4> QED
        BY <4>1, <4>2, <3>2
    <3> QED
      BY <3>5, <3>6 DEF OwnedInv
  <2>2. CASE ~MayClaim(job[h].pair[1], job[h].secret)
    <3>1. Done(h) /\ UNCHANGED <<owner, rows>>
      BY <1>6, <2>2 DEF ClaimInstallation
    <3> QED
      BY <3>1, <1>4, QuietKeepsOwned DEF Procs
  <2> QED
    BY <2>1, <2>2
<1>7. CASE GetRegistration(h)
  <2>1. UNCHANGED <<owner, rows>> /\ pc[h] = "lookup"
    BY <1>7 DEF GetRegistration, tables
  <2>2. /\ \A q \in Procs \ {h} : pc'[q] = pc[q] /\ job'[q] = job[q]
        /\ \/ pc'[h] = "idle"
           \/ job'[h].pair = job[h].pair /\ job'[h].secret = job[h].secret
    <3>1. CASE Goto(h, "save")
      BY <3>1, <1>5 DEF Phase
    <3>2. CASE job' = [job EXCEPT ![h].creds = rows[job[h].pair].creds]
               /\ pc' = [pc EXCEPT ![h] = "save"]
      BY <3>2, <1>1, <1>2 DEF TypeOK, Job
    <3>3. CASE Done(h)
      BY <3>3, <1>4
    <3> QED
      BY <1>7, <3>1, <3>2, <3>3 DEF GetRegistration
  <2> QED
    BY <2>1, <2>2, QuietKeepsOwned DEF Procs
<1>8. CASE SaveRegistration(h)
  <2>1. UNCHANGED owner /\ pc[h] = "save" /\ (Done(h) \/ Goto(h, "lock"))
    BY <1>8 DEF SaveRegistration
  <2>2. "lock" \in Phase
    BY DEF Phase
  <2>3. pc'[h] \in {"idle", "lock"} /\ \A q \in Procs \ {h} : pc'[q] = pc[q] /\ job'[q] = job[q]
    BY <2>1, <2>2, <1>4, <1>5
  <2>4. ClaimHeld'
    BY <2>1, <2>3 DEF OwnedInv, ClaimHeld, Procs
  <2>5. owner[job[h].pair[1]] = job[h].secret
    BY <2>1 DEF OwnedInv, ClaimHeld
  <2>6. RowsOwned'
    <3>1. \/ UNCHANGED rows
          \/ rows' = [rows EXCEPT ![job[h].pair] =
               [secret |-> job[h].secret, creds |-> job[h].creds,
                target |-> job[h].target, stale |-> FALSE]]
      BY <1>8 DEF SaveRegistration
    <3> QED
      BY <3>1, <2>1, <2>5, <1>1, <1>3 DEF OwnedInv, RowsOwned, TypeOK
  <2> QED
    BY <2>4, <2>6 DEF OwnedInv
<1>9. CASE VerifyInstallation(h)
  <2>1. UNCHANGED <<owner, rows>> /\ (Done(h) \/ Goto(h, "unlisten")) /\ "unlisten" \in Phase
    BY <1>9 DEF VerifyInstallation, tables, Phase
  <2> QED
    BY <2>1, <1>4, <1>5, QuietKeepsOwned DEF Procs
<1>10. CASE Unlisten(h)
  <2>1. UNCHANGED <<owner, rows>> /\ Goto(h, "delete") /\ "delete" \in Phase
    BY <1>10 DEF Unlisten, tables, Phase
  <2> QED
    BY <2>1, <1>5, QuietKeepsOwned DEF Procs
<1>11. CASE DeleteRegistration(h)
  <2>1. UNCHANGED owner /\ Done(h) /\ \A p \in Pairs : rows'[p] \in {None, rows[p]}
    BY <1>1, <1>11, DeleteType, DeleteSomeType DEF DeleteRegistration
  <2> QED
    BY <2>1, <1>4, QuietKeepsOwned DEF Procs
<1>12. CASE StartStep(h)
  <2>1. Moves(h)
    BY <1>1, <1>12, StartStepMoves
  <2> QED
    BY <2>1, <1>1, QuietKeepsOwned DEF Moves, Procs, Starting
<1> QED
  BY <1>6, <1>7, <1>8, <1>9, <1>10, <1>11, <1>12 DEF HandlerStep

(* Steps of the others.                                                          *)
LEMMA OthersOwned ==
  ASSUME TypeInv, OwnedInv, Requesting \/ MainStep \/ Failing
  PROVE  OwnedInv'
<1>1. TypeOK /\ Main \in Procs /\ Main \notin Handlers
  BY NoneAssumption DEF TypeInv, Procs
<1>2. CASE Requesting
  <2>1. PICK h \in Handlers : /\ UNCHANGED <<owner, rows>>
                              /\ pc'[h] \in {"claim", "verify"}
                              /\ \A q \in Procs \ {h} : pc'[q] = pc[q] /\ job'[q] = job[q]
    BY <1>1, <1>2 DEF Requesting, ReceiveRegister, ReceiveUnregister, Heartbeat, Receive,
       tables, TypeOK, Procs
  <2> QED
    BY <2>1, QuietKeepsOwned DEF Procs
<1>3. CASE MainStep
  <2>1. CASE StartStep(Main)
    <3>1. Moves(Main)
      BY <1>1, <2>1, StartStepMoves
    <3> QED
      BY <3>1, <1>1, QuietKeepsOwned DEF Moves, Procs
  <2>2. CASE RestoreNext \/ Restored \/ PruneStale \/ StopPruned
    <3>1. UNCHANGED owner /\ \A p \in Pairs : rows'[p] \in {None, rows[p]}
      BY <1>1, <2>2, DeleteType, DeleteSomeType
      DEF RestoreNext, Restored, PruneStale, StopPruned, tables
    <3>2. \A h \in Handlers : pc'[h] = pc[h] /\ job'[h] = job[h]
      BY <1>1, <2>2 DEF RestoreNext, Restored, PruneStale, StopPruned, Goto, tasks, TypeOK, Procs
    <3> QED
      BY <3>1, <3>2, QuietKeepsOwned
  <2> QED
    BY <1>3, <2>1, <2>2 DEF MainStep
<1>4. CASE Failing
  <2>1. ASSUME NEW h \in Handlers, DatabaseFails(h) \/ DropHandler(h) PROVE OwnedInv'
    <3>1. UNCHANGED <<owner, rows>> /\ Done(h) /\ h \in Procs
      BY <2>1 DEF DatabaseFails, DropHandler, tables, Procs
    <3>2. pc'[h] \in {"boot", "idle"}
          /\ \A q \in Procs \ {h} : pc'[q] = pc[q] /\ job'[q] = job[q]
      BY <1>1, <3>1, DoneType
    <3> QED
      BY <3>1, <3>2, QuietKeepsOwned DEF Procs
  <2>2. CASE Crash
    <3>1. UNCHANGED owner /\ \A p \in Pairs : rows'[p] \in {None, rows[p]}
      BY <1>1, <2>2, DeleteSomeType DEF Crash
    <3>2. \A h \in Handlers : pc'[h] = "idle"
      BY <1>1, <2>2 DEF Crash, Procs
    <3> QED
      BY <3>1, <3>2, QuietKeepsOwned
  <2>3. ASSUME NEW p \in Pairs, RowAges(p) PROVE OwnedInv'
    <3>1. UNCHANGED <<owner, pc, job>> /\ rows' = [rows EXCEPT ![p].stale = TRUE]
          /\ rows[p] # None
      BY <2>3 DEF RowAges, tasks
    <3>2. rows[p] \in Row
      BY <3>1, <1>1 DEF TypeOK
    <3>3. \A q \in Pairs : rows'[q] # None =>
            rows[q] # None /\ rows'[q].secret = rows[q].secret
      BY <3>1, <3>2, <1>1 DEF Row, TypeOK
    <3> QED
      BY <3>1, <3>3, QuietKeepsOwned
  <2> QED
    BY <1>4, <2>1, <2>2, <2>3 DEF Failing
<1> QED
  BY <1>2, <1>3, <1>4

(* Every registration belongs to the secret that owns its install, in whatever   *)
(* order requests with different secrets claim it, save their rows and fail.     *)
THEOREM RegistrationsOwned == Spec => []RowsOwned
<1>1. Init => OwnedInv
  BY DEF Init, OwnedInv, ClaimHeld, RowsOwned, Procs
<1>2. TypeInv /\ OwnedInv /\ [Next]_vars => OwnedInv'
  <2> SUFFICES ASSUME TypeInv, OwnedInv, [Next]_vars PROVE OwnedInv'
    OBVIOUS
  <2>1. CASE UNCHANGED vars
    BY <2>1 DEF vars, tables, tasks, OwnedInv, ClaimHeld, RowsOwned
  <2>2. CASE Next
    BY <2>2, HandlerStepOwned, OthersOwned DEF Next
  <2> QED
    BY <2>1, <2>2
<1>3. OwnedInv => RowsOwned
  BY DEF OwnedInv
<1> QED
  BY <1>1, <1>2, <1>3, TypeInvInductive, PTL DEF Spec

-------------------------------------------------------------------------------
(* Who is between the awaits of start_listener holds the lock, and the pair it   *)
(* works on has no listener until it inserts one.                                *)
HoldersInv ==
  \A p \in Procs : pc[p] \in Starting => lock = p /\ listeners[job[p].pair] = None

(* It registers with FCM only if there is no session, and goes on with the token *)
(* of the session if there is one.                                               *)
OneTokenInv ==
  \A p \in Procs :
    /\ pc[p] = "fcm" => sessions[job[p].pair] = 0
    /\ pc[p] \in {"save_session", "insert"} => sessions[job[p].pair] \in {0, job[p].token}

TokenInv == HoldersInv /\ OneTokenInv /\ TokenAgrees

(* The step of TokenStable.                                                      *)
KeepsTokens == \A p \in Pairs : sessions[p] # 0 => sessions'[p] \in {0, sessions[p]}

(* Steps of tasks that are not starting a listener, and add none and no session. *)
LEMMA QuietKeepsTokens ==
  ASSUME TypeOK, TokenInv,
         \A p \in Pairs : sessions'[p] \in {0, sessions[p]} /\ listeners'[p] \in {None, listeners[p]},
         \A p \in Procs : pc'[p] \in Starting =>
            pc[p] = pc'[p] /\ job'[p] = job[p] /\ lock' = lock
  PROVE  TokenInv' /\ KeepsTokens
<1>1. \A p \in Procs : job[p].pair \in Pairs
  BY DEF TypeOK, Job
<1>2. HoldersInv'
  BY <1>1 DEF TokenInv, HoldersInv
<1>3. OneTokenInv'
  BY <1>1 DEF TokenInv, OneTokenInv, Starting
<1>4. TokenAgrees'
  BY DEF TokenInv, TokenAgrees
<1> QED
  BY <1>2, <1>3, <1>4 DEF TokenInv, KeepsTokens

(* start_listener, as long as no statement fails.                                *)
LEMMA StartStepTokens ==
  ASSUME TypeInv, TokenInv, "database" \notin FaultKinds, NEW p \in Procs, StartStep(p)
  PROVE  TokenInv' /\ KeepsTokens
<1> DEFINE pair == job[p].pair
<1>1. TypeOK /\ job[p] \in Job
  BY DEF TypeInv, TypeOK
<1>2. pair \in Pairs /\ job[p].token \in Nat /\ sessions[pair] \in Nat
  BY <1>1 DEF Job, TypeOK
<1>3. ~Fault("database")
  BY DEF Fault
<1>4. ASSUME lock = p \/ lock = None
      PROVE  \A q \in Procs \ {p} : pc[q] \notin Starting
  BY <1>4, NoneAssumption DEF TokenInv, HoldersInv, Procs
<1>5. ASSUME Done(p)
      PROVE  /\ pc'[p] \notin Starting
             /\ \A q \in Procs \ {p} : pc'[q] = pc[q] /\ job'[q] = job[q]
  BY <1>1, <1>5, DoneType DEF Starting
<1>6. CASE StartListener(p)
  <2>1. lock = None /\ UNCHANGED sessions
    BY <1>6 DEF StartListener, LockFree, tables
  <2>2. CASE Done(p)
    <3>1. \A q \in Pairs : listeners'[q] \in {None, listeners[q]}
      BY <1>1, <1>2, <1>6 DEF StartListener, TypeOK
    <3> QED
      BY <2>1, <2>2, <3>1, <1>1, <1>4, <1>5, QuietKeepsTokens
  <2>3. CASE lock' = p /\ Goto(p, "load") /\ ~Unchanged(p)
    <3>1. listeners' = [listeners EXCEPT ![pair] = None]
      BY <1>6, <2>3 DEF StartListener
    <3>2. /\ pc'[p] = "load" /\ job' = job
          /\ \A q \in Procs \ {p} : pc'[q] = pc[q]
      BY <2>3, <1>1, GotoType DEF Phase, Starting
    <3>3. HoldersInv'
      BY <2>1, <2>3, <3>1, <3>2, <1>1, <1>2, <1>4 DEF HoldersInv, TypeOK
    <3>4. OneTokenInv'
      BY <2>1, <3>2, <1>4 DEF OneTokenInv, Starting
    <3>5. TokenAgrees' /\ KeepsTokens
      BY <2>1, <3>1, <1>1 DEF TokenInv, TokenAgrees, KeepsTokens, TypeOK
    <3> QED
      BY <3>3, <3>4, <3>5 DEF TokenInv
  <2> QED
    BY <1>6, <2>2, <2>3 DEF StartListener
<1>7. CASE LoadSession(p)
  <2>1. UNCHANGED <<sessions, listeners, lock>> /\ pc[p] = "load"
    BY <1>7 DEF LoadSession, tables, manager
  <2>2. lock = p /\ listeners[pair] = None
    BY <2>1 DEF TokenInv, HoldersInv, Starting
  <2>3. /\ pc'[p] \in Starting /\ job'[p].pair = pair
        /\ \A q \in Procs \ {p} : pc'[q] = pc[q]
        /\ pc'[p] = "fcm" => sessions[pair] = 0
        /\ pc'[p] \in {"save_session", "insert"} => sessions[pair] = job'[p].token
    <3>1. CASE HasSession(pair)
      <4>1. /\ job' = [job EXCEPT ![p].token = sessions[pair]]
            /\ pc' = [pc EXCEPT ![p] = "save_session"]
        BY <1>3, <1>7, <3>1 DEF LoadSession
      <4> QED
        BY <4>1, <1>1 DEF TypeOK, Job, Starting
    <3>2. CASE ~HasSession(pair)
      <4>1. Goto(p, "fcm")
        BY <1>7, <3>2 DEF LoadSession
      <4>2. "fcm" \in Phase
        BY DEF Phase, Starting
      <4>3. pc'[p] = "fcm" /\ job' = job /\ \A q \in Procs \ {p} : pc'[q] = pc[q]
        BY <4>1, <4>2, <1>1, GotoType
      <4> QED
        BY <4>3, <3>2 DEF Starting, HasSession
    <3> QED
      BY <3>1, <3>2
  <2>4. HoldersInv' /\ OneTokenInv'
    BY <2>1, <2>2, <2>3, <1>4 DEF HoldersInv, OneTokenInv, Starting
  <2> QED
    BY <2>1, <2>4 DEF TokenInv, TokenAgrees, KeepsTokens
<1>8. CASE RegisterApp(p)
  <2>1. UNCHANGED <<sessions, listeners>> /\ pc[p] = "fcm"
    BY <1>8 DEF RegisterApp, tables
  <2>2. lock = p /\ listeners[pair] = None /\ sessions[pair] = 0
    BY <2>1 DEF TokenInv, HoldersInv, OneTokenInv, Starting
  <2>3. CASE Done(p)
    BY <2>1, <2>2, <2>3, <1>1, <1>4, <1>5, QuietKeepsTokens
  <2>4. ASSUME NEW n \in Nat, job' = [job EXCEPT ![p].token = n],
               pc' = [pc EXCEPT ![p] = "save_session"], UNCHANGED lock
        PROVE  TokenInv' /\ KeepsTokens
    <3>1. /\ pc'[p] = "save_session" /\ job'[p].pair = pair
          /\ \A q \in Procs \ {p} : pc'[q] = pc[q]
      BY <2>4, <1>1 DEF TypeOK, Job
    <3>2. HoldersInv' /\ OneTokenInv'
      BY <2>1, <2>2, <2>4, <3>1, <1>4 DEF HoldersInv, OneTokenInv, Starting
    <3> QED
      BY <2>1, <3>2 DEF TokenInv, TokenAgrees, KeepsTokens
  <2>5. \A n : n \in 1..(Cardinality(TokensInUse) + 1) => n \in Nat
    OBVIOUS
  <2> QED
    BY <1>8, <2>3, <2>4, <2>5 DEF RegisterApp
<1>9. CASE SaveSession(p)
  <2>1. /\ UNCHANGED <<listeners, lock>> /\ pc[p] = "save_session"
        /\ sessions' = [sessions EXCEPT ![pair] = job[p].token]
    BY <1>3, <1>9 DEF SaveSession, manager
  <2>2. lock = p /\ listeners[pair] = None /\ sessions[pair] \in {0, job[p].token}
    BY <2>1 DEF TokenInv, HoldersInv, OneTokenInv, Starting
  <2>3. pc'[p] = "insert" /\ job' = job /\ \A q \in Procs \ {p} : pc'[q] = pc[q]
    BY <1>1, <1>9, GotoType DEF SaveSession, Phase, Starting
  <2>4. HoldersInv' /\ OneTokenInv'
    BY <2>1, <2>2, <2>3, <1>1, <1>2, <1>4 DEF HoldersInv, OneTokenInv, Starting, TypeOK
  <2>5. TokenAgrees' /\ KeepsTokens
    BY <2>1, <2>2, <1>1, <1>2 DEF TokenInv, TokenAgrees, KeepsTokens, TypeOK
  <2> QED
    BY <2>4, <2>5 DEF TokenInv
<1>10. CASE InsertListener(p)
  <2>1. /\ UNCHANGED sessions /\ pc[p] = "insert" /\ Done(p)
        /\ listeners' = [listeners EXCEPT ![pair] =
             [creds |-> job[p].creds, target |-> job[p].target, token |-> job[p].token]]
    BY <1>10 DEF InsertListener, tables
  <2>2. lock = p /\ sessions[pair] \in {0, job[p].token}
    BY <2>1 DEF TokenInv, HoldersInv, OneTokenInv, Starting
  <2>3. \A q \in Procs : pc'[q] \notin Starting
    BY <2>1, <2>2, <1>4, <1>5
  <2>4. HoldersInv' /\ OneTokenInv'
    BY <2>3 DEF HoldersInv, OneTokenInv, Starting
  <2>5. TokenAgrees' /\ KeepsTokens
    BY <2>1, <2>2, <1>1, <1>2 DEF TokenInv, TokenAgrees, KeepsTokens, TypeOK
  <2> QED
    BY <2>4, <2>5 DEF TokenInv
<1> QED
  BY <1>6, <1>7, <1>8, <1>9, <1>10 DEF StartStep

(* The other steps of a handler.                                                 *)
LEMMA HandlerStepTokens ==
  ASSUME TypeInv, TokenInv, "database" \notin FaultKinds, NEW h \in Handlers, HandlerStep(h)
  PROVE  TokenInv' /\ KeepsTokens
<1>1. TypeOK /\ h \in Procs
  BY DEF TypeInv, Procs
<1>2. CASE StartStep(h)
  BY <1>1, <1>2, StartStepTokens
<1>3. CASE ~StartStep(h)
  <2>1. UNCHANGED lock /\ \A p \in Pairs : listeners'[p] \in {None, listeners[p]}
    BY <1>1, <1>3 DEF HandlerStep, ClaimInstallation, GetRegistration, SaveRegistration,
       VerifyInstallation, Unlisten, StopListener, DeleteRegistration, manager, TypeOK
  <2>2. \A p \in Pairs : sessions'[p] \in {0, sessions[p]}
    BY <1>1, <1>3, DeleteType, DeleteSomeType DEF HandlerStep, ClaimInstallation,
       GetRegistration, SaveRegistration, VerifyInstallation, Unlisten, DeleteRegistration, tables
  <2>3. /\ pc'[h] \notin Starting
        /\ \A q \in Procs \ {h} : pc'[q] = pc[q] /\ job'[q] = job[q]
    <3>1. CASE Done(h)
      BY <1>1, <3>1, DoneType DEF Starting
    <3>2. ASSUME NEW phase \in {"lookup", "save", "lock", "unlisten", "delete"}, Goto(h, phase)
          PROVE  /\ pc'[h] \notin Starting
                 /\ \A q \in Procs \ {h} : pc'[q] = pc[q] /\ job'[q] = job[q]
      <4>1. phase \in Phase
        BY DEF Phase
      <4> QED
        BY <1>1, <3>2, <4>1, GotoType DEF Starting
    <3>3. CASE job' = [job EXCEPT ![h].creds = rows[job[h].pair].creds]
               /\ pc' = [pc EXCEPT ![h] = "save"]
      BY <1>1, <3>3 DEF TypeOK, Starting
    <3> QED
      BY <1>3, <3>1, <3>2, <3>3 DEF HandlerStep, ClaimInstallation, GetRegistration,
         SaveRegistration, VerifyInstallation, Unlisten, DeleteRegistration
  <2> QED
    BY <2>1, <2>2, <2>3, <1>1, QuietKeepsTokens
<1> QED
  BY <1>2, <1>3

(* Steps of the others.                                                          *)
LEMMA OthersTokens ==
  ASSUME TypeInv, TokenInv, "database" \notin FaultKinds, Requesting \/ MainStep \/ Failing
  PROVE  TokenInv' /\ KeepsTokens
<1>1. TypeOK /\ Main \in Procs
  BY DEF TypeInv, Procs
<1>2. CASE Requesting
  <2>1. PICK h \in Handlers : /\ UNCHANGED <<sessions, listeners, lock>>
                              /\ pc'[h] \in {"claim", "verify"}
                              /\ \A q \in Procs \ {h} : pc'[q] = pc[q] /\ job'[q] = job[q]
    BY <1>1, <1>2 DEF Requesting, ReceiveRegister, ReceiveUnregister, Heartbeat, Receive,
       tables, manager, TypeOK, Procs
  <2> QED
    BY <2>1, <1>1, QuietKeepsTokens DEF Starting
<1>3. CASE MainStep
  <2>1. CASE StartStep(Main)
    BY <1>1, <2>1, StartStepTokens
  <2>2. CASE RestoreNext \/ Restored \/ PruneStale \/ StopPruned
    <3>1. UNCHANGED lock /\ \A p \in Pairs : listeners'[p] \in {None, listeners[p]}
      BY <1>1, <2>2 DEF RestoreNext, Restored, PruneStale, StopPruned, StopListener, manager, TypeOK
    <3>2. \A p \in Pairs : sessions'[p] \in {0, sessions[p]}
      BY <1>1, <2>2, DeleteType, DeleteSomeType
      DEF RestoreNext, Restored, PruneStale, StopPruned, tables
    <3>3. /\ \A q \in Procs \ {Main} : pc'[q] = pc[q] /\ job'[q] = job[q]
          /\ pc'[Main] \notin Starting
      BY <1>1, <2>2
      DEF RestoreNext, Restored, PruneStale, StopPruned, Goto, tasks, TypeOK, Starting
    <3> QED
      BY <3>1, <3>2, <3>3, <1>1, QuietKeepsTokens
  <2> QED
    BY <1>3, <2>1, <2>2 DEF MainStep
<1>4. CASE Failing
  <2>1. ASSUME NEW h \in Handlers, DropHandler(h) PROVE TokenInv' /\ KeepsTokens
    <3>1. /\ UNCHANGED <<sessions, listeners>> /\ Done(h) /\ h \in Procs
          /\ lock' = IF lock = h THEN None ELSE lock
      BY <2>1 DEF DropHandler, Holder, tables, Procs
    <3>2. /\ pc'[h] \notin Starting
          /\ \A q \in Procs \ {h} : pc'[q] = pc[q] /\ job'[q] = job[q]
      BY <1>1, <3>1, DoneType DEF Starting
    <3>3. \A q \in Procs : pc'[q] \in Starting => lock' = lock
      BY <3>1, <3>2 DEF TokenInv, HoldersInv
    <3> QED
      BY <3>1, <3>2, <3>3, <1>1, QuietKeepsTokens
  <2>2. CASE Crash
    <3>1. \A p \in Pairs : sessions'[p] \in {0, sessions[p]} /\ listeners'[p] = None
      BY <1>1, <2>2, DeleteSomeType DEF Crash
    <3>2. \A q \in Procs : pc'[q] \notin Starting
      BY <2>2 DEF Crash, Starting
    <3> QED
      BY <3>1, <3>2, <1>1, QuietKeepsTokens
  <2>3. ASSUME NEW p \in Pairs, RowAges(p) PROVE TokenInv' /\ KeepsTokens
    BY <2>3, <1>1, QuietKeepsTokens DEF RowAges, manager, tasks
  <2>4. \A h \in Handlers : ~DatabaseFails(h)
    BY DEF DatabaseFails, Fault
  <2> QED
    BY <1>4, <2>1, <2>2, <2>3, <2>4 DEF Failing
<1> QED
  BY <1>2, <1>3, <1>4

(* TokenInv is an invariant as long as no statement fails, and no step changes   *)
(* the token of a session that stays.                                            *)
LEMMA TokenInvInductive ==
  ASSUME "database" \notin FaultKinds
  PROVE  /\ Init => TokenInv
         /\ TypeInv /\ TokenInv /\ [Next]_vars => TokenInv' /\ (KeepsTokens \/ UNCHANGED vars)
<1>1. Init => TokenInv
  BY DEF Init, TokenInv, HoldersInv, OneTokenInv, TokenAgrees, Starting, Procs
<1>2. ASSUME TypeInv, TokenInv, [Next]_vars PROVE TokenInv' /\ (KeepsTokens \/ UNCHANGED vars)
  <2>1. CASE UNCHANGED vars
    BY <1>2, <2>1
    DEF vars, tables, manager, tasks, TokenInv, HoldersInv, OneTokenInv, TokenAgrees
  <2>2. CASE Next
    BY <1>2, <2>2, HandlerStepTokens, OthersTokens DEF Next
  <2> QED
    BY <1>2, <2>1, <2>2
<1> QED
  BY <1>1, <1>2

(* As long as no statement of the database fails, a saved FCM token is replaced  *)
(* only after its session was deleted, however starts of the listener overlap,   *)
(* are cut off or fail.                                                          *)
THEOREM TokensStable ==
  ASSUME "database" \notin FaultKinds
  PROVE  Spec => TokenStable
<1>1. TypeInv /\ TokenInv /\ [Next]_vars =>
        [\A p \in Pairs : sessions[p] # 0 => sessions'[p] \in {0, sessions[p]}]_vars
  BY TokenInvInductive DEF KeepsTokens
<1>2. Init => TokenInv
  BY TokenInvInductive
<1>3. TypeInv /\ TokenInv /\ [Next]_vars => TokenInv'
  BY TokenInvInductive
<1> QED
  BY <1>1, <1>2, <1>3, TypeInvInductive, PTL DEF Spec, TokenStable

(* Nor does a listener ever run with another token than the one that is saved.   *)
THEOREM TokensAgree ==
  ASSUME "database" \notin FaultKinds
  PROVE  Spec => []TokenAgrees
<1>1. Init => TokenInv
  BY TokenInvInductive
<1>2. TypeInv /\ TokenInv /\ [Next]_vars => TokenInv'
  BY TokenInvInductive
<1>3. TokenInv => TokenAgrees
  BY DEF TokenInv
<1> QED
  BY <1>1, <1>2, <1>3, TypeInvInductive, PTL DEF Spec
-------------------------------------------------------------------------------
(* Requests that do not overlap, of clients that wait for the answer, and no      *)
(* statement that fails.  What is still to be done for a pair: a task waits for   *)
(* the lock to start its listener, main() has not come to it, a handler has       *)
(* stopped its listener and not deleted it yet, or the prune task has deleted it  *)
(* and not stopped its listener yet.                                              *)
OneHandler == \A g, h \in Handlers : g = h

StartDue(p) == \E q \in Procs : pc[q] = "lock" /\ job[q].pair = p
RestoreDue(p) == ~Serving /\ p \in todo
DeleteDue(p) == \E h \in Handlers : pc[h] = "delete" /\ job[h].pair = p
StopDue(p) == pc[Main] = "stop" /\ p \in todo

(* With nothing of the kind left, whoever is registered is listened for, with the *)
(* registered configuration, and nobody else is.                                  *)
Heard(row, running, excused) == row # None /\ ~excused => running # None

SameConfig(row, config) == row.creds = config.creds /\ row.target = config.target

Matched(row, running) == running # None => row # None /\ SameConfig(row, running)

PairsInv ==
  \A p \in Pairs :
    /\ \/ StartDue(p) \/ RestoreDue(p) \/ DeleteDue(p)
       \/ Heard(rows[p], listeners[p], p \in failed \cup pruned)
    /\ StartDue(p) \/ StopDue(p) \/ Matched(rows[p], listeners[p])

(* Whoever starts a listener has the configuration of the row, which a handler    *)
(* has just written; meanwhile the pair counts as failed.                         *)
StartersInv ==
  \A q \in Procs :
    /\ pc[q] \in {"lock"} \cup Starting =>
         /\ rows[job[q].pair] # None /\ SameConfig(rows[job[q].pair], job[q])
         /\ q # Main => ~rows[job[q].pair].stale
    /\ pc[q] \in Starting => job[q].pair \in failed

(* Whoever deletes a registration has stopped its listener.                       *)
DeletersInv == \A h \in Handlers : pc[h] = "delete" => listeners[job[h].pair] = None

AloneInv == PairsInv /\ StartersInv /\ DeletersInv /\ (pc[Main] = "sleep" => todo = {})

(* A step that touches no listener and no row, and that begins and ends nothing   *)
(* of what the invariant speaks of.                                               *)
LEMMA QuietAlone ==
  ASSUME AloneInv, UNCHANGED <<rows, listeners, failed, pruned, todo>>, pc'[Main] = pc[Main],
         \A q \in Procs :
           \/ pc'[q] = pc[q] /\ job'[q] = job[q]
           \/ pc[q] \notin {"lock", "delete"} \cup Starting
                /\ pc'[q] \notin {"lock", "delete"} \cup Starting
  PROVE  AloneInv'
<1>1. \A p : (StartDue(p) => StartDue(p)') /\ (DeleteDue(p) => DeleteDue(p)')
             /\ (RestoreDue(p) => RestoreDue(p)') /\ (StopDue(p) => StopDue(p)')
  BY DEF StartDue, DeleteDue, RestoreDue, StopDue, Serving, Procs
<1>2. PairsInv'
  <2> SUFFICES ASSUME NEW p \in Pairs
               PROVE  /\ \/ StartDue(p)' \/ RestoreDue(p)' \/ DeleteDue(p)'
                         \/ Heard(rows[p], listeners[p], p \in failed \cup pruned)
                      /\ StartDue(p)' \/ StopDue(p)' \/ Matched(rows[p], listeners[p])
    BY DEF PairsInv, Heard, Matched, SameConfig
  <2> QED
    BY <1>1 DEF AloneInv, PairsInv
<1>3. StartersInv'
  BY DEF AloneInv, StartersInv, SameConfig
<1>4. DeletersInv'
  BY DEF AloneInv, DeletersInv, Procs
<1> QED
  BY <1>2, <1>3, <1>4 DEF AloneInv

(* What a step of a handler has to leave behind at the pair it works on, if it    *)
(* leaves the other pairs and main() alone.                                       *)
KeepsPair(h, r) ==
  /\ pc'[Main] = pc[Main] /\ todo' = todo
  /\ \A p \in Pairs \ {r} :
       /\ rows'[p] = rows[p] /\ listeners'[p] = listeners[p]
       /\ p \in failed' \cup pruned' <=> p \in failed \cup pruned
  /\ pc'[h] # "idle" => job'[h].pair = r
  /\ pc'[h] \in {"lock", "delete"}
       \/ Heard(rows'[r], listeners'[r], r \in failed' \cup pruned')
  /\ pc'[h] = "lock" \/ StopDue(r) \/ Matched(rows'[r], listeners'[r])
  /\ pc'[h] \in {"lock"} \cup Starting =>
       rows'[r] # None /\ SameConfig(rows'[r], job'[h]) /\ ~rows'[r].stale
  /\ pc'[h] \in Starting => r \in failed'
  /\ pc'[h] = "delete" => listeners'[r] = None

(* The only handler there is.                                                     *)
LEMMA HandlerKeepsAlone ==
  ASSUME OneHandler, TypeInv, AloneInv, NEW h \in Handlers, pc[h] # "idle",
         NEW r \in Pairs, r = job[h].pair, KeepsPair(h, r)
  PROVE  AloneInv'
<1>1. /\ \A q \in Procs : q = h \/ q = Main
      /\ h \in Procs /\ Main \in Procs /\ h # Main /\ \A g \in Handlers : g = h
  BY NoneAssumption DEF OneHandler, Procs
<1>2. Serving /\ pc[Main] \in {"sleep", "stop"} /\ pc'[Main] = pc[Main] /\ todo' = todo
  BY DEF TypeInv, BootInv, Serving, KeepsPair
<1>3. StartersInv'
  <2> SUFFICES ASSUME NEW q \in Procs, pc'[q] \in {"lock"} \cup Starting
               PROVE  /\ rows'[job'[q].pair] # None /\ SameConfig(rows'[job'[q].pair], job'[q])
                      /\ q # Main => ~rows'[job'[q].pair].stale
                      /\ pc'[q] \in Starting => job'[q].pair \in failed'
    BY DEF StartersInv, SameConfig
  <2>1. q = h /\ pc'[h] # "idle"
    BY <1>1, <1>2 DEF Starting
  <2> QED
    BY <2>1 DEF KeepsPair
<1>4. DeletersInv'
  BY <1>1 DEF DeletersInv, KeepsPair
<1>5. PairsInv'
  <2> SUFFICES ASSUME NEW p \in Pairs
               PROVE  /\ \/ StartDue(p)' \/ RestoreDue(p)' \/ DeleteDue(p)'
                         \/ Heard(rows'[p], listeners'[p], p \in failed' \cup pruned')
                      /\ StartDue(p)' \/ StopDue(p)' \/ Matched(rows'[p], listeners'[p])
    BY DEF PairsInv, Heard, Matched, SameConfig
  <2>1. StopDue(p) => StopDue(p)'
    BY <1>2 DEF StopDue
  <2>2. CASE p = r
    <3>1. pc'[h] = "lock" => StartDue(p)'
      BY <1>1, <2>2 DEF StartDue, KeepsPair
    <3>2. pc'[h] = "delete" => DeleteDue(p)'
      BY <2>2 DEF DeleteDue, KeepsPair
    <3> QED
      BY <2>1, <2>2, <3>1, <3>2 DEF KeepsPair
  <2>3. CASE p # r
    <3>1. ~StartDue(p) /\ ~RestoreDue(p) /\ ~DeleteDue(p)
      BY <1>1, <1>2, <2>3 DEF StartDue, RestoreDue, DeleteDue
    <3>2. /\ Heard(rows[p], listeners[p], p \in failed \cup pruned)
          /\ StopDue(p) \/ Matched(rows[p], listeners[p])
      BY <3>1 DEF AloneInv, PairsInv
    <3>3. /\ rows'[p] = rows[p] /\ listeners'[p] = listeners[p]
          /\ p \in failed' \cup pruned' <=> p \in failed \cup pruned
      BY <2>3 DEF KeepsPair
    <3>4. Heard(rows'[p], listeners'[p], p \in failed' \cup pruned')
      BY <3>2, <3>3 DEF Heard
    <3> QED
      BY <2>1, <3>2, <3>3, <3>4
  <2> QED
    BY <2>2, <2>3
<1>6. pc'[Main] = "sleep" => todo' = {}
  BY <1>2 DEF AloneInv
<1> QED
  BY <1>3, <1>4, <1>5, <1>6 DEF AloneInv

(* One await of start_listener, whoever makes it: the listener stays as it is, or *)
(* the pair counts as failed until there is one with the new configuration.       *)
LEMMA StartEffect ==
  ASSUME TypeInv, HoldersInv, StartersInv, NEW q \in Procs, StartStep(q),
         NEW r \in Pairs, r = job[q].pair
  PROVE  /\ UNCHANGED <<rows, todo>>
         /\ \A g \in Procs \ {q} : pc'[g] = pc[g] /\ job'[g] = job[g]
         /\ \A p \in Pairs \ {r} :
              /\ listeners'[p] = listeners[p]
              /\ p \in failed' \cup pruned' <=> p \in failed \cup pruned
         /\ rows[r] # None /\ SameConfig(rows[r], job[q]) /\ (q # Main => ~rows[r].stale)
         /\ \/ /\ pc'[q] \in Starting /\ r \in failed'
               /\ job'[q].pair = r /\ SameConfig(rows[r], job'[q])
            \/ pc'[q] = IF q = Main THEN "boot" ELSE "idle"
         /\ Heard(rows[r], listeners'[r], r \in failed' \cup pruned')
         /\ Matched(rows[r], listeners'[r])
<1>1. TypeOK /\ job[q] \in Job
  BY DEF TypeInv, TypeOK
<1>2. Moves(q)
  BY StartStepMoves
<1>3. UNCHANGED <<rows, todo>> /\ \A g \in Procs \ {q} : pc'[g] = pc[g] /\ job'[g] = job[g]
  BY <1>2 DEF Moves
<1>4. pc[q] \in {"lock"} \cup Starting
  BY DEF StartStep, StartListener, LoadSession, RegisterApp, SaveSession, InsertListener, Starting
<1>5. rows[r] # None /\ SameConfig(rows[r], job[q]) /\ (q # Main => ~rows[r].stale)
  BY <1>4 DEF StartersInv
<1>6. CASE StartListener(q)
  <2>1. CASE Unchanged(q) /\ Done(q) /\ UNCHANGED listeners /\ failed' = failed \ {r}
    <3>1. /\ listeners[r] # None /\ listeners[r].creds = job[q].creds
          /\ listeners[r].target = job[q].target
      BY <2>1 DEF Unchanged
    <3>2. pruned' = pruned \ {r}
      BY <1>6 DEF StartListener
    <3>3. pc'[q] = IF q = Main THEN "boot" ELSE "idle"
      BY <1>1, <2>1, DoneType
    <3> QED
      BY <1>3, <1>5, <2>1, <3>1, <3>2, <3>3 DEF Heard, Matched, SameConfig
  <2>2. CASE /\ listeners' = [listeners EXCEPT ![r] = None]
             /\ failed' = failed \cup {r}
             /\ Done(q) \/ Goto(q, "load")
    <3>1. /\ listeners'[r] = None /\ r \in failed' /\ pruned' = pruned \ {r}
          /\ \A p \in Pairs \ {r} : listeners'[p] = listeners[p]
      BY <1>1, <1>6, <2>2 DEF StartListener, TypeOK
    <3>2. \/ pc'[q] = IF q = Main THEN "boot" ELSE "idle"
          \/ pc'[q] = "load" /\ job' = job
      BY <1>1, <2>2, DoneType, GotoType DEF Phase, Starting
    <3>3. \A p \in Pairs \ {r} : p \in failed' \cup pruned' <=> p \in failed \cup pruned
      BY <2>2, <3>1
    <3> QED
      BY <1>3, <1>5, <3>1, <3>2, <3>3 DEF Heard, Matched, Starting
  <2> QED
    BY <1>6, <2>1, <2>2 DEF StartListener
<1>7. CASE LoadSession(q) \/ RegisterApp(q) \/ SaveSession(q)
  <2>1. pc[q] \in Starting /\ UNCHANGED <<listeners, failed, pruned>>
    BY <1>7 DEF LoadSession, RegisterApp, SaveSession, Starting, manager
  <2>2. listeners[r] = None /\ r \in failed
    BY <2>1 DEF HoldersInv, StartersInv
  <2>3. \/ pc'[q] = IF q = Main THEN "boot" ELSE "idle"
        \/ /\ pc'[q] \in Starting
           /\ job'[q].pair = r /\ job'[q].creds = job[q].creds /\ job'[q].target = job[q].target
    <3>1. CASE LoadSession(q)
      <4>1. \/ /\ job' = [job EXCEPT ![q].token = sessions[r]]
               /\ pc' = [pc EXCEPT ![q] = "save_session"]
            \/ Goto(q, "fcm")
        BY <3>1 DEF LoadSession
      <4> QED
        BY <1>1, <4>1 DEF Goto, TypeOK, Job, Starting
    <3>2. CASE RegisterApp(q)
      <4>1. \/ /\ \E n : job' = [job EXCEPT ![q].token = n]
               /\ pc' = [pc EXCEPT ![q] = "save_session"]
            \/ Done(q)
        BY <3>2 DEF RegisterApp
      <4>2. CASE Done(q)
        BY <1>1, <4>2, DoneType
      <4>3. ASSUME NEW n, job' = [job EXCEPT ![q].token = n],
                   pc' = [pc EXCEPT ![q] = "save_session"]
            PROVE  /\ pc'[q] \in Starting /\ job'[q].pair = r
                   /\ job'[q].creds = job[q].creds /\ job'[q].target = job[q].target
        BY <1>1, <4>3 DEF TypeOK, Job, Starting
      <4> QED
        BY <4>1, <4>2, <4>3
    <3>3. CASE SaveSession(q)
      <4>1. Goto(q, "insert")
        BY <3>3 DEF SaveSession
      <4> QED
        BY <1>1, <4>1 DEF Goto, TypeOK, Starting
    <3> QED
      BY <1>7, <3>1, <3>2, <3>3
  <2> QED
    BY <1>3, <1>5, <2>1, <2>2, <2>3 DEF Heard, Matched, SameConfig
<1>8. CASE InsertListener(q)
  <2> DEFINE new == [creds |-> job[q].creds, target |-> job[q].target, token |-> job[q].token]
  <2>1. /\ listeners' = [listeners EXCEPT ![r] = new] /\ failed' = failed \ {r}
        /\ UNCHANGED pruned /\ Done(q)
    BY <1>8 DEF InsertListener
  <2>2. new # None /\ new.creds = job[q].creds /\ new.target = job[q].target
    <3>1. job[q].creds \in Creds
      BY <1>4 DEF TypeInv, CredsKnown
    <3>2. new \in Listener
      BY <1>1, <3>1 DEF Job, Listener
    <3> QED
      BY <3>2, RecordAssumption
  <2> HIDE DEF new
  <2>3. /\ listeners'[r] = new
        /\ \A p \in Pairs \ {r} : listeners'[p] = listeners[p]
    BY <1>1, <2>1 DEF TypeOK
  <2>4. pc'[q] = IF q = Main THEN "boot" ELSE "idle"
    BY <1>1, <2>1, DoneType
  <2> QED
    BY <1>3, <1>5, <2>1, <2>2, <2>3, <2>4 DEF Heard, Matched, SameConfig
<1> QED
  BY <1>6, <1>7, <1>8 DEF StartStep
(* What the only handler does.                                                    *)
LEMMA HandlerStepAlone ==
  ASSUME OneHandler, "database" \notin FaultKinds, TypeInv, HoldersInv, AloneInv,
         NEW h \in Handlers, HandlerStep(h)
  PROVE  AloneInv'
<1> DEFINE r == job[h].pair
<1>1. /\ TypeOK /\ h \in Procs /\ Main \in Procs /\ h # Main
      /\ \A q \in Procs : q = h \/ q = Main
  BY NoneAssumption DEF TypeInv, OneHandler, Procs
<1>2. job[h] \in Job /\ r \in Pairs
  BY <1>1 DEF TypeOK, Job
<1>3. pc[h] # "idle"
  BY DEF HandlerStep, StartStep, StartListener, LoadSession, RegisterApp, SaveSession,
     InsertListener, ClaimInstallation, GetRegistration, SaveRegistration, VerifyInstallation,
     Unlisten, DeleteRegistration
<1>4. Serving /\ pc[Main] \in {"sleep", "stop"}
  BY <1>3 DEF TypeInv, BootInv, Serving
<1>5. ASSUME Done(h)
      PROVE  pc'[h] = "idle" /\ \A q \in Procs \ {h} : pc'[q] = pc[q] /\ job'[q] = job[q]
  BY <1>1, <1>5, DoneType
<1>6. ASSUME NEW phase, Goto(h, phase)
      PROVE  /\ pc'[h] = phase /\ job' = job
             /\ \A q \in Procs \ {h} : pc'[q] = pc[q]
  BY <1>1, <1>6 DEF Goto, TypeOK
<1>7. ASSUME ClaimInstallation(h) \/ GetRegistration(h) \/ VerifyInstallation(h)
             \/ (SaveRegistration(h) /\ LostClaimRace(h))
      PROVE  AloneInv'
  <2>1. UNCHANGED <<rows, listeners, failed, pruned, todo>>
          /\ pc[h] \notin {"lock", "delete"} \cup Starting
    BY <1>7 DEF ClaimInstallation, GetRegistration, VerifyInstallation, SaveRegistration,
       tables, manager, Starting
  <2>2. pc'[h] \notin {"lock", "delete"} \cup Starting
          /\ \A q \in Procs \ {h} : pc'[q] = pc[q] /\ job'[q] = job[q]
    <3>1. CASE Done(h)
      BY <3>1, <1>5 DEF Starting
    <3>2. ASSUME NEW phase \in {"lookup", "save", "unlisten"}, Goto(h, phase)
          PROVE  /\ pc'[h] \notin {"lock", "delete"} \cup Starting
                 /\ \A q \in Procs \ {h} : pc'[q] = pc[q] /\ job'[q] = job[q]
      BY <3>2, <1>6 DEF Starting
    <3>3. CASE /\ job' = [job EXCEPT ![h].creds = rows[job[h].pair].creds]
               /\ pc' = [pc EXCEPT ![h] = "save"]
      BY <3>3, <1>1 DEF TypeOK, Starting
    <3> QED
      BY <1>7, <3>1, <3>2, <3>3 DEF ClaimInstallation, GetRegistration, VerifyInstallation,
         SaveRegistration
  <2> QED
    BY <1>1, <2>1, <2>2, QuietAlone
<1>8. CASE SaveRegistration(h) /\ ~LostClaimRace(h)
  <2> DEFINE new == [secret |-> job[h].secret, creds |-> job[h].creds,
                     target |-> job[h].target, stale |-> FALSE]
  <2>1. /\ rows' = [rows EXCEPT ![r] = new] /\ Goto(h, "lock")
        /\ UNCHANGED <<listeners, failed, pruned, todo>>
    BY <1>8 DEF SaveRegistration, manager
  <2>2. /\ new # None /\ ~new.stale
        /\ new.creds = job[h].creds /\ new.target = job[h].target
    <3>1. job[h].creds \in Creds
      BY <1>1, <1>8 DEF SaveRegistration, TypeInv, CredsKnown
    <3>2. new \in Row
      BY <1>2, <3>1 DEF Job, Row
    <3> QED
      BY <3>2, RecordAssumption
  <2> HIDE DEF new
  <2>3. rows'[r] = new /\ \A p \in Pairs \ {r} : rows'[p] = rows[p]
    BY <1>1, <1>2, <2>1 DEF TypeOK
  <2>4. pc'[h] = "lock" /\ job' = job /\ pc'[Main] = pc[Main]
    BY <1>1, <1>6, <2>1
  <2>5. KeepsPair(h, r)
    BY <2>1, <2>2, <2>3, <2>4 DEF KeepsPair, SameConfig, Starting
  <2> QED
    BY <1>2, <1>3, <2>5, HandlerKeepsAlone
<1>9. CASE StartStep(h)
  <2>1. /\ UNCHANGED <<rows, todo>>
        /\ \A g \in Procs \ {h} : pc'[g] = pc[g] /\ job'[g] = job[g]
        /\ \A p \in Pairs \ {r} :
             /\ listeners'[p] = listeners[p]
             /\ p \in failed' \cup pruned' <=> p \in failed \cup pruned
        /\ rows[r] # None /\ (h # Main => ~rows[r].stale)
        /\ \/ /\ pc'[h] \in Starting /\ r \in failed'
              /\ job'[h].pair = r /\ SameConfig(rows[r], job'[h])
           \/ pc'[h] = IF h = Main THEN "boot" ELSE "idle"
        /\ Heard(rows[r], listeners'[r], r \in failed' \cup pruned')
        /\ Matched(rows[r], listeners'[r])
    BY <1>1, <1>2, <1>9, StartEffect DEF AloneInv
  <2>2. KeepsPair(h, r)
    BY <1>1, <2>1 DEF KeepsPair, Starting
  <2> QED
    BY <1>2, <1>3, <2>2, HandlerKeepsAlone
<1>10. CASE Unlisten(h)
  <2>1. /\ listeners' = [listeners EXCEPT ![r] = None] /\ failed' = failed \ {r}
        /\ Goto(h, "delete") /\ UNCHANGED <<rows, pruned, todo>>
    BY <1>10 DEF Unlisten, StopListener, tables
  <2>2. listeners'[r] = None /\ \A p \in Pairs \ {r} : listeners'[p] = listeners[p]
    BY <1>1, <1>2, <2>1 DEF TypeOK
  <2>3. pc'[h] = "delete" /\ job' = job /\ pc'[Main] = pc[Main]
    BY <1>1, <1>6, <2>1
  <2>4. KeepsPair(h, r)
    BY <2>1, <2>2, <2>3 DEF KeepsPair, Matched, Starting
  <2> QED
    BY <1>2, <1>3, <2>4, HandlerKeepsAlone
<1>11. CASE DeleteRegistration(h)
  <2>1. DeleteRows({r}, {}) /\ Done(h) /\ UNCHANGED <<listeners, failed, pruned, todo>>
          /\ pc[h] = "delete"
    BY <1>11 DEF DeleteRegistration, Fault, manager
  <2>2. rows'[r] = None /\ \A p \in Pairs \ {r} : rows'[p] = rows[p]
    BY <1>2, <2>1 DEF DeleteRows
  <2>3. listeners'[r] = None
    BY <2>1 DEF AloneInv, DeletersInv
  <2>4. pc'[h] = "idle" /\ pc'[Main] = pc[Main]
    BY <1>1, <1>5, <2>1
  <2>5. KeepsPair(h, r)
    BY <2>1, <2>2, <2>3, <2>4 DEF KeepsPair, Heard, Matched, Starting
  <2> QED
    BY <1>2, <1>3, <2>5, HandlerKeepsAlone
<1> QED
  BY <1>7, <1>8, <1>9, <1>10, <1>11 DEF HandlerStep

(* main() restores one listener after the other while nobody is served.           *)
LEMMA RestoreAlone ==
  ASSUME TypeInv, HoldersInv, AloneInv, RestoreNext \/ Restored \/ StartStep(Main)
  PROVE  AloneInv'
<1>1. TypeOK /\ Main \in Procs /\ ~Serving /\ pc[Main] \notin {"sleep", "stop"}
  BY DEF TypeInv, Procs, Serving, RestoreNext, Restored, StartStep, StartListener,
     LoadSession, RegisterApp, SaveSession, InsertListener
<1>2. \A h \in Handlers : pc[h] = "idle" /\ h # Main /\ h \in Procs
  BY <1>1, NoneAssumption DEF TypeInv, BootInv, Procs
<1>3. \A q \in Procs : q = Main \/ q \in Handlers
  BY DEF Procs
<1>4. \A p : ~DeleteDue(p) /\ ~StopDue(p)
  BY <1>1, <1>2 DEF DeleteDue, StopDue
<1>5. CASE RestoreNext
  <2>1. PICK p \in todo :
          /\ todo' = todo \ {p}
          /\ job' = [job EXCEPT ![Main] =
               [pair |-> p, secret |-> rows[p].secret, creds |-> rows[p].creds,
                target |-> rows[p].target, token |-> 0]]
    BY <1>5 DEF RestoreNext
  <2>2. /\ UNCHANGED <<rows, listeners, failed, pruned>> /\ pc[Main] = "boot"
        /\ pc'[Main] = "lock" /\ \A q \in Procs \ {Main} : pc'[q] = pc[q]
        /\ job'[Main].pair = p /\ job'[Main].creds = rows[p].creds
        /\ job'[Main].target = rows[p].target
    BY <1>1, <1>5, <2>1 DEF RestoreNext, tables, manager, TypeOK
  <2>3. p \in Pairs /\ rows[p] # None
    BY <1>1, <2>1 DEF TypeInv, BootInv, TypeOK
  <2>4. PairsInv'
    <3> SUFFICES ASSUME NEW o \in Pairs
                 PROVE  /\ \/ StartDue(o)' \/ RestoreDue(o)'
                           \/ Heard(rows'[o], listeners'[o], o \in failed' \cup pruned')
                        /\ StartDue(o)' \/ Matched(rows'[o], listeners'[o])
      BY DEF PairsInv, Heard, Matched, SameConfig
    <3>1. CASE o = p
      BY <1>1, <2>2, <3>1 DEF StartDue
    <3>2. CASE o # p
      <4>1. ~StartDue(o)
        BY <1>2, <1>3, <2>2 DEF StartDue
      <4>2. RestoreDue(o) => RestoreDue(o)'
        BY <2>1, <2>2, <3>2 DEF RestoreDue, Serving
      <4> QED
        BY <1>4, <2>2, <4>1, <4>2 DEF AloneInv, PairsInv
    <3> QED
      BY <3>1, <3>2
  <2>5. StartersInv'
    BY <1>2, <1>3, <2>2, <2>3 DEF StartersInv, SameConfig, Starting
  <2>6. DeletersInv' /\ pc'[Main] # "sleep"
    BY <1>2, <2>2 DEF DeletersInv
  <2> QED
    BY <2>4, <2>5, <2>6 DEF AloneInv
<1>6. CASE Restored
  <2>1. /\ UNCHANGED <<rows, listeners, failed, pruned, todo, job>> /\ todo = {}
        /\ pc[Main] = "boot" /\ pc'[Main] = "sleep"
        /\ \A q \in Procs \ {Main} : pc'[q] = pc[q]
    BY <1>1, <1>6 DEF Restored, Goto, tables, manager, TypeOK
  <2>2. PairsInv'
    <3> SUFFICES ASSUME NEW o \in Pairs
                 PROVE  /\ Heard(rows[o], listeners[o], o \in failed \cup pruned)
                        /\ Matched(rows[o], listeners[o])
      BY <2>1 DEF PairsInv, Heard, Matched, SameConfig
    <3>1. ~StartDue(o) /\ ~RestoreDue(o)
      BY <1>2, <1>3, <2>1 DEF StartDue, RestoreDue
    <3> QED
      BY <1>4, <3>1 DEF AloneInv, PairsInv
  <2>3. StartersInv' /\ DeletersInv'
    BY <1>2, <1>3, <2>1 DEF StartersInv, DeletersInv, Starting
  <2> QED
    BY <2>1, <2>2, <2>3 DEF AloneInv
<1>7. CASE StartStep(Main)
  <2> DEFINE r == job[Main].pair
  <2>1. r \in Pairs
    BY <1>1 DEF TypeOK, Job
  <2>2. /\ UNCHANGED <<rows, todo>>
        /\ \A g \in Procs \ {Main} : pc'[g] = pc[g] /\ job'[g] = job[g]
        /\ \A p \in Pairs \ {r} :
             /\ listeners'[p] = listeners[p]
             /\ p \in failed' \cup pruned' <=> p \in failed \cup pruned
        /\ rows[r] # None
        /\ \/ /\ pc'[Main] \in Starting /\ r \in failed'
              /\ job'[Main].pair = r /\ SameConfig(rows[r], job'[Main])
           \/ pc'[Main] = "boot"
        /\ Heard(rows[r], listeners'[r], r \in failed' \cup pruned')
        /\ Matched(rows[r], listeners'[r])
    BY <1>1, <1>7, <2>1, StartEffect DEF AloneInv
  <2>3. pc'[Main] \notin {"sleep", "stop", "lock"}
    BY <2>2 DEF Starting
  <2>4. PairsInv'
    <3> SUFFICES ASSUME NEW o \in Pairs
                 PROVE  /\ \/ RestoreDue(o)'
                           \/ Heard(rows'[o], listeners'[o], o \in failed' \cup pruned')
                        /\ Matched(rows'[o], listeners'[o])
      BY DEF PairsInv, Heard, Matched, SameConfig
    <3>1. CASE o = r
      BY <2>2, <3>1
    <3>2. CASE o # r
      <4>1. ~StartDue(o)
        BY <1>2, <1>3, <3>2 DEF StartDue
      <4>2. RestoreDue(o) => RestoreDue(o)'
        BY <2>2, <2>3 DEF RestoreDue, Serving
      <4>3. /\ RestoreDue(o) \/ Heard(rows[o], listeners[o], o \in failed \cup pruned)
            /\ Matched(rows[o], listeners[o])
        BY <1>4, <4>1 DEF AloneInv, PairsInv
      <4>4. /\ rows'[o] = rows[o] /\ listeners'[o] = listeners[o]
            /\ o \in failed' \cup pruned' <=> o \in failed \cup pruned
        BY <2>2, <3>2
      <4>5. Heard(rows[o], listeners[o], o \in failed \cup pruned) =>
              Heard(rows'[o], listeners'[o], o \in failed' \cup pruned')
        BY <4>4 DEF Heard
      <4> QED
        BY <4>2, <4>3, <4>4, <4>5
    <3> QED
      BY <3>1, <3>2
  <2>5. StartersInv'
    <3> SUFFICES ASSUME NEW q \in Procs, pc'[q] \in {"lock"} \cup Starting
                 PROVE  /\ rows'[job'[q].pair] # None /\ SameConfig(rows'[job'[q].pair], job'[q])
                        /\ q # Main => ~rows'[job'[q].pair].stale
                        /\ pc'[q] \in Starting => job'[q].pair \in failed'
      BY DEF StartersInv, SameConfig
    <3>1. q = Main
      BY <1>2, <1>3, <2>2 DEF Starting
    <3> QED
      BY <2>2, <2>3, <3>1 DEF Starting
  <2>6. DeletersInv'
    BY <1>2, <2>2 DEF DeletersInv
  <2> QED
    BY <2>3, <2>4, <2>5, <2>6 DEF AloneInv
<1> QED
  BY <1>5, <1>6, <1>7
(* The prune task deletes what is stale, which nobody is about to listen for, and *)
(* stops the listeners one by one afterwards, whoever has registered in between.  *)
LEMMA PruneAlone ==
  ASSUME "database" \notin FaultKinds, TypeInv, HoldersInv, AloneInv, PruneStale \/ StopPruned
  PROVE  AloneInv'
<1>1. TypeOK /\ Main \in Procs /\ Serving /\ pc[Main] \in {"sleep", "stop"}
  BY DEF TypeInv, Procs, Serving, PruneStale, StopPruned
<1>2. \A q \in Procs : job[q].pair \in Pairs
  BY <1>1 DEF TypeOK, Job
<1>3. \A p : ~RestoreDue(p)
  BY <1>1 DEF RestoreDue
<1>4. ASSUME job' = job, pc'[Main] \in {"sleep", "stop"},
             \A q \in Procs \ {Main} : pc'[q] = pc[q]
      PROVE  \A p : (StartDue(p) => StartDue(p)') /\ (DeleteDue(p) => DeleteDue(p)')
  BY <1>1, <1>4, NoneAssumption DEF StartDue, DeleteDue, Procs
<1>5. CASE PruneStale
  <2>1. /\ DeleteRows(Stale, {}) /\ todo' = Stale /\ Goto(Main, "stop")
        /\ UNCHANGED <<listeners, failed, pruned>> /\ pc[Main] = "sleep"
    BY <1>5 DEF PruneStale, Fault, manager
  <2>2. /\ pc'[Main] = "stop" /\ job' = job /\ \A q \in Procs \ {Main} : pc'[q] = pc[q]
    BY <1>1, <2>1 DEF Goto, TypeOK
  <2>3. \A p \in Pairs : rows'[p] = IF p \in Stale THEN None ELSE rows[p]
    BY <2>1 DEF DeleteRows
  <2>4. PairsInv'
    <3> SUFFICES ASSUME NEW p \in Pairs
                 PROVE  /\ \/ StartDue(p)' \/ DeleteDue(p)'
                           \/ Heard(rows'[p], listeners'[p], p \in failed' \cup pruned')
                        /\ StartDue(p)' \/ StopDue(p)' \/ Matched(rows'[p], listeners'[p])
      BY DEF PairsInv, Heard, Matched, SameConfig
    <3>1. /\ StartDue(p) \/ DeleteDue(p) \/ Heard(rows[p], listeners[p], p \in failed \cup pruned)
          /\ StartDue(p) \/ Matched(rows[p], listeners[p])
      BY <1>3, <2>1 DEF AloneInv, PairsInv, StopDue
    <3>2. p \in Stale => StopDue(p)'
      BY <2>1, <2>2 DEF StopDue
    <3>3. CASE p \in Stale
      BY <2>3, <3>2, <3>3 DEF Heard
    <3>4. CASE p \notin Stale
      <4>1. rows'[p] = rows[p]
        BY <2>3, <3>4
      <4> QED
        BY <1>4, <2>1, <2>2, <3>1, <4>1
    <3> QED
      BY <3>3, <3>4
  <2>5. StartersInv'
    <3> SUFFICES ASSUME NEW q \in Procs, pc'[q] \in {"lock"} \cup Starting
                 PROVE  /\ rows'[job'[q].pair] # None /\ SameConfig(rows'[job'[q].pair], job'[q])
                        /\ q # Main => ~rows'[job'[q].pair].stale
                        /\ pc'[q] \in Starting => job'[q].pair \in failed'
      BY DEF StartersInv, SameConfig
    <3>1. q # Main /\ pc'[q] = pc[q] /\ job'[q] = job[q]
      BY <2>2 DEF Starting
    <3>2. /\ rows[job[q].pair] # None /\ SameConfig(rows[job[q].pair], job[q])
          /\ ~rows[job[q].pair].stale /\ (pc[q] \in Starting => job[q].pair \in failed)
      BY <3>1 DEF AloneInv, StartersInv
    <3>3. rows'[job[q].pair] = rows[job[q].pair]
      BY <1>2, <2>3, <3>2 DEF Stale
    <3> QED
      BY <2>1, <3>1, <3>2, <3>3
  <2>6. DeletersInv'
    BY <2>1, <2>2, NoneAssumption DEF AloneInv, DeletersInv, Procs
  <2> QED
    BY <2>2, <2>4, <2>5, <2>6 DEF AloneInv
<1>6. CASE StopPruned
  <2>1. PICK p \in todo :
          /\ StopListener(p)
          /\ todo' = todo \ {p}
          /\ pruned' = pruned \cup {p}
          /\ Goto(Main, IF todo = {p} THEN "sleep" ELSE "stop")
    BY <1>6 DEF StopPruned
  <2>2. p \in Pairs /\ rows' = rows /\ lock = None /\ pc[Main] = "stop"
          /\ failed' = failed \ {p} /\ listeners' = [listeners EXCEPT ![p] = None]
    BY <1>1, <1>6, <2>1 DEF StopPruned, StopListener, LockFree, tables, TypeOK
  <2>3. /\ listeners'[p] = None /\ \A o \in Pairs \ {p} : listeners'[o] = listeners[o]
        /\ \A o \in Pairs \ {p} : o \in failed' \cup pruned' <=> o \in failed \cup pruned
    BY <1>1, <2>1, <2>2 DEF TypeOK
  <2>4. /\ pc'[Main] = (IF todo = {p} THEN "sleep" ELSE "stop") /\ job' = job
        /\ \A q \in Procs \ {Main} : pc'[q] = pc[q]
    BY <1>1, <2>1 DEF Goto, TypeOK
  <2>5. \A q \in Procs : pc[q] \notin Starting
    BY <2>2, NoneAssumption DEF HoldersInv, Procs
  <2>6. PairsInv'
    <3> SUFFICES ASSUME NEW o \in Pairs
                 PROVE  /\ \/ StartDue(o)' \/ DeleteDue(o)'
                           \/ Heard(rows'[o], listeners'[o], o \in failed' \cup pruned')
                        /\ StartDue(o)' \/ StopDue(o)' \/ Matched(rows'[o], listeners'[o])
      BY DEF PairsInv, Heard, Matched, SameConfig
    <3>1. CASE o = p
      BY <2>1, <2>3, <3>1 DEF Heard, Matched
    <3>2. CASE o # p
      <4>1. /\ StartDue(o) \/ DeleteDue(o)
                 \/ Heard(rows[o], listeners[o], o \in failed \cup pruned)
            /\ StartDue(o) \/ StopDue(o) \/ Matched(rows[o], listeners[o])
        BY <1>3 DEF AloneInv, PairsInv
      <4>2. StopDue(o) => StopDue(o)'
        BY <2>1, <2>4, <3>2 DEF StopDue
      <4>3. Heard(rows[o], listeners[o], o \in failed \cup pruned) =>
              Heard(rows'[o], listeners'[o], o \in failed' \cup pruned')
        BY <2>2, <2>3, <3>2 DEF Heard
      <4>4. rows'[o] = rows[o] /\ listeners'[o] = listeners[o]
        BY <2>2, <2>3, <3>2
      <4>5. (StartDue(o) => StartDue(o)') /\ (DeleteDue(o) => DeleteDue(o)')
        BY <1>4, <2>4
      <4> QED
        BY <4>1, <4>2, <4>3, <4>4, <4>5
    <3> QED
      BY <3>1, <3>2
  <2>7. StartersInv'
    <3> SUFFICES ASSUME NEW q \in Procs, pc'[q] \in {"lock"} \cup Starting
                 PROVE  /\ rows'[job'[q].pair] # None /\ SameConfig(rows'[job'[q].pair], job'[q])
                        /\ q # Main => ~rows'[job'[q].pair].stale
                        /\ pc'[q] \in Starting => job'[q].pair \in failed'
      BY DEF StartersInv, SameConfig
    <3>1. q # Main /\ pc'[q] = pc[q] /\ job'[q] = job[q] /\ pc[q] \notin Starting
      BY <2>4, <2>5 DEF Starting
    <3> QED
      BY <2>2, <3>1 DEF AloneInv, StartersInv
  <2>8. DeletersInv'
    <3> SUFFICES ASSUME NEW h \in Handlers, pc'[h] = "delete"
                 PROVE  listeners'[job'[h].pair] = None
      BY DEF DeletersInv
    <3>1. pc[h] = "delete" /\ job'[h] = job[h] /\ job[h].pair \in Pairs
      BY <1>2, <2>4, NoneAssumption DEF Procs
    <3> QED
      BY <2>3, <3>1 DEF AloneInv, DeletersInv
  <2>9. pc'[Main] = "sleep" => todo' = {}
    BY <2>1, <2>4
  <2> QED
    BY <2>6, <2>7, <2>8, <2>9 DEF AloneInv
<1> QED
  BY <1>5, <1>6

(* Requests, and what may go wrong: a crash, silence, and Google out of reach.    *)
LEMMA OthersAlone ==
  ASSUME "database" \notin FaultKinds, "drop" \notin FaultKinds, TypeInv, AloneInv,
         Requesting \/ Failing
  PROVE  AloneInv'
<1>1. TypeOK /\ Main \in Procs
  BY DEF TypeInv, Procs
<1>2. CASE Requesting
  <2>1. PICK h \in Handlers :
          /\ UNCHANGED <<rows, listeners, failed, pruned, todo>>
          /\ pc[h] = "idle" /\ pc'[h] \in {"claim", "verify"}
          /\ \A q \in Procs \ {h} : pc'[q] = pc[q] /\ job'[q] = job[q]
    BY <1>1, <1>2 DEF Requesting, ReceiveRegister, ReceiveUnregister, Heartbeat, Receive,
       tables, manager, TypeOK, Procs
  <2>2. h # Main /\ pc'[Main] = pc[Main]
    BY <1>1, <2>1, NoneAssumption
  <2>3. /\ pc[h] \notin {"lock", "delete"} \cup Starting
        /\ pc'[h] \notin {"lock", "delete"} \cup Starting
    BY <2>1 DEF Starting
  <2> QED
    BY <2>1, <2>2, <2>3, QuietAlone
<1>3. CASE Crash
  <2>1. /\ \A p \in Pairs : listeners'[p] = None
        /\ todo' = {p \in Pairs : rows'[p] # None}
        /\ \A q \in Procs : pc'[q] = IF q = Main THEN "boot" ELSE "idle"
    BY <1>3 DEF Crash
  <2>2. pc'[Main] = "boot" /\ \A h \in Handlers : pc'[h] = "idle"
    BY <1>1, <2>1, NoneAssumption DEF Procs
  <2>3. PairsInv'
    <3> SUFFICES ASSUME NEW p \in Pairs
                 PROVE  /\ RestoreDue(p)' \/ rows'[p] = None
                        /\ listeners'[p] = None
      BY DEF PairsInv, Heard, Matched
    <3> QED
      BY <2>1, <2>2 DEF RestoreDue, Serving
  <2>4. StartersInv' /\ DeletersInv'
    BY <2>1, <2>2 DEF StartersInv, DeletersInv, Starting
  <2> QED
    BY <2>2, <2>3, <2>4 DEF AloneInv
<1>4. ASSUME NEW o \in Pairs, RowAges(o) PROVE AloneInv'
  <2> DEFINE new == [rows[o] EXCEPT !.stale = TRUE]
  <2>1. /\ pc[Main] = "sleep" /\ \A h \in Handlers : pc[h] = "idle"
        /\ UNCHANGED <<listeners, failed, pruned, pc, job, todo>>
        /\ rows[o] # None /\ rows' = [rows EXCEPT ![o] = new]
    BY <1>4 DEF RowAges, AtRest, manager, tasks
  <2>2. new # None /\ new.creds = rows[o].creds /\ new.target = rows[o].target
    <3>1. rows[o] \in Row
      BY <1>1, <2>1 DEF TypeOK
    <3>2. new \in Row
      BY <3>1 DEF Row
    <3> QED
      BY <3>1, <3>2, RecordAssumption DEF Row
  <2> HIDE DEF new
  <2>3. rows'[o] = new /\ \A p \in Pairs \ {o} : rows'[p] = rows[p]
    BY <1>1, <2>1 DEF TypeOK
  <2>4. \A q \in Procs : pc'[q] \in {"sleep", "idle"} /\ pc'[q] = pc[q]
    BY <2>1 DEF Procs
  <2>5. PairsInv'
    <3> SUFFICES ASSUME NEW p \in Pairs
                 PROVE  /\ Heard(rows'[p], listeners[p], p \in failed \cup pruned)
                        /\ Matched(rows'[p], listeners[p])
      BY <2>1 DEF PairsInv, Heard, Matched, SameConfig
    <3>1. ~StartDue(p) /\ ~RestoreDue(p) /\ ~DeleteDue(p) /\ ~StopDue(p)
      BY <2>1, <2>4 DEF StartDue, RestoreDue, DeleteDue, StopDue, Serving
    <3>2. /\ Heard(rows[p], listeners[p], p \in failed \cup pruned)
          /\ Matched(rows[p], listeners[p])
      BY <3>1 DEF AloneInv, PairsInv
    <3> QED
      BY <2>1, <2>2, <2>3, <3>2 DEF Heard, Matched, SameConfig
  <2>6. StartersInv' /\ DeletersInv'
    BY <2>1, <2>4 DEF StartersInv, DeletersInv, Starting
  <2> QED
    BY <2>1, <2>5, <2>6 DEF AloneInv
<1>5. \A h \in Handlers : ~DatabaseFails(h) /\ ~DropHandler(h)
  BY DEF DatabaseFails, DropHandler, Fault
<1> QED
  BY <1>2, <1>3, <1>4, <1>5 DEF Failing

(* AloneInv is inductive beside the invariants above.                             *)
LEMMA AloneInvariant ==
  ASSUME OneHandler, "database" \notin FaultKinds, "drop" \notin FaultKinds
  PROVE  Spec => []AloneInv
<1>1. Init => AloneInv
  <2> SUFFICES ASSUME Init PROVE AloneInv
    OBVIOUS
  <2>1. /\ pc[Main] = "boot" /\ \A q \in Procs : pc[q] \in {"boot", "idle"}
        /\ \A p \in Pairs : rows[p] = None /\ listeners[p] = None
    BY DEF Init, Procs
  <2>2. PairsInv
    BY <2>1 DEF PairsInv, Heard, Matched
  <2>3. StartersInv /\ DeletersInv
    BY <2>1 DEF StartersInv, DeletersInv, Starting, Procs
  <2> QED
    BY <2>1, <2>2, <2>3 DEF AloneInv
<1>2. TypeInv /\ TokenInv /\ AloneInv /\ [Next]_vars => AloneInv'
  <2> SUFFICES ASSUME TypeInv, TokenInv, AloneInv, [Next]_vars PROVE AloneInv'
    OBVIOUS
  <2>1. HoldersInv
    BY DEF TokenInv
  <2>2. CASE UNCHANGED vars
    <3>1. UNCHANGED <<rows, listeners, failed, pruned, todo, pc, job>>
      BY <2>2 DEF vars, tables, manager, tasks
    <3> QED
      BY <3>1, QuietAlone
  <2>3. ASSUME NEW h \in Handlers, HandlerStep(h) PROVE AloneInv'
    BY <2>1, <2>3, HandlerStepAlone
  <2>4. CASE MainStep
    BY <2>1, <2>4, RestoreAlone, PruneAlone DEF MainStep
  <2>5. CASE Requesting \/ Failing
    BY <2>5, OthersAlone
  <2> QED
    BY <2>2, <2>3, <2>4, <2>5 DEF Next
<1>3. /\ Init => TokenInv
      /\ TypeInv /\ TokenInv /\ [Next]_vars => TokenInv'
  BY TokenInvInductive
<1> QED
  BY <1>1, <1>2, <1>3, TypeInvInductive, PTL DEF Spec

(* At rest nothing is due.                                                        *)
LEMMA AtRestSettled ==
  ASSUME AloneInv, AtRest, NEW p \in Pairs
  PROVE  /\ Heard(rows[p], listeners[p], p \in failed \cup pruned)
         /\ Matched(rows[p], listeners[p])
<1>1. ~StartDue(p) /\ ~RestoreDue(p) /\ ~DeleteDue(p) /\ ~StopDue(p)
  BY DEF AtRest, StartDue, RestoreDue, DeleteDue, StopDue, Serving, Procs
<1> QED
  BY <1>1 DEF AloneInv, PairsInv

(* Between requests that do not overlap and are not dropped, with a database that *)
(* serves every statement, only a failed start and the prune task leave a         *)
(* registered application without a listener: across any number of restarts, for  *)
(* any number of applications (register, unregister, restore_registrations).      *)
THEOREM MaintainedUnlessPruned ==
  ASSUME OneHandler, "database" \notin FaultKinds, "drop" \notin FaultKinds
  PROVE  Spec => []MaintainedOrPruned
<1>1. AloneInv => MaintainedOrPruned
  BY AtRestSettled DEF MaintainedOrPruned, Heard
<1> QED
  BY <1>1, AloneInvariant, PTL

(* Nor does anything listen for an application that is not registered, or with    *)
(* another configuration than the registered one (start_listener, stop_listener). *)
THEOREM ListenersMatchRows ==
  ASSUME OneHandler, "database" \notin FaultKinds, "drop" \notin FaultKinds
  PROVE  Spec => []ListenerMatchesRow
<1>1. AloneInv => ListenerMatchesRow
  BY AtRestSettled DEF ListenerMatchesRow, Matched, SameConfig
<1> QED
  BY <1>1, AloneInvariant, PTL
===============================================================================
