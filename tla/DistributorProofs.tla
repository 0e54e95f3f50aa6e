--------------------------- MODULE DistributorProofs --------------------------
(* TypeOK, Faithful, OrphansRaced and AcceptsExactly are invariants of            *)
(* Distributor, and ReconcileConverges is true of its steps, for all values of    *)
(* its constants: any number of installs, secrets, applications, tokens, listed   *)
(* entries and overlapping handlers, and any clock.                               *)
EXTENDS Distributor, SequenceTheorems, TLAPS

USE VapidAssumption, DistributorAssumption

-------------------------------------------------------------------------------
(* Validation.                                                                    *)

(* A set of checks that fail has a first member.                                  *)
LEMMA FirstFailed ==
  ASSUME NEW failed \in SUBSET (1 .. 11), failed # {}
  PROVE  \E n \in failed : \A m \in failed : n <= m
<1> SUFFICES ASSUME \A n \in failed : \E m \in failed : ~(n <= m)
             PROVE  FALSE
  OBVIOUS
<1>1. 1 \notin failed
  OBVIOUS
<1>2. 2 \notin failed
  BY <1>1
<1>3. 3 \notin failed
  BY <1>1, <1>2
<1>4. 4 \notin failed
  BY <1>1, <1>2, <1>3
<1>5. 5 \notin failed
  BY <1>1, <1>2, <1>3, <1>4
<1>6. 6 \notin failed
  BY <1>1, <1>2, <1>3, <1>4, <1>5
<1>7. 7 \notin failed
  BY <1>1, <1>2, <1>3, <1>4, <1>5, <1>6
<1>8. 8 \notin failed
  BY <1>1, <1>2, <1>3, <1>4, <1>5, <1>6, <1>7
<1>9. 9 \notin failed
  BY <1>1, <1>2, <1>3, <1>4, <1>5, <1>6, <1>7, <1>8
<1>10. 10 \notin failed
  BY <1>1, <1>2, <1>3, <1>4, <1>5, <1>6, <1>7, <1>8, <1>9
<1>11. 11 \notin failed
  BY <1>1, <1>2, <1>3, <1>4, <1>5, <1>6, <1>7, <1>8, <1>9, <1>10
<1>12. PICK n \in failed : n \in 1 .. 11
  OBVIOUS
<1>13. \/ n = 1 \/ n = 2 \/ n = 3 \/ n = 4 \/ n = 5 \/ n = 6
       \/ n = 7 \/ n = 8 \/ n = 9 \/ n = 10 \/ n = 11
  BY <1>12
<1> QED
  BY <1>1, <1>2, <1>3, <1>4, <1>5, <1>6, <1>7, <1>8, <1>9, <1>10, <1>11, <1>13

(* No check that fails is answered with "accepted".                               *)
LEMMA RejectionsReject ==
  ASSUME NEW n \in 1 .. 11
  PROVE  VapidRejection[n] # "accepted"
<1> DEFINE answers == VapidRejection
<1>1. /\ answers[1] # "accepted" /\ answers[2] # "accepted" /\ answers[3] # "accepted"
      /\ answers[4] # "accepted" /\ answers[5] # "accepted" /\ answers[6] # "accepted"
      /\ answers[7] # "accepted" /\ answers[8] # "accepted" /\ answers[9] # "accepted"
      /\ answers[10] # "accepted" /\ answers[11] # "accepted"
  BY DEF VapidRejection
<1> HIDE DEF answers
<1>2. n \in {1, 2, 3, 4, 5, 6, 7, 8, 9, 10, 11}
  OBVIOUS
<1>3. answers[n] # "accepted"
  BY <1>1, <1>2
<1> QED
  BY <1>3 DEF answers

(* Validation accepts if and only if every check holds.                           *)
LEMMA AcceptedIffAllHold ==
  ASSUME NEW header, NEW stored, NEW now
  PROVE  Validate(header, stored, now) = "accepted"
           <=> \A n \in 1 .. 11 : Checks(header, stored, now)[n]
<1> DEFINE checks == Checks(header, stored, now)
           failed == {n \in 1 .. 11 : ~checks[n]}
           first == CHOOSE n \in failed : \A m \in failed : n <= m
<1>1. CASE failed = {}
  BY <1>1 DEF Validate
<1>2. CASE failed # {}
  <2>1. first \in failed
    <3> HIDE DEF failed
    <3>1. failed \in SUBSET (1 .. 11)
      BY DEF failed
    <3> QED
      BY <1>2, <3>1, FirstFailed
  <2>2. VapidRejection[first] # "accepted"
    <3>1. first \in 1 .. 11
      BY <2>1
    <3> HIDE DEF first
    <3> QED
      BY <3>1, RejectionsReject
  <2>3. Validate(header, stored, now) = VapidRejection[first]
    BY <1>2 DEF Validate
  <2> QED
    BY <1>2, <2>2, <2>3
<1> QED
  BY <1>1, <1>2

(* Saturation changes no answer, because no clock reads more than U64_MAX.        *)
LEMMA SaturationHarmless ==
  ASSUME NEW exp \in 0 .. U64_MAX, NEW now \in 0 .. U64_MAX
  PROVE  ~Expired(exp, now) /\ ~TooFarAhead(exp, now) <=> WithinWindow(exp, now)
BY DEF Expired, TooFarAhead, SaturatingAdd, WithinWindow

(* What validate accepts is what was signed for this bridge with the key of the   *)
(* registration, in time: for every header and every reading of the clock.        *)
LEMMA ValidateSound ==
  ASSUME NEW header \in Header, NEW stored \in Keys, NEW now \in 0 .. U64_MAX
  PROVE  Validate(header, stored, now) = "accepted" <=> Authorised(header, stored, now)
<1> DEFINE checks == Checks(header, stored, now)
<1>1. (\A n \in 1 .. 11 : checks[n]) <=>
        /\ checks[1] /\ checks[2] /\ checks[3] /\ checks[4] /\ checks[5] /\ checks[6]
        /\ checks[7] /\ checks[8] /\ checks[9] /\ checks[10] /\ checks[11]
  <2> HIDE DEF checks
  <2>1. 1 .. 11 = {1, 2, 3, 4, 5, 6, 7, 8, 9, 10, 11}
    OBVIOUS
  <2> QED
    BY <2>1
<1>2. /\ checks[1] = header.present
      /\ checks[2] = header.wellFormed
      /\ checks[3] = (Decodes(stored) /\ header.k = stored)
      /\ checks[4] = header.jwt
      /\ checks[5] = (stored \notin OffCurve)
      /\ checks[6] = (header.signer = stored)
      /\ checks[7] = (header.exp >= 0)
      /\ checks[8] = ~Expired(header.exp, now)
      /\ checks[9] = ~TooFarAhead(header.exp, now)
      /\ checks[10] = (header.aud # "missing")
      /\ checks[11] = (header.aud = "origin")
  BY Zenon DEF Checks
<1> HIDE DEF checks
<1>3. header.exp >= 0 =>
        (~Expired(header.exp, now) /\ ~TooFarAhead(header.exp, now)
           <=> WithinWindow(header.exp, now))
  <2>1. header.exp \in (0 .. U64_MAX) \cup {-1}
    BY DEF Header
  <2>2. header.exp >= 0 => header.exp \in 0 .. U64_MAX
    BY <2>1
  <2> QED
    BY <2>2, SaturationHarmless
<1>4. Validate(header, stored, now) = "accepted" <=> \A n \in 1 .. 11 : checks[n]
  BY AcceptedIffAllHold DEF checks
<1> QED
  BY <1>1, <1>2, <1>3, <1>4 DEF Authorised, Decodes

-------------------------------------------------------------------------------
(* The inductive invariant: beside the properties, the entries a handler still    *)
(* has to register have been checked, and a message under way is either for an    *)
(* endpoint that is registered or knows that its registration went.               *)
Checked(j) ==
  /\ j.entries # <<>>
  /\ \A n \in DOMAIN j.entries : j.entries[n].key # None => Decodes(j.entries[n].key)

EntriesChecked ==
  \A h \in Handlers : pc[h] \in {"register", "reconcile"} => Checked(job[h])

Live(m) == m.raced \/ (regs[m.place] # None /\ regs[m.place].endpoint = m.endpoint)

UnderWay == \A h \in Handlers : pc[h] = "enqueue" => Live(job[h])

IInv == TypeOK /\ EntriesChecked /\ Faithful /\ OrphansRaced /\ UnderWay

(* No handler, no row, no registration.                                           *)
LEMMA InitIInv == Init => IInv
<1> SUFFICES ASSUME Init PROVE IInv
  OBVIOUS
<1>1. TypeOK
  BY DEF Init, TypeOK, Phase
<1>2. EntriesChecked /\ Faithful /\ OrphansRaced /\ UnderWay
  BY DEF Init, EntriesChecked, Faithful, OrphansRaced, UnderWay
<1> QED
  BY <1>1, <1>2 DEF IInv

(* A handler that works on something else or on nothing leaves the rest alone.    *)
LEMMA FinishIInv ==
  ASSUME IInv, NEW h \in Handlers, Finish(h), UNCHANGED <<tables, issued, issuedTo>>,
         requests' \in 0 .. MaxRequests, faults' \in 0 .. MaxFaults
  PROVE  IInv'
<1>1. TypeOK'
  <2>1. /\ pc' \in [Handlers -> Phase] /\ pc'[h] = "idle" /\ job'[h] = None
        /\ \A g \in Handlers : g # h => pc'[g] = pc[g] /\ job'[g] = job[g]
    <3>1. pc \in [Handlers -> Phase]
      BY DEF IInv, TypeOK
    <3>2. pc' = [pc EXCEPT ![h] = "idle"] /\ job' = [job EXCEPT ![h] = None]
      BY DEF Finish
    <3>3. \A g \in Handlers : g # h => pc'[g] = pc[g] /\ job'[g] = job[g]
      BY <3>2
    <3>4. pc' \in [Handlers -> Phase] /\ pc'[h] = "idle"
      BY <3>1, <3>2 DEF Phase
    <3>5. job'[h] = None
      BY <3>2 DEF IInv, TypeOK
    <3> QED
      BY <3>3, <3>4, <3>5
  <2>2. ASSUME NEW g \in Handlers
        PROVE  /\ pc'[g] = "idle" => job'[g] = None
               /\ pc'[g] = "enqueue" => job'[g] \in Message
               /\ pc'[g] = "unregister" => job'[g] \in Unregistering
               /\ pc'[g] \in {"register", "reconcile", "prune"} => job'[g] \in Registering
    <3>1. CASE g = h
      BY <2>1, <3>1
    <3>2. CASE g # h
      BY <2>1, <3>2 DEF IInv, TypeOK
    <3> QED
      BY <3>1, <3>2
  <2>3. DOMAIN job' = Handlers
    BY DEF Finish, IInv, TypeOK
  <2> QED
    BY <2>1, <2>2, <2>3 DEF IInv, TypeOK, tables
<1>2. EntriesChecked'
  BY DEF IInv, TypeOK, EntriesChecked, Finish, Checked
<1>3. Faithful'
  BY DEF IInv, TypeOK, Faithful, tables, Finish, GivenTo
<1>4. OrphansRaced'
  BY DEF IInv, OrphansRaced, tables
<1>5. UnderWay'
  BY DEF IInv, TypeOK, UnderWay, Live, tables, Finish
<1> QED
  BY <1>1, <1>2, <1>3, <1>4, <1>5 DEF IInv

(* Telling the other writers that they are not alone changes none of their types. *)
LEMMA DisturbedType ==
  ASSUME IInv, NEW i \in Installs, NEW g \in Handlers
  PROVE  /\ pc[g] = "idle" => Disturbed(i)[g] = None
         /\ pc[g] = "enqueue" => Disturbed(i)[g] = job[g]
         /\ pc[g] = "unregister" => Disturbed(i)[g] \in Unregistering
         /\ pc[g] \in {"register", "reconcile", "prune"} =>
              Disturbed(i)[g] \in Registering /\ Disturbed(i)[g].entries = job[g].entries
         /\ DOMAIN Disturbed(i) = Handlers
<1>1. CASE pc[g] \in {"register", "reconcile", "prune"}
  <2>1. job[g] \in Registering
    BY <1>1 DEF IInv, TypeOK
  <2>2. /\ [job[g] EXCEPT !.alone = FALSE] \in Registering
        /\ [job[g] EXCEPT !.alone = FALSE].entries = job[g].entries
    BY <2>1 DEF Registering
  <2>3. Disturbed(i)[g] \in {job[g], [job[g] EXCEPT !.alone = FALSE]}
    BY DEF Disturbed
  <2> QED
    BY <1>1, <2>1, <2>2, <2>3 DEF Disturbed
<1>2. CASE pc[g] \notin {"register", "reconcile", "prune"}
  <2>1. g \notin Writers(i) \/ pc[g] = "unregister"
    BY <1>2 DEF Writers
  <2>2. Disturbed(i)[g] = job[g]
    BY <2>1 DEF Disturbed
  <2> QED
    BY <1>2, <2>2 DEF IInv, TypeOK, Disturbed
<1> QED
  BY <1>1, <1>2

(* An arrival adds a handler and a claim.                                         *)
LEMMA ArriveIInv ==
  ASSUME IInv, NEW h \in Handlers, NEW i \in Installs, NEW j,
         NEW phase \in {"register", "reconcile", "prune", "unregister"},
         owner' \in [Installs -> Secrets \cup {None}],
         Arrive(h, phase, i, j),
         phase = "unregister" => j \in Unregistering,
         phase # "unregister" => j \in Registering,
         phase \in {"register", "reconcile"} => Checked(j)
  PROVE  IInv'
<1>1. /\ \A g \in Handlers : g # h => pc'[g] = pc[g] /\ job'[g] = Disturbed(i)[g]
      /\ pc'[h] = phase /\ job'[h] = j
      /\ pc' \in [Handlers -> Phase]
  BY DEF Arrive, IInv, TypeOK, Disturbed, Phase
<1>2. TypeOK'
  <2>1. ASSUME NEW g \in Handlers
        PROVE  /\ pc'[g] = "idle" => job'[g] = None
               /\ pc'[g] = "enqueue" => job'[g] \in Message
               /\ pc'[g] = "unregister" => job'[g] \in Unregistering
               /\ pc'[g] \in {"register", "reconcile", "prune"} => job'[g] \in Registering
    <3>1. CASE g = h
      BY <1>1, <3>1
    <3>2. CASE g # h
      BY <1>1, <3>2, DisturbedType DEF IInv, TypeOK
    <3> QED
      BY <3>1, <3>2
  <2>2. requests' \in 0 .. MaxRequests
    BY DEF Arrive, IInv, TypeOK
  <2>3. DOMAIN job' = Handlers
    BY DEF Arrive, Disturbed
  <2> QED
    BY <1>1, <2>1, <2>2, <2>3 DEF Arrive, IInv, TypeOK
<1>3. EntriesChecked'
  <2> SUFFICES ASSUME NEW g \in Handlers, pc'[g] \in {"register", "reconcile"}
               PROVE  Checked(job'[g])
    BY DEF EntriesChecked, Checked
  <2>1. CASE g = h
    BY <1>1, <2>1
  <2>2. CASE g # h
    <3>1. job'[g].entries = job[g].entries /\ pc[g] \in {"register", "reconcile"}
      BY <1>1, <2>2, DisturbedType
    <3> QED
      BY <3>1 DEF IInv, EntriesChecked, Checked
  <2> QED
    BY <2>1, <2>2
<1>4. \A g \in Handlers : pc'[g] = "enqueue" => pc[g] = "enqueue" /\ job'[g] = job[g]
  BY <1>1, DisturbedType
<1>5. Faithful'
  BY <1>4 DEF Arrive, IInv, Faithful, GivenTo
<1>6. OrphansRaced'
  BY DEF Arrive, IInv, OrphansRaced
<1>7. UnderWay'
  BY <1>4 DEF Arrive, IInv, UnderWay, Live
<1> QED
  BY <1>2, <1>3, <1>5, <1>6, <1>7 DEF IInv

(* What a registration of checked entries starts with.                            *)
LEMMA StartingType ==
  ASSUME IInv, NEW i \in Installs, NEW n \in Nat, NEW entries \in [1 .. n -> Entries],
         \A m \in 1 .. n : entries[m].key # None => Decodes(entries[m].key)
  PROVE  /\ Starting(i, entries) \in Registering
         /\ n > 0 => Checked(Starting(i, entries))
<1>1. entries \in Seq(Entry) /\ DOMAIN entries = 1 .. n
  <2>1. Entries \subseteq Entry
    BY DEF Entry
  <2>2. entries \in [1 .. n -> Entry]
    BY <2>1
  <2> QED
    BY <2>2
<1>2. {entries[m].token : m \in DOMAIN entries} \in SUBSET Tokens
  BY <1>1 DEF Entry
<1>3. {entries[m] : m \in DOMAIN entries} \in SUBSET Entry
  BY <1>1
<1>4. Starting(i, entries) \in Registering
  BY <1>1, <1>2, <1>3 DEF Starting, Registering, IInv, TypeOK
<1>5. n > 0 => entries # <<>>
  BY <1>1
<1> QED
  BY <1>1, <1>4, <1>5 DEF Checked, Starting

(* The three requests that write registrations.                                   *)
LEMMA ReceiveIInv ==
  ASSUME IInv, NEW h \in Handlers,
         ReceiveRegister(h) \/ ReceiveReconcile(h) \/ ReceiveUnregister(h)
  PROVE  IInv'
<1>1. CASE ReceiveRegister(h)
  <2>1. PICK i \in Installs, s \in Secrets, e \in Entries :
          /\ e.key # None => Decodes(e.key)
          /\ AuthorizeRegister(i, s)
          /\ Arrive(h, "register", i, Starting(i, <<e>>))
    BY <1>1 DEF ReceiveRegister
  <2>2. owner' \in [Installs -> Secrets \cup {None}]
    BY <2>1 DEF AuthorizeRegister, IInv, TypeOK
  <2>3. <<e>> \in [1 .. 1 -> Entries] /\ \A m \in 1 .. 1 : <<e>>[m] = e
    OBVIOUS
  <2>4. Starting(i, <<e>>) \in Registering /\ Checked(Starting(i, <<e>>))
    <3> DEFINE entries == <<e>>
    <3>1. entries \in [1 .. 1 -> Entries] /\ \A m \in 1 .. 1 : entries[m] = e
      BY <2>3
    <3>2. \A m \in 1 .. 1 : entries[m].key # None => Decodes(entries[m].key)
      BY <2>1, <3>1
    <3> HIDE DEF entries
    <3>3. Starting(i, entries) \in Registering /\ (1 > 0 => Checked(Starting(i, entries)))
      BY <3>1, <3>2, StartingType
    <3> QED
      BY <3>3 DEF entries
  <2> QED
    BY <2>1, <2>2, <2>4, ArriveIInv
<1>2. CASE ReceiveReconcile(h)
  <2>1. PICK i \in Installs, s \in Secrets, n \in 0 .. MAX_RECONCILE :
          \E entries \in [1 .. n -> Entries] :
            /\ \A m \in 1 .. n : entries[m].key # None => Decodes(entries[m].key)
            /\ AuthorizeRegister(i, s)
            /\ Arrive(h, IF n = 0 THEN "prune" ELSE "reconcile", i, Starting(i, entries))
    BY <1>2 DEF ReceiveReconcile
  <2>2. PICK entries \in [1 .. n -> Entries] :
          /\ \A m \in 1 .. n : entries[m].key # None => Decodes(entries[m].key)
          /\ AuthorizeRegister(i, s)
          /\ Arrive(h, IF n = 0 THEN "prune" ELSE "reconcile", i, Starting(i, entries))
    BY <2>1
  <2>3. owner' \in [Installs -> Secrets \cup {None}]
    BY <2>2 DEF AuthorizeRegister, IInv, TypeOK
  <2>4. Starting(i, entries) \in Registering /\ (n > 0 => Checked(Starting(i, entries)))
    BY <2>2, StartingType
  <2>5. CASE n = 0
    BY <2>2, <2>3, <2>4, <2>5, ArriveIInv
  <2>6. CASE n # 0
    BY <2>2, <2>3, <2>4, <2>6, ArriveIInv
  <2> QED
    BY <2>5, <2>6
<1>3. CASE ReceiveUnregister(h)
  <2>1. PICK i \in Installs, s \in Secrets, e \in Entries :
          /\ UNCHANGED owner
          /\ Arrive(h, "unregister", i, [install |-> i, entry |-> [e EXCEPT !.key = None]])
    BY <1>3 DEF ReceiveUnregister
  <2>2. [install |-> i, entry |-> [e EXCEPT !.key = None]] \in Unregistering
    BY DEF Unregistering, Entry
  <2>3. owner' \in [Installs -> Secrets \cup {None}]
    BY <2>1 DEF IInv, TypeOK
  <2> QED
    BY <2>1, <2>2, <2>3, ArriveIInv
<1> QED
  BY <1>1, <1>2, <1>3

(* GivenTo of the state after a step.                                             *)
GivenThen(n, p, a) == n \in DOMAIN issuedTo' /\ issuedTo'[n] = [place |-> p, app |-> a]

(* One registration: an endpoint that exists stays with whom it was given to, and *)
(* a new one is given to the application that asked.                              *)
LEMMA RegisterEffect ==
  ASSUME IInv, NEW j, j.install \in Installs, NEW e \in Entry,
         e.key # None => Decodes(e.key), RegisterUnifiedPush(j, e)
  PROVE  /\ regs' \in [Places -> Row \cup {None}]
         /\ \A p \in Places : regs'[p] # None => regs'[p].key \notin Undecodable
         /\ issued' \in 0 .. MaxEndpoints
         /\ issuedTo' \in [1 .. issued' -> Holder]
         /\ \A n, p, a : GivenTo(n, p, a) => GivenThen(n, p, a)
         /\ \A p \in Places : regs'[p] # None => GivenThen(regs'[p].endpoint, p, regs'[p].app)
         /\ \A p \in Places : regs[p] # None =>
              regs'[p] # None /\ regs'[p].endpoint = regs[p].endpoint
<1> DEFINE q == <<j.install, e.token>>
<1>1. q \in Places
  BY DEF Places, Entry
<1>2. e.app \in Apps /\ e.key \in Keys \cup {None} /\ e.key \notin Undecodable
  BY DEF Entry, Decodes
<1>3. /\ regs \in [Places -> Row \cup {None}] /\ issued \in 0 .. MaxEndpoints
      /\ issuedTo \in [1 .. issued -> Holder]
      /\ \A p \in Places : regs[p] # None =>
           regs[p].key \notin Undecodable /\ GivenTo(regs[p].endpoint, p, regs[p].app)
  BY DEF IInv, TypeOK, Faithful
<1>4. None \notin Row
  BY DEF Row
<1>5. CASE regs[q] # None /\ regs' = [regs EXCEPT ![q] = [@ EXCEPT !.key = e.key]]
             /\ UNCHANGED <<issued, issuedTo>>
  <2>1. regs[q] \in Row
    BY <1>1, <1>3, <1>5
  <2> DEFINE new == [regs[q] EXCEPT !.key = e.key]
  <2>2. new \in Row /\ new.endpoint = regs[q].endpoint /\ new.app = regs[q].app
          /\ new.key = e.key
    BY <1>2, <2>1 DEF Row
  <2>3. regs' = [regs EXCEPT ![q] = new]
    BY <1>5
  <2> HIDE DEF new
  <2>4. /\ regs'[q] = new
        /\ \A p \in Places : p # q => regs'[p] = regs[p]
        /\ regs' \in [Places -> Row \cup {None}]
    BY <1>1, <1>3, <2>2, <2>3
  <2>5. \A n, p, a : GivenTo(n, p, a) <=> GivenThen(n, p, a)
    BY <1>5 DEF GivenTo, GivenThen
  <2>6. ASSUME NEW p \in Places, regs'[p] # None
        PROVE  /\ regs'[p].key \notin Undecodable
               /\ GivenThen(regs'[p].endpoint, p, regs'[p].app)
    BY <1>1, <1>2, <1>3, <1>5, <2>2, <2>4, <2>5, <2>6
  <2>7. ASSUME NEW p \in Places, regs[p] # None
        PROVE  regs'[p] # None /\ regs'[p].endpoint = regs[p].endpoint
    BY <1>4, <2>2, <2>4, <2>7
  <2> QED
    BY <1>3, <1>5, <2>4, <2>5, <2>6, <2>7
<1>6. CASE UNCHANGED <<regs, issued, issuedTo>>
  BY <1>3, <1>6 DEF GivenTo, GivenThen
<1>7. CASE /\ regs[q] = None
           /\ issued < MaxEndpoints
           /\ issued' = issued + 1
           /\ issuedTo' = Append(issuedTo, [place |-> q, app |-> e.app])
           /\ regs' = [regs EXCEPT ![q] =
                [app |-> e.app, endpoint |-> issued + 1, key |-> e.key]]
  <2> DEFINE holder == [place |-> q, app |-> e.app]
             row == [app |-> e.app, endpoint |-> issued + 1, key |-> e.key]
  <2>1. holder \in Holder
    BY <1>1, <1>2 DEF Holder
  <2>2. row \in Row
    BY <1>2, <1>3, <1>7 DEF Row
  <2>3. issuedTo \in Seq(Holder) /\ Len(issuedTo) = issued
    BY <1>3
  <2>4. /\ issuedTo' \in [1 .. issued' -> Holder]
        /\ \A n \in 1 .. issued : issuedTo'[n] = issuedTo[n]
        /\ issuedTo'[issued + 1] = holder
    <3> HIDE DEF holder
    <3>1. issuedTo' = Append(issuedTo, holder)
      BY <1>7 DEF holder
    <3>2. /\ issuedTo' \in Seq(Holder) /\ Len(issuedTo') = issued + 1
          /\ \A n \in 1 .. issued : issuedTo'[n] = issuedTo[n]
          /\ issuedTo'[issued + 1] = holder
      BY <2>1, <2>3, <3>1, AppendProperties
    <3>3. issuedTo' \in [1 .. Len(issuedTo') -> Holder]
      BY <3>2, LenProperties
    <3> QED
      BY <1>7, <3>2, <3>3
  <2>5. \A n, p, a : GivenTo(n, p, a) => GivenThen(n, p, a)
    BY <1>3, <1>7, <2>4 DEF GivenTo, GivenThen
  <2>6. GivenThen(issued + 1, q, e.app)
    BY <1>3, <1>7, <2>4 DEF GivenTo, GivenThen
  <2>7. /\ row.app = e.app /\ row.endpoint = issued + 1 /\ row.key = e.key
        /\ regs' = [regs EXCEPT ![q] = row]
    BY <1>7
  <2>8. issued' \in 0 .. MaxEndpoints
    BY <1>3, <1>7
  <2> HIDE DEF row
  <2>9. \A p \in Places : regs'[p] # None => GivenThen(regs'[p].endpoint, p, regs'[p].app)
    <3> SUFFICES ASSUME NEW p \in Places, regs'[p] # None
                 PROVE  GivenThen(regs'[p].endpoint, p, regs'[p].app)
      OBVIOUS
    <3>1. CASE p = q
      <4>1. regs'[p] = row
        BY <1>1, <1>3, <2>7, <3>1
      <4> QED
        BY <2>6, <2>7, <3>1, <4>1 DEF GivenTo, GivenThen
    <3>2. CASE p # q
      <4>1. regs'[p] = regs[p]
        BY <1>3, <2>7, <3>2
      <4>2. GivenTo(regs[p].endpoint, p, regs[p].app)
        BY <1>3, <4>1
      <4> QED
        BY <2>5, <4>1, <4>2 DEF GivenTo, GivenThen
    <3> QED
      BY <3>1, <3>2
  <2> QED
    BY <1>1, <1>2, <1>3, <1>7, <2>2, <2>4, <2>5, <2>7, <2>8, <2>9
<1> QED
  BY <1>5, <1>6, <1>7 DEF RegisterUnifiedPush

(* What a registration keeps whole, whichever handler makes it.                   *)
LEMMA RegisterKeeps ==
  ASSUME IInv, NEW h \in Handlers, pc[h] \in {"register", "reconcile"},
         RegisterUnifiedPush(job[h], Head(job[h].entries)),
         UNCHANGED <<owner, outbox, counts>>,
         pc' \in [Handlers -> Phase], DOMAIN job' = Handlers,
         \A g \in Handlers : g # h => pc'[g] = pc[g] /\ job'[g] = job[g],
         \/ pc'[h] = "idle" /\ job'[h] = None
         \/ pc'[h] \in {"reconcile", "prune"} /\ job'[h] \in Registering,
         pc'[h] = "reconcile" => Checked(job'[h])
  PROVE  IInv'
<1>1. job[h] \in Registering /\ Checked(job[h])
  BY DEF IInv, TypeOK, EntriesChecked
<1> DEFINE e == Head(job[h].entries)
<1>2. e \in Entry /\ (e.key # None => Decodes(e.key)) /\ job[h].install \in Installs
  <2>1. job[h].entries \in Seq(Entry) /\ job[h].entries # <<>>
    BY <1>1 DEF Registering, Checked
  <2>2. e = job[h].entries[1] /\ 1 \in DOMAIN job[h].entries
    BY <2>1
  <2> QED
    BY <1>1, <2>1, <2>2 DEF Registering, Checked
<1> HIDE DEF e
<1>3. RegisterUnifiedPush(job[h], e)
  BY DEF e
<1>4. /\ regs' \in [Places -> Row \cup {None}]
      /\ \A p \in Places : regs'[p] # None => regs'[p].key \notin Undecodable
      /\ issued' \in 0 .. MaxEndpoints
      /\ issuedTo' \in [1 .. issued' -> Holder]
      /\ \A n, p, a : GivenTo(n, p, a) => GivenThen(n, p, a)
      /\ \A p \in Places : regs'[p] # None => GivenThen(regs'[p].endpoint, p, regs'[p].app)
      /\ \A p \in Places : regs[p] # None =>
           regs'[p] # None /\ regs'[p].endpoint = regs[p].endpoint
  BY <1>2, <1>3, RegisterEffect
<1>5. \A g \in Handlers : pc'[g] = "enqueue" =>
        g # h /\ pc[g] = "enqueue" /\ job'[g] = job[g] /\ job[g] \in Message
  BY DEF IInv, TypeOK
<1>6. TypeOK'
  <2>1. ASSUME NEW g \in Handlers
        PROVE  /\ pc'[g] = "idle" => job'[g] = None
               /\ pc'[g] = "enqueue" => job'[g] \in Message
               /\ pc'[g] = "unregister" => job'[g] \in Unregistering
               /\ pc'[g] \in {"register", "reconcile", "prune"} => job'[g] \in Registering
    <3>1. CASE g = h
      BY <3>1
    <3>2. CASE g # h
      BY <3>2 DEF IInv, TypeOK
    <3> QED
      BY <3>1, <3>2
  <2> QED
    BY <1>4, <2>1 DEF IInv, TypeOK, counts
<1>7. EntriesChecked'
  BY DEF IInv, EntriesChecked, Checked
<1>8. Faithful'
  <2>1. \A m \in outbox' : GivenThen(m.endpoint, m.place, m.app)
    BY <1>4 DEF IInv, Faithful
  <2>2. \A g \in Handlers : pc'[g] = "enqueue" =>
          GivenThen(job'[g].endpoint, job'[g].place, job'[g].app)
    BY <1>4, <1>5 DEF IInv, Faithful
  <2> QED
    BY <1>4, <2>1, <2>2 DEF Faithful, GivenTo, GivenThen
<1>9. OrphansRaced'
  <2> SUFFICES ASSUME NEW m \in outbox, ~m.raced
               PROVE  regs'[m.place] # None /\ regs'[m.place].endpoint = m.endpoint
    BY DEF OrphansRaced
  <2>1. m.place \in Places
    BY DEF IInv, TypeOK, Message
  <2> QED
    BY <1>4, <2>1 DEF IInv, OrphansRaced
<1>10. UnderWay'
  BY <1>4, <1>5 DEF IInv, UnderWay, Live, Message
<1> QED
  BY <1>6, <1>7, <1>8, <1>9, <1>10 DEF IInv

(* distributor_register, and one entry of distributor_reconcile.                  *)
LEMMA RegisterIInv ==
  ASSUME IInv, NEW h \in Handlers, Register(h) \/ ReconcileEntry(h)
  PROVE  IInv'
<1>1. CASE Register(h)
  <2>1. /\ pc' \in [Handlers -> Phase] /\ DOMAIN job' = Handlers
        /\ pc'[h] = "idle" /\ job'[h] = None
        /\ \A g \in Handlers : g # h => pc'[g] = pc[g] /\ job'[g] = job[g]
    BY <1>1 DEF Register, Finish, IInv, TypeOK, Phase
  <2> QED
    BY <1>1, <2>1, RegisterKeeps DEF Register
<1>2. CASE ReconcileEntry(h)
  <2>1. job[h] \in Registering /\ Checked(job[h]) /\ DOMAIN job = Handlers
    BY <1>2 DEF ReconcileEntry, IInv, TypeOK, EntriesChecked
  <2> DEFINE old == job[h].entries
             new == [job[h] EXCEPT !.entries = Tail(old)]
  <2>2. old \in Seq(Entry) /\ old # <<>>
    BY <2>1 DEF Registering, Checked
  <2>3. Tail(old) \in Seq(Entry) /\ \A n \in DOMAIN Tail(old) :
          Tail(old)[n] = old[n + 1] /\ n + 1 \in DOMAIN old
    BY <2>2
  <2>4. Len(old) # 1 => Tail(old) # <<>>
    <3>1. Len(Tail(old)) = Len(old) - 1
      BY <2>2, HeadTailProperties
    <3>2. Len(old) # 1 => Len(Tail(old)) # 0
      BY <2>2, <3>1
    <3> QED
      BY <3>2
  <2>5. new \in Registering /\ new.entries = Tail(old)
    BY <2>1, <2>3 DEF Registering
  <2>6. job' = [job EXCEPT ![h] = new]
    BY <1>2 DEF ReconcileEntry
  <2>7. Len(old) # 1 => Checked(new)
    BY <2>1, <2>3, <2>4, <2>5 DEF Checked
  <2>8. pc' = [pc EXCEPT ![h] = IF Len(old) = 1 THEN "prune" ELSE "reconcile"]
    BY <1>2 DEF ReconcileEntry
  <2> HIDE DEF old, new
  <2>9. /\ pc' \in [Handlers -> Phase] /\ DOMAIN job' = Handlers /\ job'[h] = new
        /\ pc'[h] = (IF Len(old) = 1 THEN "prune" ELSE "reconcile")
        /\ \A g \in Handlers : g # h => pc'[g] = pc[g] /\ job'[g] = job[g]
    BY <2>1, <2>6, <2>8 DEF IInv, TypeOK, Phase
  <2>10. pc'[h] = "reconcile" => Checked(job'[h])
    BY <2>7, <2>9
  <2>11. /\ pc[h] = "reconcile" /\ RegisterUnifiedPush(job[h], Head(job[h].entries))
         /\ UNCHANGED <<owner, outbox, counts>>
    BY <1>2 DEF ReconcileEntry
  <2> QED
    BY <2>5, <2>9, <2>10, <2>11, RegisterKeeps
<1> QED
  BY <1>1, <1>2

(* Registrations go together with their rows; a message under way is marked, and  *)
(* a row that stays although its place is emptied was already marked: a row whose *)
(* endpoint is still registered names the application of the registration.        *)
LEMMA RemoveIInv ==
  ASSUME IInv, NEW h \in Handlers, pc[h] # "enqueue",
         NEW gone \in SUBSET Places, NEW rows, Remove(h, gone, rows),
         \A m \in outbox : m.place \in gone /\ Live(m) /\ ~m.raced => m \in rows
  PROVE  IInv'
<1>1. /\ pc' \in [Handlers -> Phase] /\ DOMAIN job' = Handlers
      /\ pc'[h] = "idle" /\ job'[h] = None
      /\ \A g \in Handlers : g # h =>
           /\ pc'[g] = pc[g]
           /\ job'[g] = IF pc[g] = "enqueue" /\ job[g].place \in gone
                        THEN [job[g] EXCEPT !.raced = TRUE] ELSE job[g]
  BY DEF Remove, IInv, TypeOK, Phase
<1>2. /\ \A p \in Places : regs'[p] = IF p \in gone THEN None ELSE regs[p]
      /\ regs' \in [Places -> Row \cup {None}]
      /\ outbox' = outbox \ rows
  BY DEF Remove, IInv, TypeOK
<1>3. ASSUME NEW g \in Handlers, g # h, pc[g] = "enqueue"
      PROVE  /\ job'[g] \in Message /\ job'[g].place = job[g].place
             /\ job'[g].endpoint = job[g].endpoint /\ job'[g].app = job[g].app
             /\ job[g].place \in gone => job'[g].raced
             /\ job[g].place \notin gone => job'[g] = job[g]
  <2>1. job[g] \in Message
    BY <1>3 DEF IInv, TypeOK
  <2> DEFINE marked == [job[g] EXCEPT !.raced = TRUE]
  <2>2. /\ marked \in Message /\ marked.place = job[g].place /\ marked.raced
        /\ marked.endpoint = job[g].endpoint /\ marked.app = job[g].app
    BY <2>1 DEF Message
  <2>3. job'[g] = IF job[g].place \in gone THEN marked ELSE job[g]
    BY <1>1, <1>3
  <2> HIDE DEF marked
  <2> QED
    BY <2>1, <2>2, <2>3
<1>4. TypeOK'
  <2>1. ASSUME NEW g \in Handlers
        PROVE  /\ pc'[g] = "idle" => job'[g] = None
               /\ pc'[g] = "enqueue" => job'[g] \in Message
               /\ pc'[g] = "unregister" => job'[g] \in Unregistering
               /\ pc'[g] \in {"register", "reconcile", "prune"} => job'[g] \in Registering
    <3>1. CASE g = h
      BY <1>1, <3>1
    <3>2. CASE g # h /\ pc[g] = "enqueue"
      BY <1>1, <1>3, <3>2
    <3>3. CASE g # h /\ pc[g] # "enqueue"
      BY <1>1, <3>3 DEF IInv, TypeOK
    <3> QED
      BY <3>1, <3>2, <3>3
  <2>2. \A p \in Places : regs'[p] # None => regs'[p].key \notin Undecodable
    BY <1>2 DEF IInv, TypeOK
  <2> QED
    BY <1>1, <1>2, <2>1, <2>2 DEF Remove, counts, IInv, TypeOK
<1>5. EntriesChecked'
  BY <1>1 DEF IInv, EntriesChecked, Checked
<1>6. Faithful'
  <2>1. \A p \in Places : regs'[p] # None => GivenThen(regs'[p].endpoint, p, regs'[p].app)
    BY <1>2 DEF IInv, Faithful, GivenTo, GivenThen, Remove
  <2>2. \A m \in outbox' : GivenThen(m.endpoint, m.place, m.app)
    BY <1>2 DEF IInv, Faithful, GivenTo, GivenThen, Remove
  <2>3. \A g \in Handlers : pc'[g] = "enqueue" =>
          GivenThen(job'[g].endpoint, job'[g].place, job'[g].app)
    <3> SUFFICES ASSUME NEW g \in Handlers, pc'[g] = "enqueue"
                 PROVE  GivenThen(job'[g].endpoint, job'[g].place, job'[g].app)
      OBVIOUS
    <3>1. g # h /\ pc[g] = "enqueue"
      BY <1>1
    <3>2. GivenTo(job[g].endpoint, job[g].place, job[g].app)
      BY <3>1 DEF IInv, Faithful
    <3> QED
      BY <1>3, <3>1, <3>2 DEF GivenTo, GivenThen, Remove
  <2> QED
    BY <2>1, <2>2, <2>3 DEF Faithful, GivenTo, GivenThen
<1>7. OrphansRaced'
  <2> SUFFICES ASSUME NEW m \in outbox, m \notin rows, ~m.raced
               PROVE  regs'[m.place] # None /\ regs'[m.place].endpoint = m.endpoint
    BY <1>2 DEF OrphansRaced
  <2>1. m.place \in Places
    BY DEF IInv, TypeOK, Message
  <2>2. Live(m)
    BY DEF IInv, OrphansRaced, Live
  <2>3. m.place \notin gone
    BY <2>2
  <2> QED
    BY <1>2, <2>1, <2>2, <2>3 DEF Live
<1>8. UnderWay'
  <2> SUFFICES ASSUME NEW g \in Handlers, pc'[g] = "enqueue"
               PROVE  Live(job[g])' 
    BY DEF UnderWay, Live
  <2>1. g # h /\ pc[g] = "enqueue" /\ Live(job[g])
    BY <1>1 DEF IInv, UnderWay
  <2>2. CASE job[g].place \in gone
    BY <1>3, <2>1, <2>2 DEF Live
  <2>3. CASE job[g].place \notin gone
    <3>1. job'[g] = job[g] /\ job[g].place \in Places
      BY <1>3, <2>1, <2>3 DEF IInv, TypeOK, Message
    <3> QED
      BY <1>2, <2>1, <2>3, <3>1 DEF Live
  <2> QED
    BY <2>2, <2>3
<1> QED
  BY <1>4, <1>5, <1>6, <1>7, <1>8 DEF IInv

(* distributor_unregister, and the end of distributor_reconcile.                  *)
LEMMA RemovalIInv ==
  ASSUME IInv, NEW h \in Handlers, DeleteStale(h) \/ Unregister(h)
  PROVE  IInv'
<1>1. CASE DeleteStale(h)
  <2> DEFINE gone == Stale(job[h].install, job[h].retained)
  <2>1. gone \in SUBSET Places /\ Remove(h, gone, RowsOf(gone)) /\ pc[h] # "enqueue"
    BY <1>1 DEF DeleteStale, Stale
  <2>2. \A m \in outbox : m.place \in gone => m \in RowsOf(gone)
    BY DEF RowsOf
  <2> HIDE DEF gone
  <2> QED
    BY <2>1, <2>2, RemoveIInv
<1>2. CASE Unregister(h)
  <2> DEFINE e == job[h].entry
             gone == Unregistered(job[h].install, e)
             rows == {m \in RowsOf(gone) : m.app = e.app}
  <2>1. Remove(h, gone, rows) /\ pc[h] = "unregister"
    BY <1>2 DEF Unregister
  <2>2. job[h] \in Unregistering
    BY <2>1 DEF IInv, TypeOK
  <2>3. gone \in SUBSET Places /\ \A p \in gone : regs[p] # None /\ regs[p].app = e.app
    BY <2>2 DEF Unregistered, Unregistering, Entry, Places
  <2>4. ASSUME NEW m \in outbox, m.place \in gone, Live(m), ~m.raced
        PROVE  m \in rows
    <3>1. m.place \in Places /\ regs[m.place].endpoint = m.endpoint
      BY <2>3, <2>4 DEF Live
    <3>2. /\ GivenTo(m.endpoint, m.place, m.app)
          /\ GivenTo(m.endpoint, m.place, regs[m.place].app)
      BY <2>3, <2>4, <3>1 DEF IInv, Faithful
    <3>3. m.app = regs[m.place].app
      BY <3>2 DEF GivenTo
    <3> QED
      BY <2>3, <2>4, <3>3 DEF RowsOf
  <2> HIDE DEF gone, rows
  <2> QED
    BY <2>1, <2>3, <2>4, RemoveIInv
<1> QED
  BY <1>1, <1>2

(* unified_push_message: what is looked up is registered, whatever validate says; *)
(* what is inserted was registered when it was looked up.                         *)
LEMMA MessageIInv ==
  ASSUME IInv, NEW h \in Handlers, LookUp(h) \/ Enqueue(h)
  PROVE  IInv'
<1>1. CASE LookUp(h)
  <2>1. PICK p \in Places :
          /\ regs[p] # None
          /\ job' = [job EXCEPT ![h] =
               [place |-> p, app |-> regs[p].app, endpoint |-> regs[p].endpoint, raced |-> FALSE]]
    BY <1>1 DEF LookUp
  <2> DEFINE m == [place |-> p, app |-> regs[p].app, endpoint |-> regs[p].endpoint,
                   raced |-> FALSE]
  <2>2. regs[p] \in Row
    BY <2>1 DEF IInv, TypeOK
  <2>3. /\ m \in Message /\ m.place = p /\ m.app = regs[p].app
        /\ m.endpoint = regs[p].endpoint
    BY <2>2 DEF Row, Message
  <2>4. job' = [job EXCEPT ![h] = m]
    BY <2>1
  <2> HIDE DEF m
  <2>5. /\ pc' \in [Handlers -> Phase] /\ DOMAIN job' = Handlers
        /\ pc'[h] = "enqueue" /\ job'[h] = m
        /\ \A g \in Handlers : g # h => pc'[g] = pc[g] /\ job'[g] = job[g]
    BY <1>1, <2>4 DEF LookUp, IInv, TypeOK, Phase
  <2>6. UNCHANGED <<owner, regs, outbox, issued, issuedTo>> /\ requests' \in 0 .. MaxRequests
          /\ UNCHANGED faults
    BY <1>1 DEF LookUp, tables, IInv, TypeOK
  <2>7. GivenTo(m.endpoint, m.place, m.app)
    BY <2>1, <2>3 DEF IInv, Faithful
  <2>8. TypeOK'
    <3>1. ASSUME NEW g \in Handlers
          PROVE  /\ pc'[g] = "idle" => job'[g] = None
                 /\ pc'[g] = "enqueue" => job'[g] \in Message
                 /\ pc'[g] = "unregister" => job'[g] \in Unregistering
                 /\ pc'[g] \in {"register", "reconcile", "prune"} => job'[g] \in Registering
      <4>1. CASE g = h
        BY <2>3, <2>5, <4>1
      <4>2. CASE g # h
        BY <2>5, <4>2 DEF IInv, TypeOK
      <4> QED
        BY <4>1, <4>2
    <3> QED
      BY <2>5, <2>6, <3>1 DEF IInv, TypeOK
  <2>9. EntriesChecked'
    BY <2>5 DEF IInv, EntriesChecked, Checked
  <2>10. Faithful'
    BY <2>5, <2>6, <2>7 DEF IInv, Faithful, GivenTo
  <2>11. OrphansRaced'
    BY <2>6 DEF IInv, OrphansRaced
  <2>12. UnderWay'
    BY <2>1, <2>3, <2>5, <2>6 DEF IInv, UnderWay, Live
  <2> QED
    BY <2>8, <2>9, <2>10, <2>11, <2>12 DEF IInv
<1>2. CASE Enqueue(h)
  <2>1. /\ job[h] \in Message /\ Live(job[h])
        /\ GivenTo(job[h].endpoint, job[h].place, job[h].app)
    BY <1>2 DEF Enqueue, IInv, TypeOK, UnderWay, Faithful
  <2>2. /\ pc' \in [Handlers -> Phase] /\ DOMAIN job' = Handlers
        /\ pc'[h] = "idle" /\ job'[h] = None
        /\ \A g \in Handlers : g # h => pc'[g] = pc[g] /\ job'[g] = job[g]
    BY <1>2 DEF Enqueue, Finish, IInv, TypeOK, Phase
  <2>3. UNCHANGED <<owner, regs, issued, issuedTo, requests, faults>>
          /\ outbox' = outbox \cup {job[h]}
    BY <1>2 DEF Enqueue, counts
  <2>4. TypeOK'
    <3>1. ASSUME NEW g \in Handlers
          PROVE  /\ pc'[g] = "idle" => job'[g] = None
                 /\ pc'[g] = "enqueue" => job'[g] \in Message
                 /\ pc'[g] = "unregister" => job'[g] \in Unregistering
                 /\ pc'[g] \in {"register", "reconcile", "prune"} => job'[g] \in Registering
      <4>1. CASE g = h
        BY <2>2, <4>1
      <4>2. CASE g # h
        BY <2>2, <4>2 DEF IInv, TypeOK
      <4> QED
        BY <4>1, <4>2
    <3> QED
      BY <2>1, <2>2, <2>3, <3>1 DEF IInv, TypeOK
  <2>5. EntriesChecked'
    BY <2>2 DEF IInv, EntriesChecked, Checked
  <2>6. Faithful'
    BY <2>1, <2>2, <2>3 DEF IInv, Faithful, GivenTo
  <2>7. OrphansRaced'
    BY <2>1, <2>3 DEF IInv, OrphansRaced, Live
  <2>8. UnderWay'
    BY <2>2, <2>3 DEF IInv, UnderWay, Live
  <2> QED
    BY <2>4, <2>5, <2>6, <2>7, <2>8 DEF IInv
<1> QED
  BY <1>1, <1>2

(* A failed statement, a dropped handler and a crash leave no half of a step.     *)
LEMMA FaultIInv ==
  ASSUME IInv, Crash \/ \E h \in Handlers : Fail(h)
  PROVE  IInv'
<1>1. ASSUME NEW h \in Handlers, Fail(h) PROVE IInv'
  <2>1. requests' \in 0 .. MaxRequests /\ faults' \in 0 .. MaxFaults
    BY <1>1 DEF Fail, IInv, TypeOK
  <2>2. Finish(h) /\ UNCHANGED <<tables, issued, issuedTo>>
    BY <1>1 DEF Fail
  <2> QED
    BY <2>1, <2>2, FinishIInv
<1>2. CASE Crash
  <2>1. TypeOK'
    BY <1>2 DEF Crash, tables, IInv, TypeOK, Phase
  <2>2. EntriesChecked' /\ UnderWay'
    BY <1>2 DEF Crash, EntriesChecked, UnderWay
  <2>3. Faithful'
    BY <1>2 DEF Crash, tables, IInv, Faithful, GivenTo
  <2>4. OrphansRaced'
    BY <1>2 DEF Crash, tables, IInv, OrphansRaced
  <2> QED
    BY <2>1, <2>2, <2>3, <2>4 DEF IInv
<1> QED
  BY <1>1, <1>2

(* A row that the device acknowledges goes.                                       *)
LEMMA SettleIInv == IInv /\ Settle => IInv'
<1> SUFFICES ASSUME IInv, Settle PROVE IInv'
  OBVIOUS
<1>1. outbox' \subseteq outbox
        /\ UNCHANGED <<owner, regs, pc, job, issued, issuedTo, requests, faults>>
  BY DEF Settle, tasks, counts
<1>2. TypeOK'
  BY <1>1 DEF IInv, TypeOK
<1>3. EntriesChecked' /\ UnderWay'
  BY <1>1 DEF IInv, EntriesChecked, Checked, UnderWay, Live
<1>4. Faithful' /\ OrphansRaced'
  BY <1>1 DEF IInv, Faithful, GivenTo, OrphansRaced
<1> QED
  BY <1>2, <1>3, <1>4 DEF IInv

(* Nothing happens.                                                               *)
LEMMA StutterIInv == IInv /\ UNCHANGED vars => IInv'
<1> SUFFICES ASSUME IInv, UNCHANGED vars PROVE IInv'
  OBVIOUS
<1>1. UNCHANGED <<owner, regs, outbox, pc, job, issued, issuedTo, requests, faults>>
  BY DEF vars, tables, tasks, counts
<1> QED
  BY <1>1 DEF IInv, TypeOK, EntriesChecked, Checked, UnderWay, Live, Faithful, GivenTo, OrphansRaced

(* Every step keeps the invariant.                                                *)
LEMMA NextIInv == IInv /\ [Next]_vars => IInv'
<1> SUFFICES ASSUME IInv, [Next]_vars PROVE IInv'
  OBVIOUS
<1>1. CASE UNCHANGED vars
  BY <1>1, StutterIInv
<1>2. ASSUME NEW h \in Handlers,
             ReceiveRegister(h) \/ ReceiveReconcile(h) \/ ReceiveUnregister(h)
      PROVE  IInv'
  BY <1>2, ReceiveIInv
<1>3. ASSUME NEW h \in Handlers, Register(h) \/ ReconcileEntry(h) PROVE IInv'
  BY <1>3, RegisterIInv
<1>4. ASSUME NEW h \in Handlers, DeleteStale(h) \/ Unregister(h) PROVE IInv'
  BY <1>4, RemovalIInv
<1>5. ASSUME NEW h \in Handlers, LookUp(h) \/ Enqueue(h) PROVE IInv'
  BY <1>5, MessageIInv
<1>6. ASSUME Crash \/ \E h \in Handlers : Fail(h) PROVE IInv'
  BY <1>6, FaultIInv
<1>7. CASE Settle
  BY <1>7, SettleIInv
<1> QED
  BY <1>1, <1>2, <1>3, <1>4, <1>5, <1>6, <1>7 DEF Next

(* The invariant holds throughout.                                                *)
LEMMA Invariant == Spec => []IInv
BY InitIInv, NextIInv, PTL DEF Spec

(* The tables and the handlers keep their types; in particular no key that the    *)
(* decoder refuses is ever stored (distributor_register, distributor_reconcile).  *)
THEOREM TypeCorrect == Spec => []TypeOK
<1>1. IInv => TypeOK
  BY DEF IInv
<1> QED
  BY <1>1, Invariant, PTL

(* Whoever was given an endpoint gets what is posted to it, and nobody else       *)
(* (register_unified_push, unified_push_message).                                 *)
THEOREM EndpointsFaithful == Spec => []Faithful
<1>1. IInv => Faithful
  BY DEF IInv
<1> QED
  BY <1>1, Invariant, PTL

(* Only a message that was under way when its registration went leaves a row that *)
(* belongs to nobody (unregister_unified_push, reconcile).                        *)
THEOREM OnlyRacesOrphan == Spec => []OrphansRaced
<1>1. IInv => OrphansRaced
  BY DEF IInv
<1> QED
  BY <1>1, Invariant, PTL

(* validate accepts a header exactly if it is authorised for the key of the       *)
(* registration, at every reading of a clock of 64 bits and for every exp         *)
(* (vapid.rs).                                                                    *)
THEOREM ValidationExact == Spec => []AcceptsExactly
<1>1. IInv => AcceptsExactly
  <2> SUFFICES ASSUME IInv, NEW p \in Places, regs[p] # None, regs[p].key # None,
                      NEW header \in Headers, NEW now \in Clock
               PROVE  Validate(header, regs[p].key, now) = "accepted"
                        <=> Authorised(header, regs[p].key, now)
    BY DEF AcceptsExactly
  <2>1. regs[p].key \in Keys
    BY DEF IInv, TypeOK, Row
  <2>2. header \in Header /\ now \in 0 .. U64_MAX
    OBVIOUS
  <2> QED
    BY <2>1, <2>2, ValidateSound
<1> QED
  BY <1>1, Invariant, PTL

-------------------------------------------------------------------------------
(* distributor_reconcile.  A reconcile that has the install to itself is half     *)
(* done: what it has still to register was listed, and at each token              *)
Left(j) == {j.entries[n] : n \in DOMAIN j.entries}

Sent(j, t) == {e \in j.listed : e.token = t}

Matches(e, row) == e.app = row.app /\ e.key = row.key

(* - what was registered is so still, with its application and endpoint;          *)
(* - what was not belongs to an application that was listed with the token;       *)
(* - the registration is as it was, or as it was listed;                          *)
(* - whoever listed it is still to come, or was answered: with a conflict, or     *)
(*   with a registration that has the key of this or of a later one.              *)
Due(j, t, left, is) ==
  LET was == j.before[<<j.install, t>>]
  IN  /\ was # None => is # None /\ is.app = was.app /\ is.endpoint = was.endpoint
      /\ is # None /\ was = None => \E e \in Sent(j, t) : e.app = is.app
      /\ is # None => is = was \/ \E e \in Sent(j, t) : Matches(e, is)
      /\ \A e \in Sent(j, t) :
           \/ e \in left
           \/ is # None /\ (is.app = e.app => \E f \in Sent(j, t) : Matches(f, is))

HalfDone(j, table) ==
  /\ j.retained = {e.token : e \in j.listed}
  /\ Left(j) \subseteq j.listed
  /\ \A t \in Tokens : Due(j, t, Left(j), table[<<j.install, t>>])

Reconciling(h) == pc[h] \in {"reconcile", "prune"} /\ job[h].alone

Sole(h) ==
  /\ Writers(job[h].install) = {h}
  /\ pc[h] = "prune" => job[h].entries = <<>>
  /\ HalfDone(job[h], regs)

AloneInv == \A h \in Handlers : Reconciling(h) => Sole(h)

(* One registration of a listed entry, seen at its token.                         *)
LEMMA DueStep ==
  ASSUME NEW j, NEW t, NEW left, NEW rest, NEW is, NEW then, NEW e \in Sent(j, t),
         Due(j, t, left, is), left = rest \cup {e}, then # None,
         \/ is # None /\ is.app = e.app /\ then.app = is.app /\ then.endpoint = is.endpoint
              /\ then.key = e.key
         \/ is # None /\ is.app # e.app /\ then = is
         \/ is = None /\ then.app = e.app /\ then.key = e.key
  PROVE  Due(j, t, rest, then)
<1> DEFINE was == j.before[<<j.install, t>>]
<1> HIDE DEF was
<1>1. /\ was # None => is # None /\ is.app = was.app /\ is.endpoint = was.endpoint
      /\ is # None /\ was = None => \E f \in Sent(j, t) : f.app = is.app
      /\ is # None => is = was \/ \E f \in Sent(j, t) : Matches(f, is)
      /\ \A f \in Sent(j, t) :
           \/ f \in left
           \/ is # None /\ (is.app = f.app => \E g \in Sent(j, t) : Matches(g, is))
  BY DEF Due, was
<1>2. was # None => then.app = was.app /\ then.endpoint = was.endpoint
  BY <1>1
<1>3. was = None => \E f \in Sent(j, t) : f.app = then.app
  BY <1>1
<1>4. (then = is /\ is.app # e.app) \/ Matches(e, then)
  BY DEF Matches
<1>5. then = was \/ \E f \in Sent(j, t) : Matches(f, then)
  BY <1>1, <1>4
<1>6. ASSUME NEW f \in Sent(j, t), f \notin rest, then.app = f.app
      PROVE  \E g \in Sent(j, t) : Matches(g, then)
  BY <1>1, <1>4, <1>6
<1> QED
  BY <1>2, <1>3, <1>5, <1>6 DEF Due, was

(* At the other tokens the same registration changes nothing.                     *)
LEMMA DueElsewhere ==
  ASSUME NEW j, NEW t, NEW left, NEW rest, NEW is, NEW e,
         Due(j, t, left, is), left = rest \cup {e}, e.token # t
  PROVE  Due(j, t, rest, is)
<1>1. \A f \in Sent(j, t) : f \in left => f \in rest
  BY DEF Sent
<1> QED
  BY <1>1 DEF Due

(* A step of one handler that writes only registrations of its own install.       *)
OwnStep(h) ==
  /\ \A g \in Handlers : g # h =>
       pc'[g] = pc[g] /\ (pc[g] # "enqueue" => job'[g] = job[g])
  /\ \/ pc'[h] \in {"idle", "enqueue"}
     \/ h \in Writers(job[h].install) /\ job'[h].install = job[h].install
  /\ \A p \in Places : regs'[p] = regs[p] \/ h \in Writers(p[1])

(* It leaves the reconciles of the others to themselves.                          *)
LEMMA OthersSole ==
  ASSUME IInv, AloneInv, NEW h \in Handlers, OwnStep(h),
         NEW g \in Handlers, g # h, Reconciling(g)'
  PROVE  Sole(g)'
<1> USE DEF OwnStep
<1>1. Reconciling(g) /\ Sole(g) /\ pc'[g] = pc[g] /\ job'[g] = job[g]
        /\ job[g].install \in Installs
  BY DEF Reconciling, AloneInv, IInv, TypeOK, Registering
<1> DEFINE i == job[g].install
<1>2. Writers(i) = {g}
  BY <1>1 DEF Sole
<1>3. \A k \in Handlers :
        (pc'[k] \in {"register", "reconcile", "prune", "unregister"} /\ job'[k].install = i)
          <=> k = g
  <2> SUFFICES ASSUME NEW k \in Handlers
               PROVE  (/\ pc'[k] \in {"register", "reconcile", "prune", "unregister"}
                       /\ job'[k].install = i) <=> k = g
    OBVIOUS
  <2>1. CASE k # h
    BY <1>2, <2>1 DEF Writers
  <2>2. CASE k = h
    BY <1>2, <2>2 DEF Writers
  <2> QED
    BY <2>1, <2>2
<1>4. \A t \in Tokens : regs'[<<i, t>>] = regs[<<i, t>>]
  <2> SUFFICES ASSUME NEW t \in Tokens PROVE regs'[<<i, t>>] = regs[<<i, t>>]
    OBVIOUS
  <2>1. <<i, t>> \in Places /\ <<i, t>>[1] = i
    BY <1>1 DEF Places
  <2> QED
    BY <1>2, <2>1
<1>5. HalfDone(job[g], regs)
  BY <1>1 DEF Sole
<1>6. HalfDone(job[g], regs')
  BY <1>4, <1>5 DEF HalfDone
<1>7. Writers(job[g].install)' = {g}
  BY <1>1, <1>3 DEF Writers
<1> QED
  BY <1>1, <1>6, <1>7 DEF Sole

(* Whatever ends a handler, or makes it one that only reads registrations.        *)
LEMMA DoneAlone ==
  ASSUME IInv, AloneInv, NEW h \in Handlers, OwnStep(h), pc'[h] \in {"idle", "enqueue"}
  PROVE  AloneInv'
<1> SUFFICES ASSUME NEW g \in Handlers, Reconciling(g)' PROVE Sole(g)'
  BY DEF AloneInv
<1>1. g # h
  BY DEF Reconciling
<1> QED
  BY <1>1, OthersSole

(* Who arrives tells the others, and is alone only if there are none.             *)
LEMMA ArriveAlone ==
  ASSUME IInv, AloneInv, NEW h \in Handlers, NEW i \in Installs, NEW j, j.install = i,
         NEW phase \in {"register", "reconcile", "prune", "unregister"},
         Arrive(h, phase, i, j),
         phase \in {"reconcile", "prune"} /\ j.alone =>
           Writers(i) = {} /\ HalfDone(j, regs) /\ (phase = "prune" => j.entries = <<>>)
  PROVE  AloneInv'
<1> SUFFICES ASSUME NEW g \in Handlers, Reconciling(g)' PROVE Sole(g)'
  BY DEF AloneInv
<1>1. /\ \A k \in Handlers : k # h => pc'[k] = pc[k] /\ job'[k] = Disturbed(i)[k]
      /\ pc[h] = "idle" /\ pc'[h] = phase /\ job'[h] = j /\ regs' = regs
  BY DEF Arrive, IInv, TypeOK, Disturbed
<1>2. \A k \in Handlers : k \notin Writers(i) => Disturbed(i)[k] = job[k]
  BY DEF Disturbed
<1>3. ASSUME NEW k \in Handlers, k \in Writers(i), pc[k] # "unregister"
      PROVE  Disturbed(i)[k].install = i /\ ~Disturbed(i)[k].alone
  <2>1. job[k] \in Registering /\ job[k].install = i
    BY <1>3 DEF Writers, IInv, TypeOK
  <2>2. Disturbed(i)[k] = [job[k] EXCEPT !.alone = FALSE]
    BY <1>3 DEF Disturbed
  <2> QED
    BY <2>1, <2>2 DEF Registering
<1>4. CASE g = h
  <2>1. phase \in {"reconcile", "prune"} /\ j.alone
    BY <1>1, <1>4 DEF Reconciling
  <2>2. \A k \in Handlers : k # h => pc'[k] = pc[k] /\ job'[k] = job[k]
    BY <1>1, <1>2, <2>1
  <2>3. Writers(i)' = {h}
    BY <1>1, <2>1, <2>2 DEF Writers
  <2>4. HalfDone(j, regs')
    BY <1>1, <2>1
  <2> QED
    BY <1>1, <1>4, <2>1, <2>3, <2>4 DEF Sole, Writers
<1>5. CASE g # h
  <2>1. g \notin Writers(i)
    BY <1>1, <1>3, <1>5 DEF Reconciling
  <2>2. Reconciling(g) /\ Sole(g) /\ pc'[g] = pc[g] /\ job'[g] = job[g]
    BY <1>1, <1>2, <1>5, <2>1 DEF Reconciling, AloneInv
  <2>3. job[g].install # i
    BY <2>1, <2>2 DEF Reconciling, Writers
  <2>4. ASSUME NEW k \in Handlers
        PROVE  (/\ pc'[k] \in {"register", "reconcile", "prune", "unregister"}
                /\ job'[k].install = job[g].install) <=> k = g
    <3>1. Writers(job[g].install) = {g}
      BY <2>2 DEF Sole
    <3>2. CASE k = h
      BY <1>1, <1>5, <2>3, <3>2
    <3>3. CASE k # h /\ k \notin Writers(i)
      BY <1>1, <1>2, <3>1, <3>3 DEF Writers
    <3>4. CASE k # h /\ k \in Writers(i) /\ pc[k] # "unregister"
      BY <1>1, <1>3, <2>1, <2>3, <3>4
    <3>5. CASE k # h /\ k \in Writers(i) /\ pc[k] = "unregister"
      <4>1. job'[k] = job[k] /\ job[k].install = i
        BY <1>1, <3>5 DEF Disturbed, Writers
      <4> QED
        BY <2>1, <2>3, <3>5, <4>1
    <3> QED
      BY <3>2, <3>3, <3>4, <3>5
  <2>5. Writers(job[g].install)' = {g}
    BY <2>2, <2>4 DEF Writers
  <2>6. HalfDone(job[g], regs')
    BY <1>1, <2>2 DEF Sole
  <2> QED
    BY <2>2, <2>5, <2>6 DEF Sole
<1> QED
  BY <1>4, <1>5

(* The three requests that write registrations.                                   *)
LEMMA ReceiveAlone ==
  ASSUME IInv, AloneInv, NEW h \in Handlers,
         ReceiveRegister(h) \/ ReceiveReconcile(h) \/ ReceiveUnregister(h)
  PROVE  AloneInv'
<1>1. CASE ReceiveRegister(h)
  <2>1. PICK i \in Installs, e \in Entries : Arrive(h, "register", i, Starting(i, <<e>>))
    BY <1>1 DEF ReceiveRegister
  <2>2. Starting(i, <<e>>).install = i
    BY DEF Starting
  <2> QED
    BY <2>1, <2>2, ArriveAlone
<1>2. CASE ReceiveReconcile(h)
  <2>1. PICK i \in Installs, n \in 0 .. MAX_RECONCILE : \E entries \in [1 .. n -> Entries] :
          Arrive(h, IF n = 0 THEN "prune" ELSE "reconcile", i, Starting(i, entries))
    BY <1>2 DEF ReceiveReconcile
  <2>2. PICK entries \in [1 .. n -> Entries] :
          Arrive(h, IF n = 0 THEN "prune" ELSE "reconcile", i, Starting(i, entries))
    BY <2>1
  <2> DEFINE j == Starting(i, entries)
             phase == IF n = 0 THEN "prune" ELSE "reconcile"
  <2>3. /\ j.install = i /\ j.entries = entries /\ j.before = regs
        /\ j.retained = {entries[m].token : m \in DOMAIN entries}
        /\ j.listed = {entries[m] : m \in DOMAIN entries}
        /\ j.alone = (Writers(i) = {})
    BY DEF Starting
  <2> HIDE DEF j
  <2>4. Left(j) = j.listed
    BY <2>3 DEF Left
  <2>5. j.retained = {e.token : e \in j.listed}
    BY <2>3
  <2>6. ASSUME NEW t \in Tokens PROVE Due(j, t, j.listed, regs[<<j.install, t>>])
    BY <2>3 DEF Due, Sent
  <2>7. HalfDone(j, regs)
    BY <2>4, <2>5, <2>6 DEF HalfDone
  <2>8. phase = "prune" => j.entries = <<>>
    BY <2>3
  <2>9. Arrive(h, phase, i, j)
    BY <2>2 DEF j
  <2>10. phase \in {"register", "reconcile", "prune", "unregister"}
    OBVIOUS
  <2>11. phase \in {"reconcile", "prune"} /\ j.alone =>
           Writers(i) = {} /\ HalfDone(j, regs) /\ (phase = "prune" => j.entries = <<>>)
    BY <2>3, <2>7, <2>8, Zenon
  <2>12. j.install = i
    BY <2>3
  <2> HIDE DEF phase
  <2> QED
    BY <2>9, <2>10, <2>11, <2>12, ArriveAlone
<1>3. CASE ReceiveUnregister(h)
  <2>1. PICK i \in Installs, e \in Entries :
          Arrive(h, "unregister", i, [install |-> i, entry |-> [e EXCEPT !.key = None]])
    BY <1>3 DEF ReceiveUnregister
  <2> QED
    BY <2>1, ArriveAlone
<1> QED
  BY <1>1, <1>2, <1>3

(* What one registration writes: the row of its own token, as DueStep has it.     *)
LEMMA RegisterWrites ==
  ASSUME IInv, NEW j, j.install \in Installs, NEW e \in Entry, RegisterUnifiedPush(j, e)
  PROVE  LET q == <<j.install, e.token>>
             is == regs[q]
             then == regs'[q]
         IN  /\ \A p \in Places : p # q => regs'[p] = regs[p]
             /\ then # None
             /\ \/ is # None /\ is.app = e.app /\ then.app = is.app
                     /\ then.endpoint = is.endpoint /\ then.key = e.key
                \/ is # None /\ is.app # e.app /\ then = is
                \/ is = None /\ then.app = e.app /\ then.key = e.key
<1> DEFINE q == <<j.install, e.token>>
<1>1. q \in Places /\ regs \in [Places -> Row \cup {None}] /\ issued \in Nat
  BY DEF Places, Entry, IInv, TypeOK
<1>2. e.app \in Apps /\ e.key \in Keys \cup {None}
  BY DEF Entry
<1>3. CASE regs[q] # None /\ regs[q].app = e.app
             /\ regs' = [regs EXCEPT ![q] = [@ EXCEPT !.key = e.key]]
  <2> DEFINE new == [regs[q] EXCEPT !.key = e.key]
  <2>1. regs[q] \in Row
    BY <1>1, <1>3
  <2>2. new \in Row /\ new.app = regs[q].app /\ new.endpoint = regs[q].endpoint
          /\ new.key = e.key
    BY <1>2, <2>1 DEF Row
  <2>3. regs' = [regs EXCEPT ![q] = new]
    BY <1>3
  <2> HIDE DEF new
  <2>4. regs'[q] = new /\ \A p \in Places : p # q => regs'[p] = regs[p]
    BY <1>1, <2>3
  <2>5. new # None
    BY <2>2 DEF Row
  <2> QED
    BY <1>3, <2>2, <2>4, <2>5
<1>4. CASE regs[q] # None /\ regs[q].app # e.app /\ UNCHANGED regs
  BY <1>4
<1>5. CASE regs[q] = None /\ issued < MaxEndpoints /\ regs' = [regs EXCEPT ![q] =
             [app |-> e.app, endpoint |-> issued + 1, key |-> e.key]]
  <2> DEFINE new == [app |-> e.app, endpoint |-> issued + 1, key |-> e.key]
  <2>1. new.app = e.app /\ new.key = e.key
    OBVIOUS
  <2>2. new # None
    <3>1. issued + 1 \in Nat
      BY <1>1
    <3>2. new \in [app: Apps, endpoint: Nat, key: Keys \cup {None}]
      BY <1>2, <3>1
    <3> QED
      BY <3>2
  <2>3. regs' = [regs EXCEPT ![q] = new]
    BY <1>5
  <2> HIDE DEF new
  <2>4. regs'[q] = new /\ \A p \in Places : p # q => regs'[p] = regs[p]
    BY <1>1, <2>3
  <2> QED
    BY <1>5, <2>1, <2>2, <2>4
<1> QED
  BY <1>3, <1>4, <1>5 DEF RegisterUnifiedPush
(* Head and tail hold what the whole sequence holds.                              *)
LEMMA TailValues ==
  ASSUME NEW S, NEW s \in Seq(S), s # <<>>
  PROVE  /\ {s[n] : n \in DOMAIN s} = {Tail(s)[n] : n \in DOMAIN Tail(s)} \cup {Head(s)}
         /\ Len(s) = 1 => Tail(s) = <<>>
<1> DEFINE rest == Tail(s)
<1>1. /\ Len(s) \in Nat /\ Len(s) > 0 /\ DOMAIN s = 1 .. Len(s) /\ Head(s) = s[1]
      /\ rest \in Seq(S) /\ Len(rest) = Len(s) - 1
      /\ \A n \in 1 .. Len(rest) : rest[n] = s[n + 1]
  BY HeadTailProperties, EmptySeq, LenProperties
<1>2. DOMAIN rest = 1 .. Len(rest)
  BY <1>1, LenProperties
<1> HIDE DEF rest
<1>3. ASSUME NEW n \in DOMAIN s PROVE n = 1 \/ \E m \in DOMAIN rest : rest[m] = s[n]
  <2>1. n = 1 \/ (n - 1 \in 1 .. Len(rest) /\ (n - 1) + 1 = n)
    BY <1>1
  <2> QED
    BY <1>1, <1>2, <2>1
<1>4. ASSUME NEW n \in DOMAIN rest PROVE \E m \in DOMAIN s : s[m] = rest[n]
  <2>1. n + 1 \in 1 .. Len(s) /\ rest[n] = s[n + 1]
    BY <1>1, <1>2
  <2> QED
    BY <1>1, <2>1
<1>5. 1 \in DOMAIN s
  BY <1>1
<1>6. {s[n] : n \in DOMAIN s} = {rest[n] : n \in DOMAIN rest} \cup {Head(s)}
  <2>1. Head(s) \in {s[n] : n \in DOMAIN s}
    BY <1>1, <1>5
  <2>2. \A x \in {s[n] : n \in DOMAIN s} :
          x = Head(s) \/ x \in {rest[n] : n \in DOMAIN rest}
    BY <1>1, <1>3
  <2>3. \A x \in {rest[n] : n \in DOMAIN rest} : x \in {s[n] : n \in DOMAIN s}
    BY <1>4
  <2> QED
    BY <2>1, <2>2, <2>3
<1>7. Len(s) = 1 => rest = <<>>
  BY <1>1, EmptySeq
<1> QED
  BY <1>6, <1>7 DEF rest

(* distributor_register, and one entry of distributor_reconcile.                  *)
LEMMA RegisterAlone ==
  ASSUME IInv, AloneInv, NEW h \in Handlers, Register(h) \/ ReconcileEntry(h)
  PROVE  AloneInv'
<1> DEFINE j == job[h]
           e == Head(j.entries)
           i == j.install
<1>1. /\ pc[h] \in {"register", "reconcile"} /\ RegisterUnifiedPush(j, e)
      /\ j \in Registering /\ Checked(j)
  BY DEF Register, ReconcileEntry, IInv, TypeOK, EntriesChecked
<1>2. /\ j.entries \in Seq(Entry) /\ j.entries # <<>> /\ i \in Installs
      /\ e \in Entry /\ e = j.entries[1] /\ 1 \in DOMAIN j.entries
  BY <1>1 DEF Registering, Checked
<1> DEFINE q == <<i, e.token>>
<1>3. /\ \A p \in Places : p # q => regs'[p] = regs[p]
      /\ regs'[q] # None
      /\ \/ regs[q] # None /\ regs[q].app = e.app /\ regs'[q].app = regs[q].app
              /\ regs'[q].endpoint = regs[q].endpoint /\ regs'[q].key = e.key
         \/ regs[q] # None /\ regs[q].app # e.app /\ regs'[q] = regs[q]
         \/ regs[q] = None /\ regs'[q].app = e.app /\ regs'[q].key = e.key
  <2> HIDE DEF e, j
  <2> QED
    BY <1>1, <1>2, RegisterWrites
<1>4. h \in Writers(i)
  BY <1>1 DEF Writers
<1>5. \A p \in Places : regs'[p] = regs[p] \/ h \in Writers(p[1])
  <2> SUFFICES ASSUME NEW p \in Places, p = q PROVE h \in Writers(p[1])
    BY <1>3
  <2>1. p[1] = i
    OBVIOUS
  <2> QED
    BY <1>4, <2>1
<1>6. CASE Register(h)
  <2>1. /\ pc'[h] = "idle"
        /\ \A g \in Handlers : g # h => pc'[g] = pc[g] /\ job'[g] = job[g]
    BY <1>6 DEF Register, Finish, IInv, TypeOK
  <2>2. OwnStep(h)
    BY <1>5, <2>1 DEF OwnStep
  <2> QED
    BY <2>1, <2>2, DoneAlone
<1>7. CASE ReconcileEntry(h)
  <2> DEFINE new == [j EXCEPT !.entries = Tail(j.entries)]
  <2>1. /\ new.install = i /\ new.entries = Tail(j.entries) /\ new.retained = j.retained
        /\ new.listed = j.listed /\ new.before = j.before /\ new.alone = j.alone
    BY <1>1 DEF Registering
  <2>2. job' = [job EXCEPT ![h] = new]
          /\ pc' = [pc EXCEPT ![h] = IF Len(j.entries) = 1 THEN "prune" ELSE "reconcile"]
    BY <1>7 DEF ReconcileEntry
  <2> HIDE DEF new
  <2>3. /\ job'[h] = new /\ pc'[h] = (IF Len(j.entries) = 1 THEN "prune" ELSE "reconcile")
        /\ \A g \in Handlers : g # h => pc'[g] = pc[g] /\ job'[g] = job[g]
    BY <2>2 DEF IInv, TypeOK
  <2>4. OwnStep(h)
    BY <1>4, <1>5, <2>1, <2>3 DEF OwnStep
  <2>5. ASSUME Reconciling(h)'
        PROVE  Sole(h)'
    <3>1. Sole(h)
      <4>1. pc[h] = "reconcile"
        BY <1>7 DEF ReconcileEntry
      <4>2. job[h].alone
        BY <2>1, <2>3, <2>5 DEF Reconciling
      <4> QED
        BY <4>1, <4>2 DEF AloneInv, Reconciling
    <3>2. Writers(i)' = {h}
      <4>1. Writers(i) = {h}
        BY <3>1 DEF Sole
      <4>2. \A g \in Handlers :
              (pc'[g] \in {"register", "reconcile", "prune", "unregister"} /\ job'[g].install = i)
                <=> g = h
        BY <2>1, <2>3, <4>1 DEF Writers
      <4> QED
        BY <4>2 DEF Writers
    <3>3. Left(j) = Left(new) \cup {e}
      <4> DEFINE s == j.entries
      <4> HIDE DEF s
      <4>1. s \in Seq(Entry) /\ s # <<>>
        BY <1>2 DEF s
      <4>2. {s[n] : n \in DOMAIN s} = {Tail(s)[n] : n \in DOMAIN Tail(s)} \cup {Head(s)}
        BY <4>1, TailValues
      <4> QED
        BY <2>1, <4>2 DEF Left, s
    <3>4. HalfDone(j, regs)
      BY <3>1 DEF Sole
    <3>5. e \in Sent(j, e.token)
      BY <3>3, <3>4 DEF HalfDone, Sent
    <3>6. ASSUME NEW t \in Tokens
          PROVE  Due(j, t, Left(new), regs'[<<i, t>>])
      <4>1. Due(j, t, Left(j), regs[<<i, t>>])
        BY <3>4 DEF HalfDone
      <4> DEFINE is == regs[<<i, t>>]
                 then == regs'[<<i, t>>]
      <4>2. CASE t = e.token
        <5>1. /\ then # None
              /\ \/ is # None /\ is.app = e.app /\ then.app = is.app
                      /\ then.endpoint = is.endpoint /\ then.key = e.key
                 \/ is # None /\ is.app # e.app /\ then = is
                 \/ is = None /\ then.app = e.app /\ then.key = e.key
          BY <1>3, <4>2
        <5>2. e \in Sent(j, t)
          BY <3>5, <4>2
        <5> HIDE DEF is, then, e, j
        <5> QED
          BY <3>3, <4>1, <5>1, <5>2, DueStep DEF is, then
      <4>3. CASE t # e.token
        <5>1. then = is
          <6>1. <<i, t>> \in Places /\ <<i, t>> # q
            BY <1>2, <4>3 DEF Places
          <6> QED
            BY <1>3, <6>1
        <5>2. Due(j, t, Left(j), is)
          BY <4>1
        <5> HIDE DEF is, then, e, j
        <5>3. Due(j, t, Left(new), is)
          BY <3>3, <4>3, <5>2, DueElsewhere
        <5> QED
          BY <5>1, <5>3 DEF then
      <4> QED
        BY <4>2, <4>3
    <3>7. HalfDone(new, regs')
      <4>1. ASSUME NEW t \in Tokens
            PROVE  Due(new, t, Left(new), regs'[<<new.install, t>>])
        <5> DEFINE left == Left(new)
                   then == regs'[<<i, t>>]
        <5>1. Due(j, t, left, then)
          BY <3>6
        <5>2. Sent(new, t) = Sent(j, t)
          BY <2>1 DEF Sent
        <5> HIDE DEF left, then, j, i
        <5>3. Due(new, t, left, then)
          BY <2>1, <5>1, <5>2 DEF Due, i
        <5> QED
          BY <2>1, <5>3 DEF left, then
      <4>2. new.retained = {f.token : f \in new.listed} /\ Left(new) \subseteq new.listed
        BY <2>1, <3>3, <3>4 DEF HalfDone
      <4> QED
        BY <4>1, <4>2 DEF HalfDone
    <3>8. pc'[h] = "prune" => new.entries = <<>>
      <4>1. Len(j.entries) = 1 => Tail(j.entries) = <<>>
        BY <1>2, TailValues
      <4> QED
        BY <2>1, <2>3, <4>1
    <3> QED
      BY <2>1, <2>3, <3>2, <3>7, <3>8 DEF Sole, Writers
  <2> QED
    <3> SUFFICES ASSUME NEW g \in Handlers, Reconciling(g)' PROVE Sole(g)'
      BY DEF AloneInv
    <3>1. CASE g = h
      BY <2>5, <3>1 DEF Reconciling, Sole, Writers
    <3>2. CASE g # h
      BY <2>4, <3>2, OthersSole
    <3> QED
      BY <3>1, <3>2
<1> QED
  BY <1>6, <1>7

(* distributor_unregister, and the end of distributor_reconcile.                  *)
LEMMA RemovalAlone ==
  ASSUME IInv, AloneInv, NEW h \in Handlers, DeleteStale(h) \/ Unregister(h)
  PROVE  AloneInv'
<1>1. PICK gone \in SUBSET Places :
        (\E rows : Remove(h, gone, rows)) /\ \A p \in gone : h \in Writers(p[1])
  <2>1. CASE DeleteStale(h)
    <3> DEFINE gone == Stale(job[h].install, job[h].retained)
    <3>1. gone \in SUBSET Places /\ Remove(h, gone, RowsOf(gone)) /\ pc[h] = "prune"
      BY <2>1 DEF DeleteStale, Stale
    <3>2. \A p \in gone : h \in Writers(p[1])
      BY <3>1 DEF Stale, Writers
    <3> HIDE DEF gone
    <3> QED
      BY <3>1, <3>2
  <2>2. CASE Unregister(h)
    <3> DEFINE gone == Unregistered(job[h].install, job[h].entry)
               rows == {m \in RowsOf(gone) : m.app = job[h].entry.app}
    <3>1. Remove(h, gone, rows) /\ pc[h] = "unregister"
      BY <2>2 DEF Unregister
    <3>2. job[h] \in Unregistering
      BY <3>1 DEF IInv, TypeOK
    <3>3. gone \in SUBSET Places /\ \A p \in gone : p[1] = job[h].install
      BY <3>2 DEF Unregistered, Unregistering, Entry, Places
    <3>4. \A p \in gone : h \in Writers(p[1])
      BY <3>1, <3>3 DEF Writers
    <3> HIDE DEF gone, rows
    <3> QED
      BY <3>1, <3>3, <3>4
  <2> QED
    BY <2>1, <2>2
<1>2. pc'[h] = "idle"
        /\ \A g \in Handlers : g # h =>
             pc'[g] = pc[g] /\ (pc[g] # "enqueue" => job'[g] = job[g])
  BY <1>1 DEF Remove, IInv, TypeOK
<1>3. \A p \in Places : regs'[p] = regs[p] \/ h \in Writers(p[1])
  BY <1>1 DEF Remove
<1> QED
  BY <1>2, <1>3, DoneAlone DEF OwnStep

(* unified_push_message, faults, acknowledgements and nothing.                    *)
LEMMA OtherAlone ==
  ASSUME IInv, AloneInv,
         \/ \E h \in Handlers : LookUp(h) \/ Enqueue(h) \/ Fail(h)
         \/ Settle \/ Crash \/ UNCHANGED vars
  PROVE  AloneInv'
<1>1. ASSUME NEW h \in Handlers, LookUp(h) \/ Enqueue(h) \/ Fail(h)
      PROVE  AloneInv'
  <2>1. /\ pc'[h] \in {"idle", "enqueue"} /\ regs' = regs
        /\ \A g \in Handlers : g # h => pc'[g] = pc[g] /\ job'[g] = job[g]
    BY <1>1 DEF LookUp, Enqueue, Fail, Finish, tables, IInv, TypeOK
  <2>2. OwnStep(h)
    BY <2>1 DEF OwnStep
  <2> QED
    BY <2>1, <2>2, DoneAlone
<1>2. CASE Crash
  BY <1>2 DEF Crash, AloneInv, Reconciling
<1>3. CASE Settle \/ UNCHANGED vars
  <2>1. UNCHANGED <<pc, job, regs>>
    BY <1>3 DEF Settle, vars, tables, tasks
  <2> QED
    BY <2>1 DEF AloneInv, Reconciling, Sole, Writers
<1> QED
  BY <1>1, <1>2, <1>3

(* AloneInv is inductive beside IInv.                                             *)
LEMMA AloneInvariant == Spec => [](IInv /\ AloneInv)
<1>1. Init => AloneInv
  BY DEF Init, AloneInv, Reconciling
<1>2. IInv /\ AloneInv /\ [Next]_vars => AloneInv'
  <2> SUFFICES ASSUME IInv, AloneInv, [Next]_vars PROVE AloneInv'
    OBVIOUS
  <2>1. ASSUME NEW h \in Handlers,
               ReceiveRegister(h) \/ ReceiveReconcile(h) \/ ReceiveUnregister(h)
        PROVE  AloneInv'
    BY <2>1, ReceiveAlone
  <2>2. ASSUME NEW h \in Handlers, Register(h) \/ ReconcileEntry(h) PROVE AloneInv'
    BY <2>2, RegisterAlone
  <2>3. ASSUME NEW h \in Handlers, DeleteStale(h) \/ Unregister(h) PROVE AloneInv'
    BY <2>3, RemovalAlone
  <2>4. ASSUME \/ \E h \in Handlers : LookUp(h) \/ Enqueue(h) \/ Fail(h)
               \/ Settle \/ Crash \/ UNCHANGED vars
        PROVE  AloneInv'
    BY <2>4, OtherAlone
  <2> QED
    BY <2>1, <2>2, <2>3, <2>4 DEF Next
<1> QED
  BY <1>1, <1>2, InitIInv, NextIInv, PTL DEF Spec

(* What half done comes to once the last entry is in and the rest is pruned.      *)
LEMMA PruneConverges ==
  ASSUME IInv, NEW h \in Handlers, Reconciling(h), Sole(h), DeleteStale(h)
  PROVE  Converged(job[h])
<1> DEFINE j == job[h]
           i == j.install
<1>1. pc[h] = "prune" /\ j \in Registering
  BY DEF DeleteStale, IInv, TypeOK
<1>2. /\ Left(j) = {}
      /\ j.retained = {e.token : e \in j.listed}
      /\ \A t \in Tokens : Due(j, t, Left(j), regs[<<i, t>>])
  <2>1. j.entries = <<>>
    BY <1>1 DEF Sole
  <2>2. Left(j) = {}
    BY <2>1 DEF Left
  <2> QED
    BY <2>2 DEF Sole, HalfDone
<1>3. \A p \in Places :
        regs'[p] = IF p[1] = i /\ regs[p] # None /\ p[2] \notin j.retained
                   THEN None ELSE regs[p]
  BY DEF DeleteStale, Remove, Stale
<1>4. \A p \in Places : p[1] # i => regs'[p] = regs[p]
  BY <1>3
<1>5. ASSUME NEW t \in Tokens
      PROVE  LET was == j.before[<<i, t>>]
                 is == regs'[<<i, t>>]
                 sent == {e \in j.listed : e.token = t}
             IN  /\ is # None <=> sent # {}
                 /\ is # None /\ was # None => is.app = was.app /\ is.endpoint = was.endpoint
                 /\ is # None /\ was = None => \E e \in sent : e.app = is.app
                 /\ is # None => \/ \E e \in sent : e.app = is.app /\ e.key = is.key
                                 \/ is = was /\ \A e \in sent : e.app # is.app
  <2> DEFINE was == j.before[<<i, t>>]
             is == regs[<<i, t>>]
             sent == Sent(j, t)
  <2>1. /\ was # None => is # None /\ is.app = was.app /\ is.endpoint = was.endpoint
        /\ is # None /\ was = None => \E e \in sent : e.app = is.app
        /\ is # None => is = was \/ \E e \in sent : Matches(e, is)
        /\ \A e \in sent : is # None /\ (is.app = e.app => \E f \in sent : Matches(f, is))
    <3>1. Due(j, t, {}, is)
      BY <1>2
    <3> QED
      BY <3>1 DEF Due
  <2>2. t \in j.retained <=> sent # {}
    BY <1>2 DEF Sent
  <2>3. regs'[<<i, t>>] = IF t \in j.retained THEN is ELSE None
    <3>1. <<i, t>> \in Places /\ <<i, t>>[1] = i /\ <<i, t>>[2] = t
      BY <1>1 DEF Places, Registering
    <3> QED
      BY <1>3, <3>1
  <2>4. sent = {e \in j.listed : e.token = t}
    BY DEF Sent
  <2> HIDE DEF was, is, sent, j
  <2>5. CASE sent = {}
    BY <2>2, <2>3, <2>4, <2>5 DEF was
  <2>6. CASE sent # {}
    <3>1. regs'[<<i, t>>] = is /\ is # None
      BY <2>1, <2>2, <2>3, <2>6
    <3>2. \/ \E e \in sent : e.app = is.app /\ e.key = is.key
          \/ is = was /\ \A e \in sent : e.app # is.app
      BY <2>1, <3>1 DEF Matches
    <3> DEFINE then == regs'[<<i, t>>]
    <3>3. then # None <=> sent # {}
      BY <2>6, <3>1
    <3>4. then # None /\ was # None => then.app = was.app /\ then.endpoint = was.endpoint
      BY <2>1, <3>1
    <3>5. then # None /\ was = None => \E e \in sent : e.app = then.app
      BY <2>1, <3>1
    <3>6. then # None => \/ \E e \in sent : e.app = then.app /\ e.key = then.key
                         \/ then = was /\ \A e \in sent : e.app # then.app
      BY <3>1, <3>2
    <3> HIDE DEF then
    <3> QED
      BY <2>4, <3>3, <3>4, <3>5, <3>6 DEF was, then
  <2> QED
    BY <2>5, <2>6
<1> QED
  BY <1>4, <1>5 DEF Converged

(* A reconcile that had the install to itself and ends well leaves exactly the    *)
(* tokens it listed, whatever it found there and whatever went on elsewhere       *)
(* (distributor_reconcile, delete_stale_unified_push_registrations).              *)
THEOREM ReconcilesConverge == Spec => ReconcileConverges
<1>1. IInv /\ AloneInv /\ [Next]_vars =>
        [\A h \in Handlers :
           pc[h] = "prune" /\ pc'[h] = "idle" /\ faults' = faults /\ job[h].alone
             => Converged(job[h])]_vars
  <2> SUFFICES ASSUME IInv, AloneInv, Next, NEW h \in Handlers,
                      pc[h] = "prune", pc'[h] = "idle", faults' = faults, job[h].alone
               PROVE  Converged(job[h])
    OBVIOUS
  <2>1. Reconciling(h) /\ Sole(h)
    BY DEF Reconciling, AloneInv
  <2>2. faults \in Nat
    BY DEF IInv, TypeOK
  <2>3. ~Crash /\ \A g \in Handlers : ~Fail(g)
    BY <2>2 DEF Crash, Fail
  <2>4. ~Settle
    BY DEF Settle, tasks
  <2>5. PICK g \in Handlers :
          \/ ReceiveRegister(g) \/ ReceiveReconcile(g) \/ ReceiveUnregister(g)
          \/ Register(g) \/ ReconcileEntry(g) \/ DeleteStale(g) \/ Unregister(g)
          \/ LookUp(g) \/ Enqueue(g)
    BY <2>3, <2>4 DEF Next
  <2>6. g = h
    BY <2>5 DEF IInv, TypeOK, ReceiveRegister, ReceiveReconcile, ReceiveUnregister, Arrive,
                Register, ReconcileEntry, DeleteStale, Unregister, Remove, LookUp, Enqueue, Finish
  <2>7. DeleteStale(h)
    BY <2>5, <2>6 DEF ReceiveRegister, ReceiveReconcile, ReceiveUnregister, Arrive,
                      Register, ReconcileEntry, Unregister, LookUp, Enqueue
  <2> QED
    BY <2>1, <2>7, PruneConverges
<1> QED
  BY <1>1, AloneInvariant, PTL DEF Spec, ReconcileConverges
===============================================================================
