------------------------------ MODULE Distributor -----------------------------
(* The UnifiedPush distributor: distributor_register, distributor_reconcile,     *)
(* distributor_unregister and unified_push_message of main.rs, with the tables   *)
(* installations, unified_push_registrations and outbox.                         *)
(*                                                                               *)
(* One action is what a handler does between two awaits; the first one is the    *)
(* arrival of the request together with its first statement, because nobody sees *)
(* a handler before that.  A request that is refused by its first statement, or  *)
(* before it, changes nothing and is no action.  SocketDelivery takes the rows   *)
(* of the outbox from here; hub.wake only hurries it.                            *)
EXTENDS Vapid, Sequences, FiniteSets

CONSTANTS
  Installs,         (* install ids                                                 *)
  Secrets,          (* installation secrets, standing for their hashes too         *)
  Apps,             (* application ids                                             *)
  Tokens,           (* connector tokens                                            *)
  Entries,          (* registrations that are asked for                            *)
  Handlers,         (* requests that can be served at the same time                *)
  None,
  MAX_RECONCILE,    (* entries of a reconcile; 256 in the code                     *)
  MaxEndpoints,     (* bound: endpoints handed out                                 *)
  MaxRequests,      (* bound: requests                                             *)
  MaxFaults         (* bound: statements that fail, handlers dropped, crashes      *)

ASSUME DistributorAssumption ==
  /\ None \notin Secrets \cup Keys
  /\ None \notin [app: Apps, endpoint: Nat, key: Keys \cup {None}]
  /\ Entries \subseteq [app: Apps, token: Tokens, key: Keys \cup {None}]
  /\ MAX_RECONCILE \in Nat /\ MaxEndpoints \in Nat /\ MaxRequests \in Nat /\ MaxFaults \in Nat

VARIABLES
  owner,     (* table installations: whose secret claimed the install              *)
  regs,      (* table unified_push_registrations                                   *)
  outbox,    (* table outbox: the rows of kind unified_push                        *)
  pc,        (* where each handler stands                                          *)
  job,       (* what it works on                                                   *)
  issued,    (* how many endpoints exist; they are random in the code              *)
  issuedTo,  (* history: whom each was given to                                    *)
  requests,  (* requests so far                                                    *)
  faults     (* faults so far                                                      *)

tables == <<owner, regs, outbox>>
tasks == <<pc, job>>
counts == <<requests, faults>>
vars == <<tables, tasks, issued, issuedTo, counts>>

-------------------------------------------------------------------------------
Places == Installs \X Tokens

Row == [app: Apps, endpoint: 1 .. MaxEndpoints, key: Keys \cup {None}]

Holder == [place: Places, app: Apps]

(* endpoint and raced are history: where the sender posted to, and whether the   *)
(* registration went while the message was under way.                            *)
Message == [place: Places, app: Apps, endpoint: 1 .. MaxEndpoints, raced: BOOLEAN]

Entry == [app: Apps, token: Tokens, key: Keys \cup {None}]

(* register, reconcile: entries still to be registered; retained: the tokens to  *)
(* keep; before, alone: history, the table when the handler started, and whether *)
(* it has the install to itself.                                                 *)
Registering == [install: Installs, entries: Seq(Entry),
                retained: SUBSET Tokens, listed: SUBSET Entry,
                before: [Places -> Row \cup {None}], alone: BOOLEAN]
Unregistering == [install: Installs, entry: Entry]

Phase == {"idle", "register", "reconcile", "prune", "unregister", "enqueue"}

Init ==
  /\ owner = [i \in Installs |-> None]
  /\ regs = [p \in Places |-> None]
  /\ outbox = {}
  /\ pc = [h \in Handlers |-> "idle"]
  /\ job = [h \in Handlers |-> None]
  /\ issued = 0
  /\ issuedTo = <<>>
  /\ requests = 0
  /\ faults = 0

-------------------------------------------------------------------------------
(* Arrivals.                                                                     *)

(* history: handlers that write registrations of the install at the same time    *)
(* are not alone.                                                                *)
Writers(i) == {h \in Handlers : pc[h] \in {"register", "reconcile", "prune", "unregister"}
                                /\ job[h].install = i}

Disturbed(i) ==
  [h \in Handlers |-> IF h \in Writers(i) /\ pc[h] # "unregister"
                      THEN [job[h] EXCEPT !.alone = FALSE] ELSE job[h]]

Arrive(h, phase, i, j) ==
  /\ pc[h] = "idle"
  /\ requests < MaxRequests
  /\ requests' = requests + 1
  /\ pc' = [pc EXCEPT ![h] = phase]
  /\ job' = [Disturbed(i) EXCEPT ![h] = j]
  /\ UNCHANGED <<regs, outbox, issued, issuedTo, faults>>

(* authorize_register: the first statement, claim_installation, takes an install *)
(* that nobody has and answers 401 to every other secret.                        *)
AuthorizeRegister(i, s) ==
  /\ owner[i] \in {None, s}
  /\ owner' = [owner EXCEPT ![i] = s]

Starting(i, entries) ==
  [install |-> i, entries |-> entries,
   retained |-> {entries[n].token : n \in DOMAIN entries},
   listed |-> {entries[n] : n \in DOMAIN entries},
   before |-> regs, alone |-> Writers(i) = {}]

(* All entries are checked before anything is written.                           *)
ReceiveRegister(h) ==
  \E i \in Installs, s \in Secrets, e \in Entries :
    /\ e.key # None => Decodes(e.key)
    /\ AuthorizeRegister(i, s)
    /\ Arrive(h, "register", i, Starting(i, <<e>>))

ReceiveReconcile(h) ==
  \E i \in Installs, s \in Secrets, n \in 0 .. MAX_RECONCILE : \E entries \in [1 .. n -> Entries] :
    /\ \A m \in 1 .. n : entries[m].key # None => Decodes(entries[m].key)
    /\ AuthorizeRegister(i, s)
    /\ Arrive(h, IF n = 0 THEN "prune" ELSE "reconcile", i, Starting(i, entries))

(* authorize_unregister.                                                         *)
ReceiveUnregister(h) ==
  \E i \in Installs, s \in Secrets, e \in Entries :
    /\ owner[i] = s
    /\ UNCHANGED owner
    /\ Arrive(h, "unregister", i, [install |-> i, entry |-> [e EXCEPT !.key = None]])

-------------------------------------------------------------------------------
(* Registrations.                                                                *)

Finish(h) ==
  /\ pc' = [pc EXCEPT ![h] = "idle"]
  /\ job' = [job EXCEPT ![h] = None]

(* Faulty variant of RegisterUnifiedPush: the token goes to whoever names it last. *)
RegisterOverwriting(j, e) ==
  LET p == <<j.install, e.token>> IN
  \/ /\ regs[p] # None
     /\ regs' = [regs EXCEPT ![p] = [@ EXCEPT !.app = e.app, !.key = e.key]]
     /\ UNCHANGED <<issued, issuedTo>>
  \/ /\ regs[p] = None
     /\ issued < MaxEndpoints
     /\ issued' = issued + 1
     /\ issuedTo' = Append(issuedTo, [place |-> p, app |-> e.app])
     /\ regs' = [regs EXCEPT ![p] =
          [app |-> e.app, endpoint |-> issued + 1, key |-> e.key]]

(* register_unified_push: one transaction.  A token that is registered for the   *)
(* application keeps its endpoint, one of another application is left alone (the *)
(* answer is None), and a new one gets the candidate.                            *)
RegisterUnifiedPush(j, e) ==
  LET p == <<j.install, e.token>> IN
  \/ /\ regs[p] # None
     /\ regs[p].app = e.app
     /\ regs' = [regs EXCEPT ![p] = [@ EXCEPT !.key = e.key]]
     /\ UNCHANGED <<issued, issuedTo>>
  \/ /\ regs[p] # None
     /\ regs[p].app # e.app
     /\ UNCHANGED <<regs, issued, issuedTo>>
  \/ /\ regs[p] = None
     /\ issued < MaxEndpoints
     /\ issued' = issued + 1
     /\ issuedTo' = Append(issuedTo, [place |-> p, app |-> e.app])
     /\ regs' = [regs EXCEPT ![p] =
          [app |-> e.app, endpoint |-> issued + 1, key |-> e.key]]

(* The answer is the endpoint, or 409.                                           *)
Register(h) ==
  /\ pc[h] = "register"
  /\ RegisterUnifiedPush(job[h], Head(job[h].entries))
  /\ Finish(h)
  /\ UNCHANGED <<owner, outbox, counts>>

(* A conflict is skipped: its token is retained all the same.                    *)
ReconcileEntry(h) ==
  /\ pc[h] = "reconcile"
  /\ RegisterUnifiedPush(job[h], Head(job[h].entries))
  /\ job' = [job EXCEPT ![h].entries = Tail(@)]
  /\ pc' = [pc EXCEPT ![h] = IF Len(job[h].entries) = 1 THEN "prune" ELSE "reconcile"]
  /\ UNCHANGED <<owner, outbox, counts>>

(* Whatever takes registrations away, with the rows of the outbox that are       *)
(* theirs.  history: a message under way to one of them is late.                 *)
Remove(h, gone, rows) ==
  /\ regs' = [p \in Places |-> IF p \in gone THEN None ELSE regs[p]]
  /\ outbox' = outbox \ rows
  /\ pc' = [pc EXCEPT ![h] = "idle"]
  /\ job' = [g \in Handlers |->
       IF g = h THEN None
       ELSE IF pc[g] = "enqueue" /\ job[g].place \in gone
            THEN [job[g] EXCEPT !.raced = TRUE] ELSE job[g]]
  /\ UNCHANGED <<owner, issued, issuedTo, counts>>

(* Faulty variant of RowsOf: registrations go and leave their rows behind.        *)
NoRowsOf(gone) == {}

RowsOf(gone) == {m \in outbox : m.place \in gone}

(* Faulty variant of Stale: the tokens of every install.                         *)
StaleAnywhere(i, retained) == {p \in Places : regs[p] # None /\ p[2] \notin retained}

(* delete_stale_unified_push_registrations.                                      *)
Stale(i, retained) ==
  {p \in Places : p[1] = i /\ regs[p] # None /\ p[2] \notin retained}

DeleteStale(h) ==
  /\ pc[h] = "prune"
  /\ LET gone == Stale(job[h].install, job[h].retained)
     IN  Remove(h, gone, RowsOf(gone))

(* unregister_unified_push.                                                      *)
Unregistered(i, e) ==
  {p \in {<<i, e.token>>} : regs[p] # None /\ regs[p].app = e.app}

Unregister(h) ==
  /\ pc[h] = "unregister"
  /\ LET gone == Unregistered(job[h].install, job[h].entry)
     IN  Remove(h, gone, {m \in RowsOf(gone) : m.app = job[h].entry.app})

-------------------------------------------------------------------------------
(* Messages.                                                                     *)

(* unified_push_message: the endpoint is looked up, and the header checked       *)
(* against the key of the registration while the public origin is configured and *)
(* there is no kill file, which comes and goes.  A body of a wrong size, a wrong *)
(* content encoding and an unknown endpoint are refused and change nothing.      *)
LookUp(h) ==
  /\ pc[h] = "idle"
  /\ requests < MaxRequests
  /\ \E p \in Places, header \in Headers, now \in Clock, enforcing \in BOOLEAN :
       /\ regs[p] # None
       /\ regs[p].key # None /\ enforcing => Validate(header, regs[p].key, now) = "accepted"
       /\ job' = [job EXCEPT ![h] =
            [place |-> p, app |-> regs[p].app, endpoint |-> regs[p].endpoint, raced |-> FALSE]]
  /\ pc' = [pc EXCEPT ![h] = "enqueue"]
  /\ requests' = requests + 1
  /\ UNCHANGED <<tables, issued, issuedTo, faults>>

(* enqueue_unified_push_message, an insert with what was looked up.              *)
Enqueue(h) ==
  /\ pc[h] = "enqueue"
  /\ outbox' = outbox \cup {job[h]}
  /\ Finish(h)
  /\ UNCHANGED <<owner, regs, issued, issuedTo, counts>>

(* A device acknowledges a row: see SocketDelivery.                              *)
Settle ==
  /\ \E m \in outbox : outbox' = outbox \ {m}
  /\ UNCHANGED <<owner, regs, tasks, issued, issuedTo, counts>>

-------------------------------------------------------------------------------
(* Faults.                                                                       *)

(* A statement fails, or the client goes away and the handler is dropped.        *)
Fail(h) ==
  /\ pc[h] # "idle"
  /\ faults < MaxFaults
  /\ faults' = faults + 1
  /\ Finish(h)
  /\ UNCHANGED <<tables, issued, issuedTo, requests>>

Crash ==
  /\ faults < MaxFaults
  /\ faults' = faults + 1
  /\ pc' = [h \in Handlers |-> "idle"]
  /\ job' = [h \in Handlers |-> None]
  /\ UNCHANGED <<tables, issued, issuedTo, requests>>

Next ==
  \/ \E h \in Handlers :
       \/ ReceiveRegister(h) \/ ReceiveReconcile(h) \/ ReceiveUnregister(h)
       \/ Register(h) \/ ReconcileEntry(h) \/ DeleteStale(h) \/ Unregister(h)
       \/ LookUp(h) \/ Enqueue(h) \/ Fail(h)
  \/ Settle \/ Crash

Spec == Init /\ [][Next]_vars

-------------------------------------------------------------------------------
(* Properties.                                                                   *)

TypeOK ==
  /\ owner \in [Installs -> Secrets \cup {None}]
  /\ regs \in [Places -> Row \cup {None}]
  /\ \A p \in Places : regs[p] # None => regs[p].key \notin Undecodable
  /\ outbox \subseteq Message
  /\ pc \in [Handlers -> Phase]
  /\ DOMAIN job = Handlers
  /\ \A h \in Handlers :
       /\ pc[h] = "idle" => job[h] = None
       /\ pc[h] = "enqueue" => job[h] \in Message
       /\ pc[h] = "unregister" => job[h] \in Unregistering
       /\ pc[h] \in {"register", "reconcile", "prune"} => job[h] \in Registering
  /\ issued \in 0 .. MaxEndpoints
  /\ issuedTo \in [1 .. issued -> Holder]
  /\ requests \in 0 .. MaxRequests
  /\ faults \in 0 .. MaxFaults

(* Whoever was given an endpoint gets what is posted to it, and nobody else: no   *)
(* registration, message under way or row of the outbox has come to name another  *)
(* application, token or install than the one its endpoint was handed out for,    *)
(* however often tokens were registered, refused, removed and registered again.   *)
GivenTo(endpoint, p, a) ==
  endpoint \in DOMAIN issuedTo /\ issuedTo[endpoint] = [place |-> p, app |-> a]

Faithful ==
  /\ \A p \in Places : regs[p] # None => GivenTo(regs[p].endpoint, p, regs[p].app)
  /\ \A m \in outbox : GivenTo(m.endpoint, m.place, m.app)
  /\ \A h \in Handlers : pc[h] = "enqueue" => GivenTo(job[h].endpoint, job[h].place, job[h].app)

(* A row whose endpoint is no longer registered was looked up before the          *)
(* registration went and inserted after it; no other row is left behind.          *)
OrphansRaced ==
  \A m \in outbox :
    \/ regs[m.place] # None /\ regs[m.place].endpoint = m.endpoint
    \/ m.raced

(* A reconcile that had the install to itself and ends well leaves exactly the    *)
(* tokens it listed: those that were there keep application and endpoint, a       *)
(* conflict included, new ones belong to an application that was listed with      *)
(* them, and the key is one that was sent with that application.  Its deletes     *)
(* leave the other installs alone.                                                *)
Converged(j) ==
  /\ \A t \in Tokens :
       LET was == j.before[<<j.install, t>>]
           is == regs'[<<j.install, t>>]
           sent == {e \in j.listed : e.token = t}
       IN  /\ is # None <=> sent # {}
           /\ is # None /\ was # None => is.app = was.app /\ is.endpoint = was.endpoint
           /\ is # None /\ was = None => \E e \in sent : e.app = is.app
           /\ is # None => \/ \E e \in sent : e.app = is.app /\ e.key = is.key
                           \/ is = was /\ \A e \in sent : e.app # is.app
  /\ \A p \in Places : p[1] # j.install => regs'[p] = regs[p]

ReconcileConverges ==
  [][\A h \in Handlers :
       pc[h] = "prune" /\ pc'[h] = "idle" /\ faults' = faults /\ job[h].alone
         => Converged(job[h])]_vars

(* For every key a registration has, validate accepts a header exactly if it was  *)
(* signed with that key for this bridge and expires within the window, at either  *)
(* end of the range of u64 too.  (LookUp asks validate only while the bridge      *)
(* enforces, and what has the wrong content encoding is refused before.)          *)
AcceptsExactly ==
  \A p \in Places : regs[p] # None /\ regs[p].key # None =>
    \A header \in Headers, now \in Clock :
      Validate(header, regs[p].key, now) = "accepted" <=> Authorised(header, regs[p].key, now)
===============================================================================
