---------------------------- MODULE SocketHubProofs ----------------------------
(* HubOwner, Superseded, NoLostWake and ViewAgrees are invariants of              *)
(* SocketDelivery for all values of its constants.                               *)
(*                                                                               *)
(* The first two are inductive together (HubInv): a connection that detaches is  *)
(* known to be attached where it is the owner, and whoever loses an install is   *)
(* told in the step in which it loses it.  No wake-up is lost because a row that *)
(* is still unknown to a connection that has looked at the install is about to   *)
(* be announced, and the announcement goes to that connection unless it has been *)
(* told that it lost the install: WakeInv says so of a connection that is still  *)
(* polling as well as of one that sleeps.                                        *)
(* ViewInv reads ahead: what a device would believe once it has read all frames   *)
(* under way is what its connection holds, unless an attach is still unanswered.  *)
EXTENDS SocketDeliveryProofs

(* The Replaced notice for install i is in the channel of c.                     *)
Told(c, i) == \E k \in 1..Len(events[c]) : events[c][k] = Replaced(i)

(* A closed connection holds no attachment.                                      *)
HoldersRun == \A c \in Conns, i \in Installs : att[c][i] # Detached => pc[c] # "closed"

HubInv == HubOwner /\ Superseded /\ HoldersRun

(* c has looked at install i since it last went to the top of its loop.          *)
Polled(c, i) == pc[c] = "select" \/ (pc[c] = "poll" /\ i \notin todo[c])

WakeInv ==
  \A c \in Conns, i \in Installs :
    Polled(c, i) /\ events[c] = <<>> /\ att[c][i].state = "ready"
      => Pending(i, att[c][i].at) \subseteq waking \cup unwoken

-------------------------------------------------------------------------------
(* The channels.                                                                 *)

(* An event added to a channel pushes no notice out of it.                       *)
LEMMA AppendKeepsTold ==
  ASSUME TypeOK, NEW d \in Conns, NEW e \in SocketEvent,
         events' = [events EXCEPT ![d] = Append(@, e)]
  PROVE  /\ \A c \in Conns, i \in Installs : Told(c, i) => Told(c, i)'
         /\ events'[d] # <<>>
         /\ \A c \in Conns : events'[c] = <<>> => events[c] = <<>>
<1>1. events[d] \in Seq(SocketEvent) /\ events'[d] = Append(events[d], e)
  BY DEF TypeOK
<1>2. \A c \in Conns \ {d} : events'[c] = events[c]
  BY DEF TypeOK
<1>3. \A k \in 1..Len(events[d]) : k \in 1..Len(events'[d]) /\ events'[d][k] = events[d][k]
  BY <1>1
<1>4. events'[d] # <<>>
  <2>1. Len(events'[d]) = Len(events[d]) + 1 /\ Len(events[d]) \in Nat
    BY <1>1
  <2>2. Len(events'[d]) # 0
    BY <2>1
  <2>3. Len(<<>>) = 0
    OBVIOUS
  <2> QED
    BY <2>2, <2>3, Zenon
<1>5. ASSUME NEW c \in Conns, NEW i \in Installs, Told(c, i)
      PROVE  Told(c, i)'
  <2>1. PICK k \in 1..Len(events[c]) : events[c][k] = Replaced(i)
    BY <1>5 DEF Told
  <2>2. k \in 1..Len(events'[c]) /\ events'[c][k] = Replaced(i)
    <3>1. CASE c = d
      BY <1>3, <2>1, <3>1
    <3>2. CASE c # d
      BY <1>2, <2>1, <3>2
    <3> QED
      BY <3>1, <3>2
  <2> QED
    BY <2>2 DEF Told, Replaced
<1>6. \A c \in Conns : events'[c] = <<>> => events[c] = <<>>
  BY <1>2, <1>4
<1> QED
  BY <1>4, <1>5, <1>6

(* An added notice can be read.                                                  *)
LEMMA AppendTells ==
  ASSUME TypeOK, NEW d \in Conns, NEW i \in Installs,
         events' = [events EXCEPT ![d] = Append(@, Replaced(i))]
  PROVE  Told(d, i)'
<1>1. events[d] \in Seq(SocketEvent) /\ Replaced(i) \in SocketEvent
  BY DEF TypeOK, Replaced, SocketEvent
<1>2. events'[d] = Append(events[d], Replaced(i))
  BY DEF TypeOK
<1>3. Len(events[d]) + 1 \in 1..Len(events'[d]) /\ events'[d][Len(events[d]) + 1] = Replaced(i)
  BY <1>1, <1>2
<1> QED
  BY <1>3 DEF Told

(* Taking an event leaves the notices that it is not.                            *)
LEMMA TakesKeepsTold ==
  ASSUME TypeOK, NEW d \in Conns, NEW type, Takes(d, type)
  PROVE  \A c \in Conns, i \in Installs :
           Told(c, i) /\ (c = d => Head(events[d]) # Replaced(i)) => Told(c, i)'
<1> SUFFICES ASSUME NEW c \in Conns, NEW i \in Installs, Told(c, i),
                    c = d => Head(events[d]) # Replaced(i)
             PROVE  Told(c, i)'
  OBVIOUS
<1>1. CASE c # d
  BY <1>1 DEF Told, Takes, TypeOK
<1>2. CASE c = d
  <2>1. PICK k \in 1..Len(events[d]) : events[d][k] = Replaced(i)
    BY <1>2 DEF Told
  <2>2. events[d] \in Seq(SocketEvent) /\ events[d] # <<>> /\ events'[d] = Tail(events[d])
    BY DEF Takes, TypeOK
  <2>3. k # 1
    BY <1>2, <2>1, <2>2
  <2>4. k - 1 \in 1..Len(events'[d]) /\ events'[d][k - 1] = events[d][k]
    BY <2>1, <2>2, <2>3
  <2> QED
    BY <1>2, <2>1, <2>4 DEF Told
<1> QED
  BY <1>1, <1>2

-------------------------------------------------------------------------------
(* The hub.                                                                      *)

(* A step that gives no install away, ends no attachment or task and takes no    *)
(* notice keeps HubInv.                                                          *)
LEMMA FrameHubInv ==
  ASSUME HubInv, UNCHANGED hub,
         \A c \in Conns, i \in Installs : att'[c][i] # Detached <=> att[c][i] # Detached,
         \A c \in Conns : pc[c] # "closed" => pc'[c] # "closed",
         \A c \in Conns, i \in Installs : Told(c, i) => Told(c, i)'
  PROVE  HubInv'
<1>1. HubOwner'
  BY DEF HubInv, HubOwner, Attached
<1>2. Superseded'
  BY DEF HubInv, Superseded, Attached, Told
<1>3. HoldersRun'
  BY DEF HubInv, HoldersRun
<1> QED
  BY <1>1, <1>2, <1>3 DEF HubInv

(* A connection that detaches from the installs of gone frees those it owns, and *)
(* may end if that was all of them.                                              *)
LEMMA DetachHubInv ==
  ASSUME TypeOK, HubInv, NEW c \in Conns, NEW gone,
         DetachLocally(c, gone), HubDetach(c, gone \cap Attached(c)),
         \A d \in Conns : pc[d] # "closed" => pc'[d] # "closed" \/ (d = c /\ gone = Installs),
         \A d \in Conns, i \in Installs :
           Told(d, i) /\ ~(d = c /\ i \in gone) => Told(d, i)'
  PROVE  HubInv'
<1>1. \A d \in Conns, i \in Installs :
        att'[d][i] = IF d = c /\ i \in gone THEN Detached ELSE att[d][i]
  BY DEF DetachLocally, TypeOK
<1>2. \A i \in Installs : hub[i] = c => i \in Attached(c)
  BY DEF HubInv, HubOwner
<1>3. \A i \in Installs : hub'[i] = IF i \in gone /\ hub[i] = c THEN None ELSE hub[i]
  BY <1>2 DEF HubDetach
<1>4. HubOwner'
  <2> SUFFICES ASSUME NEW i \in Installs, NEW d \in Conns, hub'[i] = d
               PROVE  pc'[d] # "closed" /\ att'[d][i] # Detached
    BY DEF HubOwner, Attached
  <2>1. hub[i] = d
    BY <1>3, NoneAssumption
  <2>2. ~(d = c /\ i \in gone)
    BY <1>3, <2>1, NoneAssumption
  <2> QED
    BY <1>1, <2>1, <2>2 DEF HubInv, HubOwner, Attached
<1>5. Superseded'
  <2> SUFFICES ASSUME NEW i \in Installs, NEW d \in Conns, att'[d][i] # Detached, hub'[i] # d
               PROVE  Told(d, i)'
    BY DEF Superseded, Attached, Told
  <2>1. ~(d = c /\ i \in gone) /\ att[d][i] # Detached
    BY <1>1
  <2>2. hub[i] # d
    BY <1>3, <2>1
  <2>3. Told(d, i)
    BY <2>1, <2>2 DEF HubInv, Superseded, Attached, Told
  <2> QED
    BY <2>1, <2>3
<1>6. HoldersRun'
  BY <1>1 DEF HubInv, HoldersRun
<1> QED
  BY <1>4, <1>5, <1>6 DEF HubInv

(* Whoever is superseded is told in the same step.                               *)
LEMMA FinishAttachHubInv ==
  ASSUME TypeOK, HubInv, NEW c \in Conns, FinishAttach(c)
  PROVE  HubInv'
<1> DEFINE i == req[c].install
<1>1. i \in Installs
  BY DEF TypeOK
<1>2. /\ hub' = [hub EXCEPT ![i] = c]
      /\ events' = IF hub[i] \in {None, c} THEN events
                   ELSE [events EXCEPT ![hub[i]] = Append(@, Replaced(i))]
      /\ att' = [att EXCEPT ![c][i] = Ready(req[c].cursor)]
      /\ pc' = [pc EXCEPT ![c] = "poll"]
  BY DEF FinishAttach, HubAttach, LoopAgain
<1>3. \A d \in Conns, j \in Installs : Told(d, j) => Told(d, j)'
  <2>1. CASE hub[i] \in {None, c}
    BY <1>2, <2>1 DEF Told
  <2>2. CASE hub[i] \notin {None, c}
    <3>1. hub[i] \in Conns
      BY <1>1, <2>2 DEF TypeOK
    <3>2. Replaced(i) \in SocketEvent
      BY <1>1 DEF Replaced, SocketEvent
    <3> QED
      BY <1>2, <2>2, <3>1, <3>2, AppendKeepsTold
  <2> QED
    BY <2>1, <2>2
<1>4. /\ att'[c][i] # Detached
      /\ \A d \in Conns, j \in Installs : <<d, j>> # <<c, i>> => att'[d][j] = att[d][j]
  BY <1>1, <1>2 DEF TypeOK, Ready, Detached
<1>5. /\ hub'[i] = c
      /\ \A j \in Installs \ {i} : hub'[j] = hub[j]
  BY <1>1, <1>2 DEF TypeOK
<1>6. (\A d \in Conns : pc[d] # "closed" => pc'[d] # "closed") /\ pc'[c] # "closed"
  BY <1>2 DEF TypeOK
<1>7. HubOwner'
  BY <1>4, <1>5, <1>6 DEF HubInv, HubOwner, Attached
<1>8. Superseded'
  <2> SUFFICES ASSUME NEW j \in Installs, NEW d \in Conns, att'[d][j] # Detached, hub'[j] # d
               PROVE  Told(d, j)'
    BY DEF Superseded, Attached, Told
  <2>1. <<d, j>> # <<c, i>>
    BY <1>5
  <2>2. att[d][j] # Detached
    BY <1>4, <2>1
  <2>3. CASE hub[j] # d
    BY <1>3, <2>2, <2>3 DEF HubInv, Superseded, Attached, Told
  <2>4. CASE hub[j] = d
    <3>1. j = i /\ d # c
      BY <1>5, <2>1, <2>4
    <3>2. hub[i] = d /\ hub[i] \notin {None, c}
      BY <2>4, <3>1, NoneAssumption
    <3>3. events' = [events EXCEPT ![d] = Append(@, Replaced(i))]
      BY <1>2, <3>2
    <3> QED
      BY <1>1, <3>1, <3>3, AppendTells
  <2> QED
    BY <2>3, <2>4
<1>9. HoldersRun'
  BY <1>4, <1>6 DEF HubInv, HoldersRun
<1> QED
  BY <1>7, <1>8, <1>9 DEF HubInv

-------------------------------------------------------------------------------
(* The wake-ups.                                                                 *)

(* A step that makes nobody look less, announces no row away and inserts none    *)
(* keeps WakeInv.                                                                *)
LEMMA FrameWakeInv ==
  ASSUME WakeInv, outbox' \subseteq outbox, waking \cup unwoken \subseteq waking' \cup unwoken',
         \A c \in Conns, i \in Installs :
           Polled(c, i)' /\ events'[c] = <<>> /\ att'[c][i].state = "ready"
             => Polled(c, i) /\ events[c] = <<>> /\ att'[c][i] = att[c][i]
  PROVE  WakeInv'
<1> SUFFICES ASSUME NEW c \in Conns, NEW i \in Installs,
                    Polled(c, i)', events'[c] = <<>>, att'[c][i].state = "ready"
             PROVE  Pending(i, att[c][i].at)' \subseteq waking' \cup unwoken'
  BY DEF WakeInv, Polled, Pending
<1>1. Pending(i, att[c][i].at) \subseteq waking \cup unwoken
  BY DEF WakeInv
<1>2. Pending(i, att[c][i].at)' \subseteq Pending(i, att[c][i].at)
  BY DEF Pending, Polled
<1> QED
  BY <1>1, <1>2

(* A task back at the top of its loop has looked at nothing it is attached to.   *)
LEMMA LoopAgainLooksAgain ==
  ASSUME TypeOK, NEW c \in Conns, LoopAgain(c)
  PROVE  /\ \A i \in Installs : Polled(c, i)' => att'[c][i].state # "ready"
         /\ \A d \in Conns \ {c}, i \in Installs : Polled(d, i)' => Polled(d, i)
         /\ \A d \in Conns : pc[d] # "closed" => pc'[d] # "closed"
<1>1. pc'[c] = "poll" /\ todo'[c] = {i \in Installs : att'[c][i] # Detached}
  BY DEF TypeOK, LoopAgain
<1>2. \A d \in Conns \ {c} : pc'[d] = pc[d] /\ todo'[d] = todo[d]
  BY DEF TypeOK, LoopAgain
<1> QED
  BY <1>1, <1>2 DEF Polled, Detached

(* The hub and the wake-ups survive a step of a task that goes back to the top   *)
(* of its loop and changes its own attachments only.                             *)
LEMMA LoopAgainWakeInv ==
  ASSUME TypeOK, WakeInv, NEW c \in Conns, LoopAgain(c),
         outbox' \subseteq outbox, UNCHANGED wakers,
         \A d \in Conns \ {c} : att'[d] = att[d] /\ (events'[d] = <<>> => events[d] = <<>>)
  PROVE  WakeInv'
BY LoopAgainLooksAgain, FrameWakeInv DEF wakers

-------------------------------------------------------------------------------
(* The actions.                                                                  *)

(* A step that touches neither hub nor tasks nor channels keeps HubInv.          *)
LEMMA IdleHubInv ==
  ASSUME HubInv, UNCHANGED <<hub, pc, att, events>>
  PROVE  HubInv'
BY FrameHubInv DEF Told

(* A wake-up reaches the owner; whoever has looked at the install and does not   *)
(* own it has been told already.                                                 *)
LEMMA HubWakeKeeps ==
  ASSUME TypeOK, HubInv, WakeInv, NEW row \in waking, HubWake(row)
  PROVE  HubInv' /\ WakeInv'
<1> DEFINE owner == hub[row.install]
<1>1. row.install \in Installs /\ owner \in Conns \cup {None}
  BY DEF TypeOK, Row
<1>2. /\ UNCHANGED <<outbox, unwoken, hub, pc, todo, att>>
      /\ waking' = waking \ {row}
      /\ events' = IF owner = None THEN events
                   ELSE [events EXCEPT ![owner] = Append(@, Wake)]
  BY DEF HubWake, store, task
<1>3. CASE owner = None
  <2>1. UNCHANGED events
    BY <1>2, <1>3
  <2>2. HubInv'
    BY <1>2, <2>1, IdleHubInv
  <2>3. ASSUME NEW c \in Conns, NEW i \in Installs,
               Polled(c, i)', events'[c] = <<>>, att'[c][i].state = "ready"
        PROVE  Pending(i, att[c][i].at)' \subseteq waking' \cup unwoken'
    <3>1. Pending(i, att[c][i].at) \subseteq waking \cup unwoken
      BY <1>2, <2>1, <2>3 DEF WakeInv, Polled
    <3>2. att[c][i] # Detached
      BY <1>2, <2>3 DEF Detached
    <3>3. i # row.install
      BY <1>3, <2>1, <2>3, <3>2, NoneAssumption DEF HubInv, Superseded, Attached
    <3> QED
      BY <1>2, <3>1, <3>3 DEF Pending
  <2> QED
    BY <1>2, <2>2, <2>3 DEF WakeInv
<1>4. CASE owner # None
  <2>1. owner \in Conns /\ Wake \in SocketEvent
    BY <1>1, <1>4 DEF Wake, SocketEvent
  <2>2. events' = [events EXCEPT ![owner] = Append(@, Wake)]
    BY <1>2, <1>4
  <2>3. /\ \A c \in Conns, i \in Installs : Told(c, i) => Told(c, i)'
        /\ events'[owner] # <<>>
        /\ \A c \in Conns : events'[c] = <<>> => events[c] = <<>>
    BY <2>1, <2>2, AppendKeepsTold
  <2>4. HubInv'
    BY <1>2, <2>3, FrameHubInv
  <2>5. ASSUME NEW c \in Conns, NEW i \in Installs,
               Polled(c, i)', events'[c] = <<>>, att'[c][i].state = "ready"
        PROVE  Pending(i, att[c][i].at)' \subseteq waking' \cup unwoken'
    <3>1. events[c] = <<>> /\ c # owner
      BY <2>3, <2>5
    <3>2. Pending(i, att[c][i].at) \subseteq waking \cup unwoken
      BY <1>2, <2>5, <3>1 DEF WakeInv, Polled
    <3>3. att[c][i] # Detached
      BY <1>2, <2>5 DEF Detached
    <3>4. i # row.install
      BY <3>1, <3>3 DEF HubInv, Superseded, Attached
    <3> QED
      BY <1>2, <3>2, <3>4 DEF Pending
  <2> QED
    BY <1>2, <2>4, <2>5 DEF WakeInv
<1> QED
  BY <1>3, <1>4

(* A row that is inserted is about to be announced, and a row whose producer is  *)
(* aborted is remembered.                                                        *)
LEMMA ProducersKeep ==
  ASSUME TypeOK, HubInv, WakeInv, Producers
  PROVE  HubInv' /\ WakeInv'
<1>1. ASSUME NEW i \in Installs, NEW a \in Apps, Enqueue(i, a) PROVE HubInv' /\ WakeInv'
  <2> DEFINE row == [id |-> NextId, install |-> i, app |-> a]
  <2>1. /\ outbox' = outbox \cup {row}
        /\ waking' = waking \cup {row}
        /\ UNCHANGED <<unwoken, hub, pc, todo, att, events>>
    BY <1>1 DEF Enqueue, task
  <2>2. HubInv'
    BY <2>1, IdleHubInv
  <2>3. ASSUME NEW c \in Conns, NEW j \in Installs,
               Polled(c, j)', events'[c] = <<>>, att'[c][j].state = "ready"
        PROVE  Pending(j, att[c][j].at)' \subseteq waking' \cup unwoken'
    <3>1. Pending(j, att[c][j].at) \subseteq waking \cup unwoken
      BY <2>1, <2>3 DEF WakeInv, Polled
    <3>2. Pending(j, att[c][j].at)' \subseteq Pending(j, att[c][j].at) \cup {row}
      BY <2>1 DEF Pending
    <3> QED
      BY <2>1, <3>1, <3>2
  <2> QED
    BY <2>1, <2>2, <2>3 DEF WakeInv
<1>2. ASSUME NEW i \in Installs, NEW a \in Apps, Unregister(i, a) PROVE HubInv' /\ WakeInv'
  <2>1. outbox' \subseteq outbox /\ UNCHANGED <<waking, unwoken, hub, pc, todo, att, events>>
    BY <1>2 DEF Unregister, wakers, task
  <2> QED
    BY <2>1, IdleHubInv, FrameWakeInv DEF Polled
<1>3. ASSUME NEW row \in waking, HubWake(row) PROVE HubInv' /\ WakeInv'
  BY <1>3, HubWakeKeeps
<1>4. ASSUME NEW row \in waking, AbortProducer(row) PROVE HubInv' /\ WakeInv'
  <2>1. /\ waking' \cup unwoken' = waking \cup unwoken
        /\ UNCHANGED <<outbox, hub, pc, todo, att, events>>
    BY <1>4 DEF AbortProducer, store, task
  <2> QED
    BY <2>1, IdleHubInv, FrameWakeInv DEF Polled
<1> QED
  BY <1>1, <1>2, <1>3, <1>4 DEF Producers

(* pending_messages looks at every install, and finds nothing or sends.          *)
LEMMA PollingKeeps ==
  ASSUME TypeOK, HubInv, WakeInv, NEW c \in Conns, Polling(c)
  PROVE  HubInv' /\ WakeInv'
<1>1. ASSUME SendBatch(c) PROVE HubInv' /\ WakeInv'
  <2>1. /\ pc[c] = "poll" /\ todo[c] = {}
        /\ pc' = [pc EXCEPT ![c] = "select"]
        /\ UNCHANGED <<outbox, waking, unwoken, hub, todo, att, events>>
    BY <1>1 DEF SendBatch, store, wakers
  <2>2. HubInv'
    BY <2>1, FrameHubInv DEF Told, TypeOK
  <2>3. \A d \in Conns, i \in Installs : Polled(d, i)' => Polled(d, i)
    BY <2>1 DEF Polled, TypeOK
  <2> QED
    BY <2>1, <2>2, <2>3, FrameWakeInv
<1>2. ASSUME NEW i \in Installs, PollInstall(c, i) PROVE HubInv' /\ WakeInv'
  <2>1. /\ pc[c] = "poll" /\ i \in todo[c]
        /\ todo' = [todo EXCEPT ![c] = @ \ {i}]
        /\ UNCHANGED <<outbox, waking, unwoken, hub, pc, events>>
    BY <1>2 DEF PollInstall, store, wakers
  <2>2. /\ \A d \in Conns, j \in Installs : <<d, j>> # <<c, i>> => att'[d][j] = att[d][j]
        /\ \/ /\ att'[c][i] = att[c][i]
              /\ att[c][i].state # "ready" \/ Pending(i, att[c][i].at) = {}
           \/ att[c][i].state = "ready" /\ att'[c][i].state = "awaiting"
    <3>1. CASE /\ att[c][i].state # "ready" \/ Pending(i, att[c][i].at) = {}
               /\ UNCHANGED att
      BY <3>1
    <3>2. ASSUME att[c][i].state = "ready",
                 NEW r \in outbox, att' = [att EXCEPT ![c][i] = AwaitingAck(r.id)]
          PROVE  /\ \A d \in Conns, j \in Installs : <<d, j>> # <<c, i>> => att'[d][j] = att[d][j]
                 /\ att'[c][i].state = "awaiting"
      <4>1. att'[c][i] = AwaitingAck(r.id)
        BY <3>2 DEF TypeOK
      <4> QED
        BY <3>2, <4>1 DEF TypeOK, AwaitingAck
    <3> QED
      BY <1>2, <3>1, <3>2 DEF PollInstall
  <2>3. HubInv'
    BY <2>1, <2>2, FrameHubInv DEF Told, Detached
  <2>4. \A d \in Conns, j \in Installs : <<d, j>> # <<c, i>> /\ Polled(d, j)' => Polled(d, j)
    BY <2>1 DEF Polled, TypeOK
  <2>5. ASSUME NEW d \in Conns, NEW j \in Installs,
               Polled(d, j)', events'[d] = <<>>, att'[d][j].state = "ready"
        PROVE  Pending(j, att'[d][j].at) \subseteq waking \cup unwoken
    <3>1. CASE <<d, j>> = <<c, i>>
      BY <2>2, <2>5, <3>1
    <3>2. CASE <<d, j>> # <<c, i>>
      BY <2>1, <2>2, <2>4, <2>5, <3>2 DEF WakeInv
    <3> QED
      BY <3>1, <3>2
  <2>6. WakeInv'
    BY <2>1, <2>5 DEF WakeInv, Pending
  <2> QED
    BY <2>3, <2>6
<1> QED
  BY <1>1, <1>2 DEF Polling

(* An attach that is still reading keeps everything; one that ends takes the     *)
(* install over and looks at it anew.                                            *)
LEMMA AttachingKeeps ==
  ASSUME TypeOK, HubInv, WakeInv, NEW c \in Conns, Attaching(c)
  PROVE  HubInv' /\ WakeInv'
<1>1. ASSUME ReadMaxOutboxId(c) \/ AckSocketThrough(c) PROVE HubInv' /\ WakeInv'
  <2>1. /\ outbox' \subseteq outbox
        /\ UNCHANGED <<waking, unwoken, hub, todo, att, events>>
        /\ \A d \in Conns \ {c} : pc'[d] = pc[d]
        /\ pc'[c] \in {"attach_through", "attach_hub"}
    BY <1>1 DEF ReadMaxOutboxId, AckSocketThrough, store, wakers, TypeOK
  <2>2. HubInv'
    BY <2>1, FrameHubInv DEF Told
  <2>3. \A d \in Conns, i \in Installs : Polled(d, i)' => Polled(d, i)
    BY <2>1 DEF Polled
  <2> QED
    BY <2>1, <2>2, <2>3, FrameWakeInv
<1>2. ASSUME FinishAttach(c) PROVE HubInv' /\ WakeInv'
  <2>1. HubInv'
    BY <1>2, FinishAttachHubInv
  <2>2. LoopAgain(c) /\ UNCHANGED <<outbox, waking, unwoken>>
    BY <1>2 DEF FinishAttach, store, wakers
  <2>3. \A d \in Conns \ {c} : att'[d] = att[d]
    BY <1>2 DEF FinishAttach, TypeOK
  <2>4. \A d \in Conns : events'[d] = <<>> => events[d] = <<>>
    <3> DEFINE i == req[c].install
    <3>1. i \in Installs /\ hub[i] \in Conns \cup {None} /\ Replaced(i) \in SocketEvent
      BY DEF TypeOK, Replaced, SocketEvent
    <3>2. events' = IF hub[i] \in {None, c} THEN events
                    ELSE [events EXCEPT ![hub[i]] = Append(@, Replaced(i))]
      BY <1>2 DEF FinishAttach, HubAttach
    <3>3. CASE hub[i] \in {None, c}
      BY <3>2, <3>3
    <3>4. CASE hub[i] \notin {None, c}
      BY <3>1, <3>2, <3>4, AppendKeepsTold
    <3> QED
      BY <3>3, <3>4
  <2> QED
    BY <2>1, <2>2, <2>3, <2>4, LoopAgainWakeInv DEF wakers
<1> QED
  BY <1>1, <1>2 DEF Attaching

(* V2Connection::detach, followed by the next turn of the loop.                  *)
LEMMA DetachKeeps ==
  ASSUME TypeOK, HubInv, WakeInv, NEW c \in Conns, NEW i \in Installs,
         Detach(c, i), LoopAgain(c), UNCHANGED <<outbox, wakers>>,
         \A d \in Conns \ {c} : events'[d] = events[d],
         \A d \in Conns, j \in Installs : Told(d, j) /\ <<d, j>> # <<c, i>> => Told(d, j)'
  PROVE  HubInv' /\ WakeInv'
<1>1. \A d \in Conns \ {c} : att'[d] = att[d]
  BY DEF Detach, DetachLocally, TypeOK
<1>2. WakeInv'
  BY <1>1, LoopAgainWakeInv
<1>3. \A d \in Conns : pc[d] # "closed" => pc'[d] # "closed"
  BY LoopAgainLooksAgain
<1>4. \A d \in Conns, j \in Installs : Told(d, j) /\ ~(d = c /\ j \in {i}) => Told(d, j)'
  OBVIOUS
<1>5. HubInv'
  BY <1>3, <1>4, DetachHubInv DEF Detach
<1> QED
  BY <1>2, <1>5

(* Frames from the device.                                                       *)
LEMMA ReadingKeeps ==
  ASSUME TypeOK, HubInv, WakeInv, NEW c \in Conns, Reading(c)
  PROVE  HubInv' /\ WakeInv'
<1> DEFINE i == Head(up[c]).install
<1>1. i \in Installs
  BY ReadsType DEF Reading, ReceiveAttach, ReceiveDetach, ReceiveAck
<1>2. ASSUME ReceiveAttach(c) PROVE HubInv' /\ WakeInv'
  <2>1. UNCHANGED <<outbox, waking, unwoken, hub, events, att>>
    BY <1>2 DEF ReceiveAttach, store, wakers
  <2>2. CASE LoopAgain(c)
    <3>1. HubInv'
      BY <2>1, <2>2, LoopAgainLooksAgain, FrameHubInv DEF Told
    <3>2. WakeInv'
      BY <2>1, <2>2, LoopAgainWakeInv DEF wakers
    <3> QED
      BY <3>1, <3>2
  <2>3. CASE pc' = [pc EXCEPT ![c] = "attach_max"] /\ UNCHANGED todo
    <3>1. /\ \A d \in Conns : pc[d] # "closed" => pc'[d] # "closed"
          /\ \A d \in Conns, j \in Installs : Polled(d, j)' => Polled(d, j)
      BY <2>3 DEF TypeOK, Polled
    <3>2. HubInv'
      BY <2>1, <3>1, FrameHubInv DEF Told
    <3>3. WakeInv'
      BY <2>1, <3>1, FrameWakeInv
    <3> QED
      BY <3>2, <3>3
  <2> QED
    BY <1>2, <2>2, <2>3 DEF ReceiveAttach
<1>3. ASSUME ReceiveDetach(c) PROVE HubInv' /\ WakeInv'
  <2>1. Detach(c, i) /\ LoopAgain(c) /\ UNCHANGED <<outbox, wakers, events>>
    BY <1>3 DEF ReceiveDetach, store
  <2> QED
    BY <1>1, <2>1, DetachKeeps DEF Told
<1>4. ASSUME ReceiveAck(c) PROVE HubInv' /\ WakeInv'
  <2> DEFINE id == Head(up[c]).id
  <2>1. LoopAgain(c) /\ UNCHANGED <<wakers, events>>
    BY <1>4 DEF ReceiveAck
  <2>2. ASSUME att[c][i] = AwaitingAck(id), outbox' \subseteq outbox,
               att' = [att EXCEPT ![c][i] = Ready(id)], UNCHANGED hub
        PROVE  HubInv' /\ WakeInv'
    <3>1. \A d \in Conns \ {c} : att'[d] = att[d]
      BY <2>2 DEF TypeOK
    <3>2. att[c][i] # Detached /\ att'[c][i] # Detached
      BY <1>1, <2>2 DEF TypeOK, AwaitingAck, Ready, Detached
    <3>3. \A d \in Conns, j \in Installs : att'[d][j] # Detached <=> att[d][j] # Detached
      BY <1>1, <2>2, <3>2 DEF TypeOK
    <3>4. HubInv'
      BY <2>1, <2>2, <3>3, LoopAgainLooksAgain, FrameHubInv DEF Told
    <3>5. WakeInv'
      BY <2>1, <2>2, <3>1, LoopAgainWakeInv
    <3> QED
      BY <3>4, <3>5
  <2>3. ASSUME Detach(c, i), UNCHANGED outbox PROVE HubInv' /\ WakeInv'
    BY <1>1, <2>1, <2>3, DetachKeeps DEF Told
  <2> QED
    BY <1>4, <2>2, <2>3 DEF ReceiveAck, Acknowledges
<1> QED
  BY <1>2, <1>3, <1>4 DEF Reading

(* Events of the hub: a Replaced notice is taken in the step that ends the       *)
(* attachment it is about.                                                       *)
LEMMA NotifiedKeeps ==
  ASSUME TypeOK, HubInv, WakeInv, NEW c \in Conns, Notified(c)
  PROVE  HubInv' /\ WakeInv'
<1>1. ASSUME OnWake(c) PROVE HubInv' /\ WakeInv'
  <2>1. /\ Takes(c, "wake") /\ LoopAgain(c)
        /\ UNCHANGED <<outbox, wakers, hub, att>>
    BY <1>1 DEF OnWake, store
  <2>2. \A i \in Installs : Head(events[c]) # Replaced(i)
    BY <2>1 DEF Takes, Replaced
  <2>3. \A d \in Conns, i \in Installs : Told(d, i) => Told(d, i)'
    BY <2>1, <2>2, TakesKeepsTold
  <2>4. HubInv'
    BY <2>1, <2>3, LoopAgainLooksAgain, FrameHubInv
  <2>5. \A d \in Conns \ {c} : events'[d] = events[d]
    BY <2>1 DEF Takes, TypeOK
  <2>6. WakeInv'
    BY <2>1, <2>5, LoopAgainWakeInv
  <2> QED
    BY <2>4, <2>6
<1>2. ASSUME OnReplaced(c) PROVE HubInv' /\ WakeInv'
  <2> DEFINE i == Head(events[c]).install
  <2>1. /\ Takes(c, "replaced") /\ Detach(c, i) /\ LoopAgain(c)
        /\ UNCHANGED <<outbox, wakers>>
    BY <1>2 DEF OnReplaced, store
  <2>2. Head(events[c]) \in SocketEvent /\ Head(events[c]).type = "replaced"
    BY <2>1, TakesType DEF Takes
  <2>3. i \in Installs
    BY <2>2 DEF SocketEvent
  <2>4. \A j \in Installs : j # i => Head(events[c]) # Replaced(j)
    BY DEF Replaced
  <2>5. \A d \in Conns, j \in Installs : Told(d, j) /\ <<d, j>> # <<c, i>> => Told(d, j)'
    BY <2>1, <2>4, TakesKeepsTold
  <2>6. \A d \in Conns \ {c} : events'[d] = events[d]
    BY <2>1 DEF Takes, TypeOK
  <2> QED
    BY <2>1, <2>3, <2>5, <2>6, DetachKeeps
<1> QED
  BY <1>1, <1>2 DEF Notified

(* The end of a connection takes its channel, its attachments and its entries of *)
(* the hub together.                                                             *)
LEMMA ShutdownKeeps ==
  ASSUME TypeOK, HubInv, WakeInv, NEW c \in Conns, Shutdown(c)
  PROVE  HubInv' /\ WakeInv'
<1>1. /\ DetachLocally(c, Installs) /\ HubDetach(c, Installs \cap Attached(c))
      /\ UNCHANGED <<outbox, waking, unwoken>>
  <2>1. Installs \cap Attached(c) = Attached(c)
    BY DEF Attached
  <2> QED
    BY <2>1 DEF Shutdown, store, wakers
<1>2. /\ pc'[c] = "closed"
      /\ \A d \in Conns \ {c} : pc'[d] = pc[d] /\ todo'[d] = todo[d] /\ events'[d] = events[d]
  BY DEF Shutdown, TypeOK
<1>3. \A d \in Conns \ {c} : att'[d] = att[d]
  BY <1>1 DEF DetachLocally, TypeOK
<1>4. HubInv'
  <2>1. \A d \in Conns, i \in Installs :
          Told(d, i) /\ ~(d = c /\ i \in Installs) => Told(d, i)'
    BY <1>2 DEF Told
  <2>2. \A d \in Conns :
          pc[d] # "closed" => pc'[d] # "closed" \/ (d = c /\ Installs = Installs)
    BY <1>2
  <2> QED
    BY <1>1, <2>1, <2>2, DetachHubInv
<1>5. WakeInv'
  BY <1>1, <1>2, <1>3, FrameWakeInv DEF Polled
<1> QED
  BY <1>4, <1>5

(* Every step of a connection task.                                              *)
LEMMA ConnectionKeeps ==
  ASSUME TypeOK, HubInv, WakeInv, NEW c \in Conns, Connection(c)
  PROVE  HubInv' /\ WakeInv'
<1>1. ASSUME Heartbeat(c) PROVE HubInv' /\ WakeInv'
  <2>1. LoopAgain(c) /\ UNCHANGED <<outbox, wakers, hub, att, events>>
    BY <1>1 DEF Heartbeat, store
  <2>2. HubInv'
    BY <2>1, LoopAgainLooksAgain, FrameHubInv DEF Told
  <2>3. WakeInv'
    BY <2>1, LoopAgainWakeInv
  <2> QED
    BY <2>2, <2>3
<1>2. ASSUME CloseBroken(c) \/ CloseOnError(c) PROVE HubInv' /\ WakeInv'
  BY <1>2, ShutdownKeeps DEF CloseBroken, CloseOnError
<1> QED
  BY <1>1, <1>2, PollingKeeps, AttachingKeeps, ReadingKeeps, NotifiedKeeps DEF Connection

(* A device that connects finds a task that holds nothing.                       *)
LEMMA DeviceKeeps ==
  ASSUME TypeOK, HubInv, WakeInv, NEW c \in Conns, Device(c)
  PROVE  HubInv' /\ WakeInv'
<1>1. UNCHANGED <<outbox, waking, unwoken, hub, todo, att, events>>
  BY DEF Device, Connect, DeviceReads, DeviceSeesClose, LinkBreaks, DeviceAttaches,
         DeviceMisbehaves, store, wakers, task
<1>2. CASE Connect(c)
  <2>1. pc[c] = "closed" /\ \A d \in Conns \ {c} : pc'[d] = pc[d]
    BY <1>2 DEF Connect, TypeOK
  <2>2. pc' = [pc EXCEPT ![c] = "poll"]
    BY <1>2 DEF Connect
  <2>3. \A d \in Conns : pc[d] # "closed" => pc'[d] # "closed"
    BY <2>1
  <2>4. HubInv'
    BY <1>1, <2>3, FrameHubInv DEF Told
  <2>5. \A i \in Installs : att'[c][i].state # "ready"
    BY <1>1, <2>1 DEF HubInv, HoldersRun, Detached
  <2>6. WakeInv'
    BY <1>1, <2>1, <2>5, FrameWakeInv DEF Polled
  <2> QED
    BY <2>4, <2>6
<1>3. CASE ~Connect(c)
  <2>1. UNCHANGED pc
    BY <1>3 DEF Device, DeviceReads, DeviceSeesClose, LinkBreaks, DeviceAttaches,
                DeviceMisbehaves, task
  <2> QED
    BY <1>1, <2>1, IdleHubInv, FrameWakeInv DEF Polled
<1> QED
  BY <1>2, <1>3

(* A restart leaves no connection and no owner.                                  *)
LEMMA CrashKeeps ==
  ASSUME Crash
  PROVE  HubInv' /\ WakeInv'
<1>1. /\ \A i \in Installs : hub'[i] = None
      /\ \A c \in Conns : pc'[c] = "closed"
      /\ \A c \in Conns, i \in Installs : att'[c][i] = Detached
  BY DEF Crash
<1>2. HubInv'
  BY <1>1, NoneAssumption DEF HubInv, HubOwner, Superseded, HoldersRun, Attached
<1>3. WakeInv'
  BY <1>1 DEF WakeInv, Polled
<1> QED
  BY <1>2, <1>3

-------------------------------------------------------------------------------
(* The theorems.                                                                 *)

(* HubInv and WakeInv hold when nobody is connected.                             *)
LEMMA InitHubInv == Init => HubInv /\ WakeInv
BY NoneAssumption DEF Init, HubInv, HubOwner, Superseded, HoldersRun, Attached, WakeInv, Polled,
                      Detached

(* HubInv and WakeInv are inductive together, given the types.                   *)
LEMMA HubInvInductive == TypeOK /\ HubInv /\ WakeInv /\ [Next]_vars => HubInv' /\ WakeInv'
<1> SUFFICES ASSUME TypeOK, HubInv, WakeInv, [Next]_vars PROVE HubInv' /\ WakeInv'
  OBVIOUS
<1>1. CASE UNCHANGED vars
  <2>1. UNCHANGED <<outbox, waking, unwoken, hub, pc, todo, att, events>>
    BY <1>1 DEF vars, store, wakers, task
  <2> QED
    BY <2>1, IdleHubInv, FrameWakeInv DEF Polled
<1>2. CASE Producers
  BY <1>2, ProducersKeep
<1>3. CASE Crash
  BY <1>3, CrashKeeps
<1>4. ASSUME NEW c \in Conns, Connection(c) PROVE HubInv' /\ WakeInv'
  BY <1>4, ConnectionKeeps
<1>5. ASSUME NEW c \in Conns, Device(c) PROVE HubInv' /\ WakeInv'
  BY <1>5, DeviceKeeps
<1> QED
  BY <1>1, <1>2, <1>3, <1>4, <1>5 DEF Next

(* HubInv and WakeInv hold in every reachable state.                             *)
LEMMA SpecHubInv == Spec => [](HubInv /\ WakeInv)
BY SpecResumeInv, InitHubInv, HubInvInductive, PTL DEF Spec

(* Whatever attaches, detaches, supersedes, ends or restarts, an entry of the    *)
(* SocketHub names a running connection that holds the attachment.               *)
THEOREM OwnersAttached == Spec => []HubOwner
<1>1. HubInv => HubOwner
  BY DEF HubInv
<1> QED
  BY <1>1, SpecHubInv, PTL

(* A connection that has lost an install to another one has the Replaced notice  *)
(* in its channel until it lets go of the attachment.                            *)
THEOREM SupersededTold == Spec => []Superseded
<1>1. HubInv => Superseded
  BY DEF HubInv
<1> QED
  BY <1>1, SpecHubInv, PTL

(* A connection never sleeps in select! on a message it could send, for any      *)
(* number of producers that insert first and wake later.                         *)
THEOREM NoWakeLost == Spec => []NoLostWake
<1>1. WakeInv => NoLostWake
  BY DEF WakeInv, Polled, NoLostWake
<1> QED
  BY <1>1, SpecHubInv, PTL

-------------------------------------------------------------------------------
(* The view of the device.  What the device will believe once it has read every  *)
(* frame under way is what the connection holds, unless an attach is still to be *)
(* answered.                                                                     *)

IsAnswer(f, i) == f.type \in {"attached", "detached"} /\ f.install = i

Silent(s, i) == \A k \in 1..Len(s) : ~IsAnswer(s[k], i)

(* The last answer about install i says that it is attached.                     *)
EndsAttached(s, i) ==
  \E k \in 1..Len(s) : /\ IsAnswer(s[k], i) /\ s[k].type = "attached"
                       /\ \A j \in (k + 1)..Len(s) : ~IsAnswer(s[j], i)

(* A device that believes v reads the frames of s.                               *)
Believes(s, v, i) == EndsAttached(s, i) \/ (Silent(s, i) /\ v = "yes")

(* An attach that will succeed is under way, or being served.                    *)
Asks(f, i) == f.type = "attach" /\ f.install = i /\ f.proof

Asked(c, i) == \E k \in 1..Len(up[c]) : Asks(up[c][k], i)

Serving(c, i) ==
  pc[c] \in {"attach_max", "attach_through", "attach_hub"} /\ req[c].install = i

Agreed(c, i) == Believes(down[c], view[c][i], i) <=> att[c][i] # Detached

OnlyMessages(s) == \A k \in 1..Len(s) : s[k].type = "message"

ConnView(c) ==
  /\ OnlyMessages(batch[c])
  /\ ~link[c] => down[c] = <<>> /\ \A i \in Installs : view[c][i] = "no"
  /\ link[c] /\ pc[c] # "closed"
       => \A i \in Installs : Asked(c, i) \/ Serving(c, i) \/ Agreed(c, i)

ViewInv == \A c \in Conns : ConnView(c)

(* Frames that say nothing about an install change no belief.                    *)
LEMMA SilentBelieves ==
  ASSUME NEW s \in Seq(ServerFrame), NEW t \in Seq(ServerFrame), NEW i, NEW v, Silent(t, i)
  PROVE  Believes(s \o t, v, i) <=> Believes(s, v, i)
<1>1. /\ s \o t \in Seq(ServerFrame)
      /\ Len(s) \in Nat /\ Len(t) \in Nat /\ Len(s \o t) = Len(s) + Len(t)
  OBVIOUS
<1>2. \A k \in 1..Len(s) : (s \o t)[k] = s[k]
  OBVIOUS
<1>3. \A k \in (Len(s) + 1)..Len(s \o t) : ~IsAnswer((s \o t)[k], i)
  <2> SUFFICES ASSUME NEW k \in (Len(s) + 1)..Len(s \o t)
               PROVE  ~IsAnswer((s \o t)[k], i)
    OBVIOUS
  <2>1. k - Len(s) \in 1..Len(t) /\ (s \o t)[k] = t[k - Len(s)]
    BY <1>1
  <2> QED
    BY <2>1 DEF Silent
<1>4. Silent(s \o t, i) <=> Silent(s, i)
  <2>1. \A k \in 1..Len(s \o t) : k \in 1..Len(s) \/ k \in (Len(s) + 1)..Len(s \o t)
    BY <1>1
  <2>2. \A k \in 1..Len(s) : k \in 1..Len(s \o t)
    BY <1>1
  <2> QED
    BY <1>2, <1>3, <2>1, <2>2 DEF Silent
<1>5. ASSUME EndsAttached(s, i) PROVE EndsAttached(s \o t, i)
  <2>1. PICK k \in 1..Len(s) : /\ IsAnswer(s[k], i) /\ s[k].type = "attached"
                               /\ \A j \in (k + 1)..Len(s) : ~IsAnswer(s[j], i)
    BY <1>5 DEF EndsAttached
  <2>2. k \in 1..Len(s \o t)
    BY <1>1
  <2>3. ASSUME NEW j \in (k + 1)..Len(s \o t) PROVE ~IsAnswer((s \o t)[j], i)
    <3>1. (j \in (k + 1)..Len(s) /\ j \in 1..Len(s)) \/ j \in (Len(s) + 1)..Len(s \o t)
      BY <1>1
    <3> QED
      BY <1>2, <1>3, <2>1, <3>1
  <2> QED
    BY <1>2, <2>1, <2>2, <2>3 DEF EndsAttached
<1>6. ASSUME EndsAttached(s \o t, i) PROVE EndsAttached(s, i)
  <2>1. PICK k \in 1..Len(s \o t) :
          /\ IsAnswer((s \o t)[k], i) /\ (s \o t)[k].type = "attached"
          /\ \A j \in (k + 1)..Len(s \o t) : ~IsAnswer((s \o t)[j], i)
    BY <1>6 DEF EndsAttached
  <2>2. k \in 1..Len(s) \/ k \in (Len(s) + 1)..Len(s \o t)
    BY <1>1
  <2>3. k \in 1..Len(s)
    BY <1>3, <2>1, <2>2
  <2>4. ASSUME NEW j \in (k + 1)..Len(s) PROVE ~IsAnswer(s[j], i)
    <3>1. j \in (k + 1)..Len(s \o t) /\ j \in 1..Len(s)
      BY <1>1, <2>3
    <3> QED
      BY <1>2, <2>1, <3>1
  <2> QED
    BY <1>2, <2>1, <2>3, <2>4 DEF EndsAttached
<1> QED
  BY <1>4, <1>5, <1>6 DEF Believes

(* The last answer decides.                                                      *)
LEMMA AnswerBelieves ==
  ASSUME NEW s \in Seq(ServerFrame), NEW f \in ServerFrame, NEW i, NEW v, IsAnswer(f, i)
  PROVE  Believes(s \o <<f>>, v, i) <=> f.type = "attached"
<1> DEFINE t == s \o <<f>>
<1>1. t \in Seq(ServerFrame) /\ Len(s) \in Nat /\ Len(t) = Len(s) + 1 /\ t[Len(t)] = f
  OBVIOUS
<1>2. Len(t) \in 1..Len(t)
  BY <1>1
<1> HIDE DEF t
<1>3. ~Silent(t, i)
  BY <1>1, <1>2 DEF Silent
<1>4. ASSUME f.type = "attached" PROVE EndsAttached(t, i)
  <2>1. \A j \in (Len(t) + 1)..Len(t) : FALSE
    BY <1>1
  <2> QED
    BY <1>1, <1>2, <1>4, <2>1 DEF EndsAttached
<1>5. ASSUME EndsAttached(t, i) PROVE f.type = "attached"
  <2>1. PICK k \in 1..Len(t) : /\ IsAnswer(t[k], i) /\ t[k].type = "attached"
                               /\ \A j \in (k + 1)..Len(t) : ~IsAnswer(t[j], i)
    BY <1>5 DEF EndsAttached
  <2>2. Len(t) \notin (k + 1)..Len(t)
    BY <1>1, <2>1
  <2>3. k = Len(t)
    BY <1>1, <2>2
  <2> QED
    BY <1>1, <2>1, <2>3
<1>6. Believes(t, v, i) <=> f.type = "attached"
  BY <1>3, <1>4, <1>5 DEF Believes
<1> QED
  BY <1>6 DEF t

(* Taking a frame off the wire changes the belief as ViewAfter says.             *)
LEMMA TailBelieves ==
  ASSUME NEW s \in Seq(ServerFrame), s # <<>>, NEW i, NEW v, NEW w,
         IF IsAnswer(Head(s), i) THEN w = "yes" <=> Head(s).type = "attached"
                                 ELSE w = "yes" <=> v = "yes"
  PROVE  Believes(Tail(s), w, i) <=> Believes(s, v, i)
<1> DEFINE t == Tail(s)
<1>1. /\ Len(s) \in Nat /\ Len(s) >= 1 /\ Len(t) = Len(s) - 1
      /\ \A k \in 1..Len(t) : t[k] = s[k + 1]
      /\ Head(s) = s[1]
  OBVIOUS
<1> HIDE DEF t
<1>2. \A k \in 1..Len(t) : k + 1 \in 1..Len(s)
  BY <1>1
<1>3. \A k \in 1..Len(s) : k = 1 \/ k - 1 \in 1..Len(t)
  BY <1>1
<1>4. \A k \in 2..Len(s) : k - 1 \in 1..Len(t) /\ t[k - 1] = s[k]
  BY <1>1
<1>5. 1 \in 1..Len(s)
  BY <1>1
<1>6. Silent(s, i) <=> Silent(t, i) /\ ~IsAnswer(s[1], i)
  <2>1. ASSUME Silent(s, i) PROVE Silent(t, i) /\ ~IsAnswer(s[1], i)
    BY <1>1, <1>2, <1>5, <2>1 DEF Silent
  <2>2. ASSUME Silent(t, i), ~IsAnswer(s[1], i) PROVE Silent(s, i)
    <3> SUFFICES ASSUME NEW k \in 1..Len(s) PROVE ~IsAnswer(s[k], i)
      BY DEF Silent
    <3>1. k = 1 \/ k \in 2..Len(s)
      BY <1>1
    <3> QED
      BY <1>4, <2>2, <3>1 DEF Silent
  <2> QED
    BY <2>1, <2>2
<1>7. ASSUME EndsAttached(t, i) PROVE EndsAttached(s, i)
  <2>1. PICK k \in 1..Len(t) : /\ IsAnswer(t[k], i) /\ t[k].type = "attached"
                               /\ \A j \in (k + 1)..Len(t) : ~IsAnswer(t[j], i)
    BY <1>7 DEF EndsAttached
  <2>2. k + 1 \in 1..Len(s) /\ s[k + 1] = t[k]
    BY <1>1, <1>2
  <2>3. ASSUME NEW j \in (k + 1 + 1)..Len(s) PROVE ~IsAnswer(s[j], i)
    <3>1. j \in 2..Len(s) /\ j - 1 \in (k + 1)..Len(t)
      BY <1>1
    <3> QED
      BY <1>4, <2>1, <3>1
  <2> QED
    BY <2>1, <2>2, <2>3 DEF EndsAttached
<1>8. ASSUME EndsAttached(s, i), ~Silent(t, i) PROVE EndsAttached(t, i)
  <2>1. PICK k \in 1..Len(s) : /\ IsAnswer(s[k], i) /\ s[k].type = "attached"
                               /\ \A j \in (k + 1)..Len(s) : ~IsAnswer(s[j], i)
    BY <1>8 DEF EndsAttached
  <2>2. PICK m \in 1..Len(t) : IsAnswer(t[m], i)
    BY <1>8 DEF Silent
  <2>3. m + 1 \in 1..Len(s) /\ s[m + 1] = t[m]
    BY <1>1, <1>2
  <2>4. m + 1 \notin (k + 1)..Len(s)
    BY <2>1, <2>2, <2>3
  <2>5. k \in 2..Len(s) /\ k - 1 \in 1..Len(t)
    BY <1>1, <2>3, <2>4
  <2>6. ASSUME NEW j \in (k - 1 + 1)..Len(t) PROVE ~IsAnswer(t[j], i)
    <3>1. j \in 1..Len(t) /\ j + 1 \in (k + 1)..Len(s)
      BY <1>1, <2>5
    <3> QED
      BY <1>1, <2>1, <3>1
  <2> QED
    BY <1>4, <2>1, <2>5, <2>6 DEF EndsAttached
<1>9. ASSUME Silent(t, i) PROVE EndsAttached(s, i) <=> IsAnswer(s[1], i) /\ s[1].type = "attached"
  <2>1. ASSUME EndsAttached(s, i) PROVE IsAnswer(s[1], i) /\ s[1].type = "attached"
    <3>1. PICK k \in 1..Len(s) : IsAnswer(s[k], i) /\ s[k].type = "attached"
      BY <2>1 DEF EndsAttached
    <3>2. k = 1 \/ k \in 2..Len(s)
      BY <1>1
    <3> QED
      BY <1>4, <1>9, <3>1, <3>2 DEF Silent
  <2>2. ASSUME IsAnswer(s[1], i), s[1].type = "attached" PROVE EndsAttached(s, i)
    <3>1. \A j \in (1 + 1)..Len(s) : ~IsAnswer(s[j], i)
      BY <1>4, <1>9 DEF Silent
    <3> QED
      BY <1>5, <2>2, <3>1 DEF EndsAttached
  <2> QED
    BY <2>1, <2>2
<1>10. EndsAttached(t, i) => ~Silent(t, i)
  BY DEF EndsAttached, Silent
<1>11. Believes(t, w, i) <=> Believes(s, v, i)
  BY <1>1, <1>6, <1>7, <1>8, <1>9, <1>10 DEF Believes
<1> QED
  BY <1>11 DEF t

(* What one connection does leaves the others alone.                             *)
Untouched(d) ==
  /\ link'[d] = link[d] /\ view'[d] = view[d] /\ down'[d] = down[d] /\ up'[d] = up[d]
  /\ pc'[d] = pc[d] /\ req'[d] = req[d] /\ att'[d] = att[d] /\ batch'[d] = batch[d]

(* A connection that is left alone stays in agreement.                           *)
LEMMA UntouchedKeeps ==
  ASSUME NEW d, ConnView(d), Untouched(d)
  PROVE  ConnView(d)'
<1>1. \A i \in Installs : /\ Asked(d, i) <=> Asked(d, i)'
                          /\ Serving(d, i) <=> Serving(d, i)'
                          /\ Agreed(d, i) <=> Agreed(d, i)'
  BY DEF Untouched, Asked, Serving, Agreed
<1> QED
  BY <1>1 DEF ConnView, Untouched

(* A step of a task that writes the given frames.                                *)
LEMMA TaskView ==
  ASSUME TypeOK, NEW c \in Conns, ConnView(c), UNCHANGED device, pc[c] # "closed",
         OnlyMessages(batch'[c]),
         NEW frames \in Seq(ServerFrame),
         down'[c] = IF link[c] THEN down[c] \o frames ELSE down[c],
         \A i \in Installs :
           \/ Asked(c, i)' \/ Serving(c, i)'
           \/ /\ Asked(c, i) => Asked(c, i)'
              /\ Serving(c, i) => Serving(c, i)'
              /\ Silent(frames, i)
              /\ att'[c][i] # Detached <=> att[c][i] # Detached
           \/ \E f \in ServerFrame :
                /\ frames = <<f>> /\ IsAnswer(f, i)
                /\ f.type = "attached" <=> att'[c][i] # Detached
  PROVE  ConnView(c)'
<1>1. UNCHANGED <<link, view>> /\ down[c] \in Seq(ServerFrame)
  BY DEF device, TypeOK
<1>2. ASSUME link[c], NEW i \in Installs, ~Asked(c, i)', ~Serving(c, i)'
      PROVE  Agreed(c, i)'
  <2>1. down'[c] = down[c] \o frames /\ view'[c] = view[c]
    BY <1>1, <1>2
  <2>2. CASE /\ Asked(c, i) => Asked(c, i)'
             /\ Serving(c, i) => Serving(c, i)'
             /\ Silent(frames, i)
             /\ att'[c][i] # Detached <=> att[c][i] # Detached
    <3>1. Agreed(c, i)
      BY <1>2, <2>2 DEF ConnView
    <3>2. Believes(down'[c], view'[c][i], i) <=> Believes(down[c], view[c][i], i)
      BY <1>1, <2>1, <2>2, SilentBelieves
    <3> QED
      BY <2>2, <3>1, <3>2 DEF Agreed
  <2>3. ASSUME NEW f \in ServerFrame, frames = <<f>>, IsAnswer(f, i),
               f.type = "attached" <=> att'[c][i] # Detached
        PROVE  Agreed(c, i)'
    <3>1. Believes(down'[c], view'[c][i], i) <=> f.type = "attached"
      BY <1>1, <2>1, <2>3, AnswerBelieves
    <3> QED
      BY <2>3, <3>1 DEF Agreed
  <2> QED
    BY <1>2, <2>2, <2>3
<1>3. ~link'[c] => down'[c] = <<>> /\ \A i \in Installs : view'[c][i] = "no"
  BY <1>1 DEF ConnView
<1> QED
  BY <1>1, <1>2, <1>3 DEF ConnView

(* A task reads a frame: every attach behind it stays.                           *)
LEMMA ReadsAsked ==
  ASSUME TypeOK, NEW c \in Conns, NEW type, Reads(c, type), NEW i,
         ~Asks(Head(up[c]), i), Asked(c, i)
  PROVE  Asked(c, i)'
<1>1. PICK k \in 1..Len(up[c]) : Asks(up[c][k], i)
  BY DEF Asked
<1>2. up[c] \in Seq(ClientFrame) /\ up[c] # <<>> /\ up'[c] = Tail(up[c])
  BY DEF Reads, TypeOK
<1>3. Head(up[c]) = up[c][1] /\ Len(up[c]) \in Nat
  BY <1>2
<1>4. k # 1
  BY <1>1, <1>3
<1>5. k - 1 \in 1..Len(Tail(up[c])) /\ Tail(up[c])[k - 1] = up[c][k]
  BY <1>1, <1>2, <1>3, <1>4
<1> QED
  BY <1>1, <1>2, <1>5 DEF Asked

(* A device sends a frame: the attaches ahead of it stay, and it may be one.     *)
LEMMA SendsAsked ==
  ASSUME TypeOK, NEW c \in Conns, NEW f \in ClientFrame, DeviceSends(c, f), pc[c] # "closed"
  PROVE  \A i \in Installs : Asked(c, i) \/ Asks(f, i) => Asked(c, i)'
<1>1. up[c] \in Seq(ClientFrame) /\ up'[c] = Append(up[c], f)
  BY DEF DeviceSends, TypeOK
<1>2. /\ \A k \in 1..Len(up[c]) : k \in 1..Len(up'[c]) /\ up'[c][k] = up[c][k]
      /\ Len(up'[c]) \in 1..Len(up'[c]) /\ up'[c][Len(up'[c])] = f
  BY <1>1
<1> QED
  BY <1>2 DEF Asked

(* A task that waits or polls serves no attach.                                  *)
LEMMA NotServing ==
  ASSUME NEW c, pc[c] \in {"poll", "select", "closed"}
  PROVE  \A i : ~Serving(c, i)
BY DEF Serving

(* Nothing is sent.                                                              *)
LEMMA NothingSent ==
  ASSUME TypeOK, NEW c \in Conns, UNCHANGED down
  PROVE  /\ <<>> \in Seq(ServerFrame)
         /\ down'[c] = IF link[c] THEN down[c] \o <<>> ELSE down[c]
         /\ \A i : Silent(<<>>, i)
<1>1. down[c] \in Seq(ServerFrame)
  BY DEF TypeOK
<1>2. down[c] \o <<>> = down[c]
  BY <1>1
<1>3. \A i : Silent(<<>>, i)
  BY DEF Silent
<1> QED
  BY <1>2, <1>3

(* What is sent is appended while the device is there.                           *)
LEMMA SentAppended ==
  ASSUME TypeOK, NEW c \in Conns, NEW frames \in Seq(ServerFrame), Send(c, frames)
  PROVE  down'[c] = IF link[c] THEN down[c] \o frames ELSE down[c]
BY DEF Send, TypeOK

(* A notice is an answer about its own install only.                             *)
LEMMA NoticeAnswers ==
  ASSUME NEW i \in Installs, NEW type \in {"attached", "detached", "attach_error"}
  PROVE  /\ Notice(type, i) \in ServerFrame /\ Notice(type, i).type = type
         /\ type # "attach_error" => IsAnswer(Notice(type, i), i)
         /\ \A j : j # i \/ type = "attach_error" => Silent(<<Notice(type, i)>>, j)
<1>1. /\ Notice(type, i) \in ServerFrame
      /\ Notice(type, i).type = type /\ Notice(type, i).install = i
  BY DEF Notice, ServerFrame
<1>2. \A j : j # i \/ type = "attach_error" => ~IsAnswer(Notice(type, i), j)
  BY <1>1 DEF IsAnswer
<1>3. \A k \in 1..Len(<<Notice(type, i)>>) : <<Notice(type, i)>>[k] = Notice(type, i)
  OBVIOUS
<1> QED
  BY <1>1, <1>2, <1>3 DEF IsAnswer, Silent

(* V2Connection::detach and the Detached frame of a detach that ended something. *)
LEMMA DetachAnswered ==
  ASSUME TypeOK, NEW c \in Conns, NEW i \in Installs, DetachLocally(c, {i}), NEW j \in Installs
  PROVE  \/ /\ Silent(DetachAnswer(c, i), j)
            /\ att'[c][j] # Detached <=> att[c][j] # Detached
         \/ \E f \in ServerFrame :
              /\ DetachAnswer(c, i) = <<f>> /\ IsAnswer(f, j)
              /\ f.type = "attached" <=> att'[c][j] # Detached
<1>1. att'[c][i] = Detached /\ (j # i => att'[c][j] = att[c][j])
  BY DEF DetachLocally, TypeOK
<1>2. CASE i \notin Attached(c)
  <2>1. att[c][i] = Detached /\ DetachAnswer(c, i) = <<>>
    BY <1>2 DEF Attached, DetachAnswer
  <2>2. Silent(<<>>, j)
    BY DEF Silent
  <2> QED
    BY <1>1, <2>1, <2>2
<1>3. CASE i \in Attached(c)
  <2>1. DetachAnswer(c, i) = <<Notice("detached", i)>>
    BY <1>3 DEF DetachAnswer
  <2> QED
    BY <1>1, <2>1, NoticeAnswers
<1> QED
  BY <1>2, <1>3

(* The rows of a batch are messages, which say nothing about attachments.        *)
LEMMA MessagesSilent ==
  ASSUME NEW s, OnlyMessages(s)
  PROVE  \A i : Silent(s, i)
BY DEF OnlyMessages, Silent, IsAnswer

(* pending_messages collects and sends messages.                                 *)
LEMMA PollingView ==
  ASSUME TypeOK, NEW c \in Conns, ConnView(c), Polling(c)
  PROVE  ConnView(c)'
<1>1. ASSUME SendBatch(c) PROVE ConnView(c)'
  <2>1. /\ pc[c] = "poll" /\ Send(c, batch[c]) /\ batch'[c] = <<>>
        /\ UNCHANGED <<up, att>> /\ UNCHANGED device
    BY <1>1 DEF SendBatch, TypeOK, device
  <2>2. batch[c] \in Seq(ServerFrame) /\ \A i \in Installs : Silent(batch[c], i)
    BY MessagesSilent DEF ConnView, TypeOK
  <2>3. \A i \in Installs : ~Serving(c, i) /\ (Asked(c, i) => Asked(c, i)')
    BY <2>1, NotServing DEF Asked
  <2>4. OnlyMessages(batch'[c])
    BY <2>1 DEF OnlyMessages
  <2>5. down'[c] = IF link[c] THEN down[c] \o batch[c] ELSE down[c]
    BY <2>1, <2>2, SentAppended
  <2>6. pc[c] # "closed"
    BY <2>1
  <2> QED
    BY <2>1, <2>2, <2>3, <2>4, <2>5, <2>6, TaskView
<1>2. ASSUME NEW i \in Installs, PollInstall(c, i) PROVE ConnView(c)'
  <2>1. pc[c] = "poll" /\ UNCHANGED <<up, down>> /\ UNCHANGED device
    BY <1>2 DEF PollInstall, wire, device
  <2>2. /\ OnlyMessages(batch'[c])
        /\ \A j \in Installs : att'[c][j] # Detached <=> att[c][j] # Detached
    <3>1. CASE UNCHANGED <<att, batch>>
      BY <3>1 DEF ConnView
    <3>2. ASSUME NEW r \in outbox, att[c][i].state = "ready",
                 att' = [att EXCEPT ![c][i] = AwaitingAck(r.id)],
                 batch' = [batch EXCEPT ![c] =
                   Append(@, [type |-> "message", install |-> i, id |-> r.id])]
          PROVE  /\ OnlyMessages(batch'[c])
                 /\ \A j \in Installs : att'[c][j] # Detached <=> att[c][j] # Detached
      <4> DEFINE f == [type |-> "message", install |-> i, id |-> r.id]
      <4>1. f.type = "message"
        OBVIOUS
      <4>2. batch[c] \in Seq(ServerFrame) /\ batch'[c] = Append(batch[c], f)
        BY <3>2 DEF TypeOK
      <4> HIDE DEF f
      <4>3. \A k \in 1..Len(batch'[c]) : k \in 1..Len(batch[c]) \/ k = Len(batch[c]) + 1
        BY <4>2
      <4>4. \A k \in 1..Len(batch'[c]) : batch'[c][k] = f \/
              (k \in 1..Len(batch[c]) /\ batch'[c][k] = batch[c][k])
        BY <4>2, <4>3
      <4>5. OnlyMessages(batch'[c])
        BY <4>1, <4>4 DEF ConnView, OnlyMessages
      <4>6. att[c][i] # Detached /\ att'[c][i] = AwaitingAck(r.id)
        BY <3>2 DEF TypeOK, Detached
      <4>7. att'[c][i] # Detached
        BY <4>6 DEF AwaitingAck, Detached
      <4>8. \A j \in Installs : j # i => att'[c][j] = att[c][j]
        BY <3>2 DEF TypeOK
      <4> QED
        BY <4>5, <4>6, <4>7, <4>8
    <3> QED
      BY <1>2, <3>1, <3>2 DEF PollInstall
  <2>3. \A j \in Installs : ~Serving(c, j) /\ (Asked(c, j) => Asked(c, j)')
    BY <2>1, NotServing DEF Asked
  <2>4. pc[c] # "closed"
    BY <2>1
  <2> QED
    BY <2>1, <2>2, <2>3, <2>4, NothingSent, TaskView
<1> QED
  BY <1>1, <1>2 DEF Polling

(* An attach is being served until the step that answers it and makes it hold.   *)
LEMMA AttachingView ==
  ASSUME TypeOK, NEW c \in Conns, ConnView(c), Attaching(c)
  PROVE  ConnView(c)'
<1>1. ASSUME ReadMaxOutboxId(c) \/ AckSocketThrough(c) PROVE ConnView(c)'
  <2>1. /\ pc[c] # "closed" /\ pc'[c] \in {"attach_through", "attach_hub"}
        /\ UNCHANGED <<up, down, batch, att>> /\ UNCHANGED device
    BY <1>1 DEF ReadMaxOutboxId, AckSocketThrough, wire, device, TypeOK
  <2>2. req'[c].install = req[c].install
    <3>1. CASE AckSocketThrough(c)
      BY <3>1 DEF AckSocketThrough
    <3>2. CASE ReadMaxOutboxId(c)
      <4>1. PICK m : req' = [req EXCEPT ![c] = [install |-> @.install,
                                                cursor |-> Clamp(@.cursor, m)]]
        BY <3>2 DEF ReadMaxOutboxId
      <4> QED
        BY <4>1 DEF TypeOK
    <3> QED
      BY <1>1, <3>1, <3>2
  <2>3. \A i \in Installs : /\ Serving(c, i) => Serving(c, i)'
                            /\ Asked(c, i) => Asked(c, i)'
    BY <2>1, <2>2 DEF Serving, Asked
  <2>4. OnlyMessages(batch'[c])
    BY <2>1 DEF ConnView
  <2> QED
    BY <2>1, <2>3, <2>4, NothingSent, TaskView
<1>2. ASSUME FinishAttach(c) PROVE ConnView(c)'
  <2> DEFINE i == req[c].install
             f == Notice("attached", i)
  <2>1. i \in Installs
    BY DEF TypeOK
  <2>2. /\ pc[c] = "attach_hub" /\ UNCHANGED <<up, batch>> /\ UNCHANGED device
        /\ att' = [att EXCEPT ![c][i] = Ready(req[c].cursor)]
        /\ Send(c, <<f>>)
    BY <1>2 DEF FinishAttach, device
  <2>3. att'[c][i] # Detached /\ \A j \in Installs : j # i => att'[c][j] = att[c][j]
    BY <2>1, <2>2 DEF TypeOK, Ready, Detached
  <2>4. /\ f \in ServerFrame /\ f.type = "attached" /\ IsAnswer(f, i)
        /\ \A j \in Installs : j # i => Silent(<<f>>, j)
    BY <2>1, NoticeAnswers
  <2>5. \A j \in Installs : /\ j # i => ~Serving(c, j)
                            /\ Asked(c, j) => Asked(c, j)'
    BY <2>2 DEF Serving, Asked
  <2>6. <<f>> \in Seq(ServerFrame) /\ OnlyMessages(batch'[c]) /\ pc[c] # "closed"
    BY <2>2, <2>4 DEF ConnView
  <2>7. down'[c] = IF link[c] THEN down[c] \o <<f>> ELSE down[c]
    BY <2>2, <2>6, SentAppended
  <2> HIDE DEF f, i
  <2>8. \A j \in Installs :
          \/ /\ Asked(c, j) => Asked(c, j)'
             /\ Serving(c, j) => Serving(c, j)'
             /\ Silent(<<f>>, j)
             /\ att'[c][j] # Detached <=> att[c][j] # Detached
          \/ \E g \in ServerFrame :
               /\ <<f>> = <<g>> /\ IsAnswer(g, j)
               /\ g.type = "attached" <=> att'[c][j] # Detached
    BY <2>3, <2>4, <2>5
  <2> QED
    BY <2>2, <2>6, <2>7, <2>8, TaskView
<1> QED
  BY <1>1, <1>2 DEF Attaching

(* An attach that is read is served or refused; a detach is answered if it ended *)
(* something, and a wrong acknowledgement always.                                *)
LEMMA ReadingView ==
  ASSUME TypeOK, NEW c \in Conns, ConnView(c), Reading(c)
  PROVE  ConnView(c)'
<1> DEFINE i == Head(up[c]).install
<1>1. i \in Installs /\ Head(up[c]) \in ClientFrame
  BY ReadsType DEF Reading, ReceiveAttach, ReceiveDetach, ReceiveAck
<1>2. /\ pc[c] = "select" /\ pc[c] # "closed" /\ OnlyMessages(batch'[c])
      /\ UNCHANGED device
      /\ \A j \in Installs : ~Serving(c, j)
  BY NotServing DEF Reading, ReceiveAttach, ReceiveDetach, ReceiveAck, Reads, ConnView
<1>3. ASSUME ReceiveAttach(c) PROVE ConnView(c)'
  <2>1. Reads(c, "attach") /\ Head(up[c]).type = "attach" /\ UNCHANGED att
    BY <1>3 DEF ReceiveAttach, Reads
  <2>2. CASE Head(up[c]).proof
    <3>1. /\ pc' = [pc EXCEPT ![c] = "attach_max"]
          /\ req' = [req EXCEPT ![c] = [install |-> i, cursor |-> Head(up[c]).cursor]]
          /\ UNCHANGED down
      BY <1>3, <2>2 DEF ReceiveAttach
    <3>2. pc'[c] = "attach_max" /\ req'[c].install = i
      BY <3>1 DEF TypeOK
    <3>3. \A j \in Installs : j = i => Serving(c, j)'
      BY <3>2 DEF Serving
    <3>4. \A j \in Installs : j # i => ~Asks(Head(up[c]), j)
      BY DEF Asks
    <3>5. \A j \in Installs : j # i => (Asked(c, j) => Asked(c, j)')
      BY <2>1, <3>4, ReadsAsked
    <3> HIDE DEF i
    <3> QED
      BY <1>2, <2>1, <3>1, <3>3, <3>5, NothingSent, TaskView
  <2>3. CASE ~Head(up[c]).proof
    <3>1. Send(c, <<Notice("attach_error", i)>>)
      BY <1>3, <2>3 DEF ReceiveAttach
    <3>2. /\ <<Notice("attach_error", i)>> \in Seq(ServerFrame)
          /\ \A j \in Installs : Silent(<<Notice("attach_error", i)>>, j)
      BY <1>1, NoticeAnswers, NoticeType
    <3>3. down'[c] = IF link[c] THEN down[c] \o <<Notice("attach_error", i)>> ELSE down[c]
      BY <3>1, <3>2, SentAppended
    <3>4. \A j \in Installs : Asked(c, j) => Asked(c, j)'
      BY <2>1, <2>3, ReadsAsked DEF Asks
    <3> QED
      BY <1>2, <2>1, <3>2, <3>3, <3>4, TaskView
  <2> QED
    BY <2>2, <2>3
<1>4. ASSUME ReceiveDetach(c) PROVE ConnView(c)'
  <2>1. /\ Reads(c, "detach") /\ Head(up[c]).type = "detach"
        /\ DetachLocally(c, {i}) /\ Send(c, DetachAnswer(c, i))
    BY <1>4 DEF ReceiveDetach, Reads, Detach
  <2>2. DetachAnswer(c, i) \in Seq(ServerFrame)
    BY <1>1, DetachAnswerType
  <2>3. down'[c] = IF link[c] THEN down[c] \o DetachAnswer(c, i) ELSE down[c]
    BY <2>1, <2>2, SentAppended
  <2>4. \A j \in Installs : Asked(c, j) => Asked(c, j)'
    BY <2>1, ReadsAsked DEF Asks
  <2>5. \A j \in Installs :
          \/ /\ Silent(DetachAnswer(c, i), j)
             /\ att'[c][j] # Detached <=> att[c][j] # Detached
          \/ \E f \in ServerFrame :
               /\ DetachAnswer(c, i) = <<f>> /\ IsAnswer(f, j)
               /\ f.type = "attached" <=> att'[c][j] # Detached
    BY <1>1, <2>1, DetachAnswered
  <2> QED
    BY <1>2, <2>2, <2>3, <2>4, <2>5, TaskView
<1>5. ASSUME ReceiveAck(c) PROVE ConnView(c)'
  <2> DEFINE id == Head(up[c]).id
             f == Notice("detached", i)
  <2>1. Reads(c, "ack") /\ Head(up[c]).type = "ack"
    BY <1>5 DEF ReceiveAck, Reads
  <2>2. \A j \in Installs : Asked(c, j) => Asked(c, j)'
    BY <2>1, ReadsAsked DEF Asks
  <2>3. ASSUME att[c][i] = AwaitingAck(id), att' = [att EXCEPT ![c][i] = Ready(id)],
               UNCHANGED down
        PROVE  ConnView(c)'
    <3>1. att[c][i] # Detached /\ att'[c][i] # Detached
      BY <1>1, <2>3 DEF TypeOK, AwaitingAck, Ready, Detached
    <3>2. \A j \in Installs : att'[c][j] # Detached <=> att[c][j] # Detached
      BY <1>1, <2>3, <3>1 DEF TypeOK
    <3> QED
      BY <1>2, <2>2, <2>3, <3>2, NothingSent, TaskView
  <2>4. ASSUME DetachLocally(c, {i}), Send(c, <<f>>)
        PROVE  ConnView(c)'
    <3>1. /\ f \in ServerFrame /\ IsAnswer(f, i) /\ f.type = "detached"
          /\ \A j \in Installs : j # i => Silent(<<f>>, j)
      BY <1>1, NoticeAnswers
    <3>2. att'[c][i] = Detached /\ \A j \in Installs : j # i => att'[c][j] = att[c][j]
      BY <1>1, <2>4 DEF DetachLocally, TypeOK
    <3>3. <<f>> \in Seq(ServerFrame)
      BY <3>1
    <3>4. down'[c] = IF link[c] THEN down[c] \o <<f>> ELSE down[c]
      BY <2>4, <3>3, SentAppended
    <3> HIDE DEF f, i
    <3>5. \A j \in Installs :
            \/ /\ Silent(<<f>>, j)
               /\ att'[c][j] # Detached <=> att[c][j] # Detached
            \/ \E g \in ServerFrame :
                 /\ <<f>> = <<g>> /\ IsAnswer(g, j)
                 /\ g.type = "attached" <=> att'[c][j] # Detached
      BY <3>1, <3>2
    <3> QED
      BY <1>2, <2>2, <3>3, <3>4, <3>5, TaskView
  <2> QED
    BY <1>5, <2>3, <2>4 DEF ReceiveAck, Acknowledges, Detach
<1> QED
  BY <1>3, <1>4, <1>5 DEF Reading

(* A connection that is told that it lost an install tells the device.           *)
LEMMA NotifiedView ==
  ASSUME TypeOK, NEW c \in Conns, ConnView(c), Notified(c) \/ Heartbeat(c)
  PROVE  ConnView(c)'
<1>1. /\ pc[c] = "select" /\ pc[c] # "closed" /\ OnlyMessages(batch'[c])
      /\ UNCHANGED device /\ UNCHANGED up
      /\ \A j \in Installs : ~Serving(c, j)
  BY NotServing DEF Notified, OnWake, OnReplaced, Heartbeat, Takes, ConnView, wire
<1>2. \A j \in Installs : Asked(c, j) => Asked(c, j)'
  BY <1>1 DEF Asked
<1>3. ASSUME OnWake(c) \/ Heartbeat(c) PROVE ConnView(c)'
  <2>1. UNCHANGED <<att, down>>
    BY <1>3 DEF OnWake, Heartbeat, wire
  <2> QED
    BY <1>1, <1>2, <2>1, NothingSent, TaskView
<1>4. ASSUME OnReplaced(c) PROVE ConnView(c)'
  <2> DEFINE i == Head(events[c]).install
  <2>1. DetachLocally(c, {i}) /\ Send(c, DetachAnswer(c, i)) /\ Takes(c, "replaced")
    BY <1>4 DEF OnReplaced, Detach
  <2>2. Head(events[c]) \in SocketEvent /\ Head(events[c]).type = "replaced"
    BY <2>1, TakesType DEF Takes
  <2>3. i \in Installs
    BY <2>2 DEF SocketEvent
  <2>4. DetachAnswer(c, i) \in Seq(ServerFrame)
    BY <2>3, DetachAnswerType
  <2>5. down'[c] = IF link[c] THEN down[c] \o DetachAnswer(c, i) ELSE down[c]
    BY <2>1, <2>4, SentAppended
  <2>6. \A j \in Installs :
          \/ /\ Silent(DetachAnswer(c, i), j)
             /\ att'[c][j] # Detached <=> att[c][j] # Detached
          \/ \E f \in ServerFrame :
               /\ DetachAnswer(c, i) = <<f>> /\ IsAnswer(f, j)
               /\ f.type = "attached" <=> att'[c][j] # Detached
    BY <2>1, <2>3, DetachAnswered
  <2> QED
    BY <1>1, <1>2, <2>4, <2>5, <2>6, TaskView
<1> QED
  BY <1>3, <1>4 DEF Notified

(* A connection that ends agrees with nobody, and need not.                      *)
LEMMA ShutdownView ==
  ASSUME TypeOK, NEW c \in Conns, ConnView(c), Shutdown(c)
  PROVE  ConnView(c)'
<1>1. pc'[c] = "closed" /\ batch'[c] = <<>> /\ UNCHANGED <<down, link, view>>
  BY DEF Shutdown, device, TypeOK
<1> QED
  BY <1>1 DEF ConnView, OnlyMessages

(* A task changes nothing of another connection that a view depends on.          *)
LEMMA ConnectionOthers ==
  ASSUME TypeOK, NEW c \in Conns, Connection(c), NEW d \in Conns, d # c
  PROVE  Untouched(d)
<1>1. UNCHANGED <<link, view>>
  BY DEF Connection, Polling, SendBatch, PollInstall, Attaching, ReadMaxOutboxId,
         AckSocketThrough, FinishAttach, Reading, ReceiveAttach, ReceiveDetach, ReceiveAck,
         Notified, OnWake, OnReplaced, Heartbeat, CloseBroken, CloseOnError, Shutdown, device
<1> USE DEF TypeOK, Untouched, wire, task, Send, LoopAgain, DetachLocally, Detach
<1>2. CASE SendBatch(c)
  BY <1>1, <1>2 DEF SendBatch
<1>3. ASSUME NEW i \in Installs, PollInstall(c, i) PROVE Untouched(d)
  BY <1>1, <1>3 DEF PollInstall
<1>4. CASE Attaching(c)
  BY <1>1, <1>4 DEF Attaching, ReadMaxOutboxId, AckSocketThrough, FinishAttach
<1>5. CASE ReceiveAttach(c) \/ ReceiveDetach(c)
  BY <1>1, <1>5 DEF ReceiveAttach, ReceiveDetach, Reads
<1>6. CASE ReceiveAck(c)
  BY <1>1, <1>6 DEF ReceiveAck, Reads
<1>7. CASE Notified(c) \/ Heartbeat(c)
  BY <1>1, <1>7 DEF Notified, OnWake, OnReplaced, Heartbeat
<1>8. CASE CloseBroken(c) \/ CloseOnError(c)
  BY <1>1, <1>8 DEF CloseBroken, CloseOnError, Shutdown
<1> QED
  BY <1>2, <1>3, <1>4, <1>5, <1>6, <1>7, <1>8 DEF Connection, Polling, Reading

(* A device that reads or sends, while its task does nothing.                    *)
LEMMA DeviceStepView ==
  ASSUME TypeOK, NEW c \in Conns, ConnView(c), link[c], UNCHANGED <<pc, req, att, batch, link>>,
         pc[c] # "closed" =>
           \A i \in Installs :
             \/ Asked(c, i)'
             \/ /\ Asked(c, i) => Asked(c, i)'
                /\ Believes(down'[c], view'[c][i], i) <=> Believes(down[c], view[c][i], i)
  PROVE  ConnView(c)'
<1>1. \A i \in Installs : Serving(c, i) => Serving(c, i)'
  BY DEF Serving
<1>2. ASSUME pc[c] # "closed", NEW i \in Installs
      PROVE  Asked(c, i)' \/ Serving(c, i)' \/ Agreed(c, i)'
  BY <1>1, <1>2 DEF ConnView, Agreed
<1> QED
  BY <1>2 DEF ConnView

(* Sending a frame that is no attach changes no belief.                          *)
LEMMA SendsView ==
  ASSUME TypeOK, NEW c \in Conns, ConnView(c), link[c],
         NEW f \in ClientFrame, DeviceSends(c, f),
         UNCHANGED <<pc, req, att, batch, link, view, down>>
  PROVE  ConnView(c)'
BY SendsAsked, DeviceStepView

(* After an attach the device believes nothing until it is answered; one that    *)
(* will be refused is sent only by a device that does not hold the install.      *)
LEMMA SendAttachView ==
  ASSUME TypeOK, NEW c \in Conns, ConnView(c), link[c],
         NEW i \in Installs, NEW cursor \in Int, NEW proof \in BOOLEAN,
         SendAttach(c, i, cursor, proof), proof \/ view[c][i] = "no",
         UNCHANGED <<pc, req, att, batch, link, down>>
  PROVE  ConnView(c)'
<1> DEFINE f == [type |-> "attach", install |-> i, cursor |-> cursor, proof |-> proof]
<1>1. f \in ClientFrame /\ DeviceSends(c, f)
  BY DEF ClientFrame, SendAttach
<1>2. proof => Asks(f, i)
  BY DEF Asks
<1>3. view'[c][i] = "asked" /\ \A j \in Installs : j # i => view'[c][j] = view[c][j]
  BY DEF SendAttach, SetView, TypeOK
<1> HIDE DEF f
<1>4. ~proof => view[c][i] # "yes" /\ view'[c][i] # "yes"
  BY <1>3
<1>5. \A j \in Installs : ~(proof /\ j = i) => (view'[c][j] = "yes" <=> view[c][j] = "yes")
  BY <1>3, <1>4
<1>6. \A j \in Installs : ~(proof /\ j = i) =>
        (Believes(down'[c], view'[c][j], j) <=> Believes(down[c], view[c][j], j))
  BY <1>5 DEF Believes
<1>7. pc[c] # "closed" => \A j \in Installs : /\ Asked(c, j) => Asked(c, j)'
                                              /\ proof /\ j = i => Asked(c, j)'
  BY <1>1, <1>2, SendsAsked
<1> QED
  BY <1>6, <1>7, DeviceStepView

(* Reading a frame brings the belief of the device forward.                      *)
LEMMA DeviceReadsView ==
  ASSUME TypeOK, NEW c \in Conns, ConnView(c), DeviceReads(c)
  PROVE  ConnView(c)'
<1> DEFINE frame == Head(down[c])
           i == frame.install
<1>1. /\ link[c] /\ down[c] # <<>> /\ down[c] \in Seq(ServerFrame)
      /\ down'[c] = Tail(down[c])
      /\ UNCHANGED <<pc, req, att, batch, link>>
  BY DEF DeviceReads, TypeOK, task
<1>2. frame \in ServerFrame
  BY <1>1
<1>3. i \in Installs /\ frame.type \in {"message", "attached", "detached", "attach_error"}
  BY <1>2 DEF ServerFrame
<1>4. CASE frame.type = "message"
  <2>1. UNCHANGED view /\ DeviceSends(c, AckFrame(i, frame.id))
    BY <1>4 DEF DeviceReads
  <2>2. frame.id \in Nat
    BY <1>2, <1>4 DEF ServerFrame
  <2>3. AckFrame(i, frame.id) \in ClientFrame
    BY <1>3, <2>2, AckFrameType
  <2>4. pc[c] # "closed" => \A j \in Installs : Asked(c, j) => Asked(c, j)'
    BY <2>1, <2>3, SendsAsked
  <2>5. \A j \in Installs : ~IsAnswer(frame, j)
    BY <1>4 DEF IsAnswer
  <2> HIDE DEF frame
  <2>6. \A j \in Installs :
          Believes(Tail(down[c]), view'[c][j], j) <=> Believes(down[c], view[c][j], j)
    BY <1>1, <2>1, <2>5, TailBelieves DEF frame
  <2> QED
    BY <1>1, <2>4, <2>6, DeviceStepView
<1>5. CASE frame.type # "message"
  <2>1. UNCHANGED up /\ SetView(c, i, ViewAfter(frame.type, view[c][i]))
    BY <1>5 DEF DeviceReads
  <2>2. /\ view'[c][i] = ViewAfter(frame.type, view[c][i])
        /\ \A j \in Installs : j # i => view'[c][j] = view[c][j]
    BY <1>3, <2>1 DEF SetView, TypeOK
  <2>3. \A j \in Installs : Asked(c, j) => Asked(c, j)'
    BY <2>1 DEF Asked
  <2>4. ASSUME NEW j \in Installs
        PROVE  IF IsAnswer(frame, j) THEN view'[c][j] = "yes" <=> frame.type = "attached"
                                     ELSE view'[c][j] = "yes" <=> view[c][j] = "yes"
    <3>1. CASE j # i
      BY <2>2, <3>1 DEF IsAnswer
    <3>2. CASE j = i
      BY <1>3, <1>5, <2>2, <3>2 DEF IsAnswer, ViewAfter
    <3> QED
      BY <3>1, <3>2
  <2> HIDE DEF frame
  <2>5. \A j \in Installs :
          Believes(Tail(down[c]), view'[c][j], j) <=> Believes(down[c], view[c][j], j)
    BY <1>1, <2>4, TailBelieves DEF frame
  <2> QED
    BY <1>1, <2>3, <2>5, DeviceStepView
<1> QED
  BY <1>4, <1>5

(* Every step of a device.                                                       *)
LEMMA DeviceView ==
  ASSUME TypeOK, HoldersRun, NEW c \in Conns, ConnView(c), Device(c)
  PROVE  ConnView(c)'
<1>1. CASE Connect(c)
  <2>1. /\ ~link[c] /\ pc[c] = "closed" /\ link'[c]
        /\ UNCHANGED <<batch, att, down, view>>
    BY <1>1 DEF Connect, wire, TypeOK
  <2>2. /\ down[c] = <<>>
        /\ \A i \in Installs : view[c][i] = "no" /\ att[c][i] = Detached
    BY <2>1 DEF ConnView, HoldersRun
  <2>3. \A i \in Installs : ~EndsAttached(<<>>, i)
    BY DEF EndsAttached
  <2>4. \A i \in Installs : Agreed(c, i)'
    BY <2>1, <2>2, <2>3 DEF Agreed, Believes
  <2> QED
    BY <2>1, <2>4 DEF ConnView
<1>2. CASE DeviceReads(c)
  BY <1>2, DeviceReadsView
<1>3. CASE DeviceSeesClose(c) \/ LinkBreaks(c)
  <2>1. /\ link'[c] = FALSE /\ batch'[c] = batch[c] /\ down'[c] = <<>>
        /\ \A i \in Installs : view'[c][i] = "no"
    BY <1>3 DEF DeviceSeesClose, LinkBreaks, TypeOK, task, wire
  <2> QED
    BY <2>1 DEF ConnView
<1>4. ASSUME NEW i \in Installs, DeviceAttaches(c, i) PROVE ConnView(c)'
  <2>1. link[c] /\ UNCHANGED <<pc, req, att, batch, link, down>>
    BY <1>4 DEF DeviceAttaches, task
  <2>2. PICK cursor \in {0} \cup received[i] : SendAttach(c, i, cursor, TRUE)
    BY <1>4 DEF DeviceAttaches
  <2>3. cursor \in Int
    BY <2>2 DEF TypeOK
  <2> QED
    BY <2>1, <2>2, <2>3, SendAttachView
<1>5. ASSUME NEW i \in Installs, DeviceMisbehaves(c, i) PROVE ConnView(c)'
  <2>1. link[c] /\ UNCHANGED <<pc, req, att, batch, link, down>>
    BY <1>5 DEF DeviceMisbehaves, task
  <2>2. ASSUME NEW cursor \in Cursors(i), SendAttach(c, i, cursor, TRUE) PROVE ConnView(c)'
    <3>1. cursor \in Int
      BY ForgedAssumption DEF TypeOK, Cursors
    <3> QED
      BY <2>1, <2>2, <3>1, SendAttachView
  <2>3. ASSUME view[c][i] = "no", SendAttach(c, i, 0, FALSE) PROVE ConnView(c)'
    <3>1. 0 \in Int /\ FALSE \in BOOLEAN
      OBVIOUS
    <3> QED
      BY <2>1, <2>3, <3>1, SendAttachView
  <2>4. ASSUME DeviceSends(c, [type |-> "detach", install |-> i]), UNCHANGED view
        PROVE  ConnView(c)'
    <3>1. [type |-> "detach", install |-> i] \in ClientFrame
      BY DEF ClientFrame
    <3> QED
      BY <2>1, <2>4, <3>1, SendsView
  <2>5. ASSUME NEW id \in received[i], DeviceSends(c, AckFrame(i, id)), UNCHANGED view
        PROVE  ConnView(c)'
    <3>1. AckFrame(i, id) \in ClientFrame
      BY AckFrameType DEF TypeOK
    <3> QED
      BY <2>1, <2>5, <3>1, SendsView
  <2> QED
    BY <1>5, <2>2, <2>3, <2>4, <2>5 DEF DeviceMisbehaves
<1> QED
  BY <1>1, <1>2, <1>3, <1>4, <1>5 DEF Device

(* Nor does a device change another connection.                                  *)
LEMMA DeviceOthers ==
  ASSUME TypeOK, NEW c \in Conns, Device(c), NEW d \in Conns, d # c
  PROVE  Untouched(d)
<1>1. UNCHANGED <<req, att, batch>> /\ pc'[d] = pc[d]
  BY DEF Device, Connect, DeviceReads, DeviceSeesClose, LinkBreaks, DeviceAttaches,
         DeviceMisbehaves, task, TypeOK
<1>2. link'[d] = link[d]
  BY DEF Device, Connect, DeviceReads, DeviceSeesClose, LinkBreaks, DeviceAttaches,
         DeviceMisbehaves, TypeOK
<1>3. down'[d] = down[d]
  BY DEF Device, Connect, DeviceReads, DeviceSeesClose, LinkBreaks, DeviceAttaches,
         DeviceMisbehaves, wire, TypeOK
<1>4. up'[d] = up[d]
  BY DEF Device, Connect, DeviceReads, DeviceSeesClose, LinkBreaks, DeviceAttaches,
         DeviceMisbehaves, SendAttach, DeviceSends, wire, TypeOK
<1>5. view'[d] = view[d]
  BY DEF Device, Connect, DeviceReads, DeviceSeesClose, LinkBreaks, DeviceAttaches,
         DeviceMisbehaves, SendAttach, SetView, TypeOK
<1> QED
  BY <1>1, <1>2, <1>3, <1>4, <1>5 DEF Untouched

(* ViewInv holds when nobody is connected.                                       *)
LEMMA InitViewInv == Init => ViewInv
BY DEF Init, ViewInv, ConnView, OnlyMessages

(* ViewInv is inductive, given the types and that closed connections hold        *)
(* nothing.                                                                      *)
LEMMA ViewInvInductive == TypeOK /\ HubInv /\ ViewInv /\ [Next]_vars => ViewInv'
<1> SUFFICES ASSUME TypeOK, HubInv, ViewInv, [Next]_vars, NEW d \in Conns
             PROVE  ConnView(d)'
  BY DEF ViewInv
<1>1. ConnView(d) /\ HoldersRun
  BY DEF ViewInv, HubInv
<1>2. CASE UNCHANGED vars \/ Producers
  <2>1. Untouched(d)
    BY <1>2 DEF Producers, Enqueue, Unregister, HubWake, AbortProducer, Untouched, vars,
                task, wire, device
  <2> QED
    BY <1>1, <2>1, UntouchedKeeps
<1>3. CASE Crash
  <2>1. pc'[d] = "closed" /\ batch'[d] = <<>> /\ UNCHANGED <<down, link, view>>
    BY <1>3 DEF Crash, device
  <2> QED
    BY <1>1, <2>1 DEF ConnView, OnlyMessages
<1>4. ASSUME NEW c \in Conns, Connection(c) PROVE ConnView(d)'
  <2>1. CASE c = d
    <3>1. ASSUME CloseBroken(c) \/ CloseOnError(c) PROVE ConnView(d)'
      BY <1>1, <2>1, <3>1, ShutdownView DEF CloseBroken, CloseOnError
    <3> QED
      BY <1>1, <1>4, <2>1, <3>1, PollingView, AttachingView, ReadingView, NotifiedView
         DEF Connection
  <2>2. CASE c # d
    BY <1>1, <1>4, <2>2, ConnectionOthers, UntouchedKeeps
  <2> QED
    BY <2>1, <2>2
<1>5. ASSUME NEW c \in Conns, Device(c) PROVE ConnView(d)'
  <2>1. CASE c = d
    BY <1>1, <1>5, <2>1, DeviceView
  <2>2. CASE c # d
    BY <1>1, <1>5, <2>2, DeviceOthers, UntouchedKeeps
  <2> QED
    BY <2>1, <2>2
<1> QED
  BY <1>2, <1>3, <1>4, <1>5 DEF Next

(* Whatever the two ends send each other, in whatever order attaches, detaches,  *)
(* refusals and Replaced notices cross, they agree on what is attached as soon   *)
(* as nothing is under way between them.                                         *)
THEOREM ViewsAgree == Spec => []ViewAgrees
<1>1. ViewInv => ViewAgrees
  <2> SUFFICES ASSUME ViewInv, NEW c \in Conns, NEW i \in Installs,
                      link[c], pc[c] \in {"poll", "select"}, up[c] = <<>>, down[c] = <<>>
               PROVE  view[c][i] = "yes" <=> i \in Attached(c)
    BY DEF ViewAgrees
  <2>1. Asked(c, i) \/ Serving(c, i) \/ Agreed(c, i)
    BY DEF ViewInv, ConnView
  <2>2. ~Asked(c, i) /\ ~Serving(c, i)
    BY DEF Asked, Serving
  <2>3. ~EndsAttached(<<>>, i) /\ Silent(<<>>, i)
    BY DEF EndsAttached, Silent
  <2> QED
    BY <2>1, <2>2, <2>3 DEF Agreed, Believes, Attached
<1> QED
  BY <1>1, SpecResumeInv, SpecHubInv, InitViewInv, ViewInvInductive, PTL DEF Spec
===============================================================================
