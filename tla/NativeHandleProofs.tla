-------------------------- MODULE NativeHandleProofs --------------------------
(* Proofs about NativeHandle: its types, that a stop reaches every run and         *)
(* silences it, and that no message is lost.                                       *)
EXTENDS NativeHandle, SequenceTheorems, TLAPS

-------------------------------------------------------------------------------
(* Types.                                                                          *)

(* A thread that is in a call works on a handle; one that gives or acknowledges a  *)
(* message has one.                                                                *)
TypeInv ==
  /\ TypeOK
  /\ \A t \in Threads : pc[t] # "idle" => on[t] \in Handles
  /\ \A t \in Threads : pc[t] \in {"callback", "ack"} => at[t] \in Apps \X Message

(* A function that changes at one point.                                           *)
LEMMA ExceptType ==
  ASSUME NEW S, NEW T, NEW f \in [S -> T], NEW x, NEW e \in T
  PROVE  [f EXCEPT ![x] = e] \in [S -> T]
OBVIOUS

(* Calls that enter the library, and the two steps of a stop.                      *)
LEMMA CallsType ==
  ASSUME TypeInv, NEW t \in Threads, Calls(t) \/ Stopping(t)
  PROVE  TypeInv'
<1> USE BoundsAssumption, NoneAssumption
<1>1. CASE CreateHandle(t)
  BY <1>1 DEF TypeInv, TypeOK, CreateHandle, Handles, handle, registry, thread, course, line, mail
<1>2. ASSUME NEW h \in Handles,
             CallRun(t, h) \/ CallRequest(t, h) \/ CallStop(t, h) \/ CallDestroy(t, h)
      PROVE  TypeInv'
  <2>1. PICK phase \in {"install", "wait", "flag"} : Enter(t, h, phase) /\ live' \subseteq live
    BY <1>2 DEF CallRun, CallRequest, CallStop, CallDestroy
  <2>2. phase \in Phase /\ phase \notin {"idle", "callback", "ack"}
    BY DEF Phase
  <2> QED
    BY <2>1, <2>2 DEF TypeInv, TypeOK, Enter, Goto, handle, course, line, mail
<1>3. CASE SetFlag(t)
  BY <1>3 DEF TypeInv, TypeOK, SetFlag, Goto, Phase, registry, course, line, mail
<1>4. CASE TakeStopper(t)
  BY <1>4 DEF TypeInv, TypeOK, TakeStopper, TellOwner, Return, Goto, Phase, registry, course, line, mail
<1> QED
  BY <1>1, <1>2, <1>3, <1>4 DEF Calls, Stopping

(* What a run leaves behind.                                                       *)
LEMMA EndMcsType ==
  ASSUME TypeInv, NEW t \in Threads, pc[t] # "idle", EndMcs(t),
         poisoned' \subseteq Handles, given' \subseteq Apps \X Message, faults' \in 0..MaxFaults
  PROVE  TypeInv'
BY DEF TypeInv, TypeOK, EndMcs, Goto, Phase, registry

(* The runtime mutex, and the steps of a run that read no frame.                   *)
LEMMA RunType ==
  ASSUME TypeInv, NEW t \in Threads,
         \/ Request(t) \/ InstallStopper(t) \/ StartMcs(t) \/ DropGuard(t) \/ Fails(t)
         \/ PollStop(t) \/ Pending(t) \/ SeeStop(t) \/ StreamEnds(t) \/ AllConnected(t) \/ Announce(t)
  PROVE  TypeInv'
<1> USE BoundsAssumption, NoneAssumption
<1>1. CASE Request(t)
  <2>1. on[t] \in Handles
    BY <1>1 DEF Request, TypeInv
  <2>2. /\ \/ \E holder \in {t, None} : runtime' = [runtime EXCEPT ![on[t]] = holder]
           \/ runtime' = runtime
        /\ \/ pc' = [pc EXCEPT ![t] = "request"] /\ on' = on
           \/ pc' = [pc EXCEPT ![t] = "idle"] /\ on' = [on EXCEPT ![t] = 0]
    BY <1>1 DEF Request, LockRuntime, Return, Goto
  <2>3. UNCHANGED <<flag, stopper, poisoned, stopped, registry, told, course, at, line, mail, faults>>
    BY <1>1 DEF Request
  <2> QED
    BY <2>1, <2>2, <2>3, ExceptType DEF TypeInv, TypeOK, Phase, registry, course, line, mail
<1>2. CASE InstallStopper(t)
  <2>1. on[t] \in Handles
    BY <1>2 DEF InstallStopper, TypeInv
  <2>2. flag[on[t]] \in BOOLEAN
    BY <2>1 DEF TypeInv, TypeOK
  <2>3. /\ stopper' \in [Handles -> Threads \cup {None}] /\ told' \in [Threads -> BOOLEAN]
        /\ \/ pc' = [pc EXCEPT ![t] = "lock"] /\ on' = on
           \/ pc' = [pc EXCEPT ![t] = "idle"] /\ on' = [on EXCEPT ![t] = 0]
    <3>1. CASE stopper[on[t]] # None
      BY <1>2, <3>1 DEF InstallStopper, Return, Goto, TypeInv, TypeOK
    <3>2. CASE ~(stopper[on[t]] # None)
      <4>1. /\ stopper' = [stopper EXCEPT ![on[t]] = IF flag[on[t]] THEN None ELSE t]
            /\ told' = [told EXCEPT ![t] = flag[on[t]]]
            /\ pc' = [pc EXCEPT ![t] = "lock"] /\ on' = on
        BY <1>2, <3>2, Zenon DEF InstallStopper, Goto
      <4>2. (IF flag[on[t]] THEN None ELSE t) \in Threads \cup {None}
        BY <2>2
      <4>3. stopper \in [Handles -> Threads \cup {None}] /\ told \in [Threads -> BOOLEAN]
        BY DEF TypeInv, TypeOK
      <4> QED
        BY <2>2, <4>1, <4>2, <4>3, ExceptType, Zenon
    <3> QED
      BY <3>1, <3>2
  <2>4. UNCHANGED <<flag, runtime, poisoned, stopped, registry, course, at, line, mail, faults>>
    BY <1>2 DEF InstallStopper
  <2> QED
    BY <2>1, <2>3, <2>4 DEF TypeInv, TypeOK, Phase, registry, course, line, mail
<1>3. CASE StartMcs(t)
  <2>1. on[t] \in Handles
    BY <1>3 DEF StartMcs, TypeInv
  <2>2. /\ runtime' = [runtime EXCEPT ![on[t]] = t] \/ runtime' = runtime
        /\ \/ \E apps \in SUBSET Apps \ {{}} : todo' = [todo EXCEPT ![t] = apps]
           \/ todo' = todo
        /\ \E phase \in {"connect", "guard"} : pc' = [pc EXCEPT ![t] = phase]
        /\ on' = on
    BY <1>3 DEF StartMcs, LockRuntime, Goto
  <2>3. UNCHANGED <<flag, stopper, poisoned, stopped, registry, told, streams, late, at, line, mail,
                   faults>>
    BY <1>3 DEF StartMcs
  <2> QED
    BY <2>1, <2>2, <2>3, ExceptType DEF TypeInv, TypeOK, Phase, InMcs, registry, line, mail
<1>4. CASE DropGuard(t)
  BY <1>4 DEF TypeInv, TypeOK, DropGuard, TellOwner, Return, Goto, Phase, registry, course, line, mail
<1>5. CASE RunFails(t)
  <2>1. /\ pc[t] # "idle" /\ EndMcs(t) /\ UNCHANGED <<poisoned, given>>
        /\ faults' \in 0..MaxFaults
    BY <1>5 DEF RunFails, Fault, TypeInv, TypeOK
  <2> QED
    BY <2>1, EndMcsType DEF TypeInv, TypeOK
<1>6. CASE Panic(t)
  <2>1. pc[t] # "idle" /\ faults' \in 0..MaxFaults /\ poisoned' \subseteq Handles
    BY <1>6 DEF Panic, Fault, InMcs, TypeInv, TypeOK
  <2>2. CASE EndMcs(t) /\ UNCHANGED given
    BY <2>1, <2>2, EndMcsType DEF TypeInv, TypeOK
  <2>3. CASE pc[t] = "request" /\ ~EndMcs(t)
    BY <1>6, <2>1, <2>3
       DEF TypeInv, TypeOK, Panic, InMcs, Return, Goto, Phase, registry, course, line, mail
  <2> QED
    BY <1>6, <2>2, <2>3 DEF Panic, mail
<1>7. CASE SeeStop(t) \/ StreamEnds(t)
  <2>1. pc[t] # "idle" /\ EndMcs(t) /\ UNCHANGED <<poisoned, given, faults>>
    BY <1>7 DEF SeeStop, StreamEnds
  <2> QED
    BY <2>1, EndMcsType DEF TypeInv, TypeOK
<1>8. CASE PollStop(t) \/ Pending(t) \/ AllConnected(t) \/ Announce(t)
  <2>1. /\ pc[t] \in InMcs /\ \E phase \in InMcs \ {"callback", "ack"} : pc' = [pc EXCEPT ![t] = phase]
        /\ UNCHANGED <<handle, registry, on, told, course, at, line, mail, faults>>
    BY <1>8 DEF PollStop, Pending, AllConnected, Announce, Goto, InMcs
  <2> QED
    BY <2>1 DEF TypeInv, TypeOK, Phase, InMcs, handle, registry, course, line, mail
<1> QED
  BY <1>1, <1>2, <1>3, <1>4, <1>5, <1>6, <1>7, <1>8 DEF Fails

(* The steps of a run about a connection.                                          *)
LEMMA StreamType ==
  ASSUME TypeInv, NEW t \in Threads, NEW a \in Apps,
         Connect(t, a) \/ ReceiveData(t, a) \/ ReceivePing(t, a)
  PROVE  TypeInv'
<1> USE BoundsAssumption, NoneAssumption
<1>0. Takes(t) => late' \in [Threads -> Nat]
  <2>1. late \in [Threads -> Nat]
    BY DEF TypeInv, TypeOK
  <2>2. late[t] + 1 \in Nat /\ late[t] \in Nat
    BY <2>1
  <2>3. Takes(t) => late' = [late EXCEPT ![t] = late[t] + 1] \/ late' = [late EXCEPT ![t] = late[t]]
    BY DEF Takes
  <2> QED
    BY <2>1, <2>2, <2>3, ExceptType
<1>1. CASE Connect(t, a)
  <2>1. <<>> \in Seq(Message \cup {Ping})
    OBVIOUS
  <2>2. backlog' \in [Apps -> SUBSET Message]
    <3>1. CASE backlog' = backlog
      BY <3>1 DEF TypeInv, TypeOK
    <3>2. CASE backlog' = [backlog EXCEPT ![a] = @ \ {m \in Message : <<a, m>> \in given}]
      <4>1. backlog \in [Apps -> SUBSET Message]
        BY DEF TypeInv, TypeOK
      <4>2. backlog[a] \ {m \in Message : <<a, m>> \in given} \in SUBSET Message
        BY <4>1
      <4> QED
        BY <3>2, <4>1, <4>2, ExceptType
    <3> QED
      BY <1>1, <3>1, <3>2 DEF Connect
  <2>3. /\ todo' \in [Threads -> SUBSET Apps] /\ streams' \in [Threads -> SUBSET Apps]
        /\ conn' \in [Apps -> Threads \cup {None}]
        /\ wire' \in [Apps -> Seq(Message \cup {Ping})]
        /\ read' \in [Apps -> SUBSET Message] /\ acks' \in [Apps -> SUBSET Message]
    BY <1>1, <2>1 DEF Connect, TypeInv, TypeOK
  <2>4. /\ UNCHANGED <<handle, registry, on, told, at, given, accepted, faults>>
        /\ pc[t] = "login" /\ pc' = [pc EXCEPT ![t] = "connect"]
        /\ late' \in [Threads -> Nat]
    BY <1>0, <1>1 DEF Connect, Goto
  <2>5. /\ pc' \in [Threads -> Phase]
        /\ \A u \in Threads : pc'[u] # "idle" => on'[u] \in Handles
        /\ \A u \in Threads : pc'[u] \in {"callback", "ack"} => at'[u] \in Apps \X Message
    BY <2>4 DEF TypeInv, TypeOK, Phase, InMcs
  <2> QED
    BY <2>2, <2>3, <2>4, <2>5 DEF TypeInv, TypeOK, handle, registry
<1>2. ASSUME ReadsFrame(t, a)
      PROVE  /\ Head(wire[a]) \in Message \cup {Ping}
             /\ wire' \in [Apps -> Seq(Message \cup {Ping})]
  <2>1. wire[a] \in Seq(Message \cup {Ping}) /\ wire[a] # <<>>
    BY <1>2 DEF ReadsFrame, TypeInv, TypeOK
  <2>2. Head(wire[a]) \in Message \cup {Ping} /\ Tail(wire[a]) \in Seq(Message \cup {Ping})
    BY <2>1
  <2> QED
    BY <1>2, <2>2 DEF ReadsFrame, TypeInv, TypeOK
<1>3. CASE ReceiveData(t, a)
  <2>1. /\ Head(wire[a]) \in Message /\ wire' \in [Apps -> Seq(Message \cup {Ping})]
        /\ pc[t] = "streams" /\ late' \in [Threads -> Nat]
    BY <1>0, <1>2, <1>3 DEF ReceiveData, ReadsFrame
  <2> QED
    BY <1>3, <2>1 DEF TypeInv, TypeOK, ReceiveData, Goto, Phase, InMcs, handle, registry, mail
<1>4. CASE ReceivePing(t, a)
  <2>1. /\ wire' \in [Apps -> Seq(Message \cup {Ping})]
        /\ pc[t] = "streams" /\ late' \in [Threads -> Nat]
    BY <1>0, <1>2, <1>4 DEF ReceivePing, ReadsFrame
  <2> QED
    BY <1>4, <2>1 DEF TypeInv, TypeOK, ReceivePing, Goto, Phase, InMcs, handle, registry, mail
<1> QED
  BY <1>1, <1>3, <1>4

(* The steps of a run about the message at hand.                                   *)
LEMMA MessageType ==
  ASSUME TypeInv, NEW t \in Threads, Callback(t) \/ Acknowledge(t)
  PROVE  TypeInv'
<1> USE BoundsAssumption, NoneAssumption
<1>1. CASE Callback(t)
  <2>1. pc[t] = "callback" /\ given' \subseteq Apps \X Message
    BY <1>1 DEF TypeInv, TypeOK, Callback
  <2>2. CASE EndMcs(t) /\ Fault /\ UNCHANGED poisoned
    <3>1. faults' \in 0..MaxFaults
      BY <2>2 DEF Fault, TypeInv, TypeOK
    <3> QED
      BY <2>1, <2>2, <3>1, EndMcsType DEF TypeInv, TypeOK
  <2>3. CASE /\ Goto(t, "ack")
             /\ UNCHANGED <<handle, registry, on, told, course, at, line, accepted, backlog, faults>>
    BY <2>1, <2>3 DEF TypeInv, TypeOK, Goto, Phase, InMcs, handle, registry, course, line
  <2> QED
    BY <1>1, <2>2, <2>3 DEF Callback
<1>2. CASE Acknowledge(t)
  <2>1. pc[t] = "ack" /\ at[t] \in Apps \X Message
    BY <1>2 DEF Acknowledge, TypeInv
  <2>2. CASE EndMcs(t) /\ UNCHANGED <<poisoned, given, faults>>
    BY <2>1, <2>2, EndMcsType DEF TypeInv, TypeOK
  <2>3. ASSUME /\ acks' = IF conn[at[t][1]] = t THEN [acks EXCEPT ![at[t][1]] = @ \cup read[at[t][1]]]
                                                ELSE acks
               /\ at' = [at EXCEPT ![t] = <<>>]
               /\ Goto(t, "select")
               /\ UNCHANGED <<handle, registry, on, told, course, conn, wire, read, mail, faults>>
        PROVE  TypeInv'
    <3>1. at[t][1] \in Apps
      BY <2>1
    <3>2. /\ acks \in [Apps -> SUBSET Message]
          /\ acks[at[t][1]] \cup read[at[t][1]] \in SUBSET Message
      BY <3>1 DEF TypeInv, TypeOK
    <3>3. acks' \in [Apps -> SUBSET Message]
      BY <2>3, <3>2, ExceptType
    <3>4. at' \in [Threads -> {<<>>} \cup (Apps \X Message)]
      BY <2>3, ExceptType DEF TypeInv, TypeOK
    <3>5. pc' = [pc EXCEPT ![t] = "select"] /\ pc' \in [Threads -> Phase]
      BY <2>3, ExceptType DEF TypeInv, TypeOK, Goto, Phase, InMcs
    <3>6. \A u \in Threads : pc'[u] \in {"callback", "ack"} => at'[u] \in Apps \X Message
      BY <2>1, <2>3, <3>5 DEF TypeInv, TypeOK
    <3> QED
      BY <2>1, <2>3, <3>3, <3>4, <3>5, <3>6
         DEF TypeInv, TypeOK, handle, registry, course, mail
  <2> QED
    BY <1>2, <2>2, <2>3, Zenon DEF Acknowledge
<1> QED
  BY <1>1, <1>2

(* Steps of FCM.                                                                   *)
LEMMA ServerType ==
  ASSUME TypeInv, Server
  PROVE  TypeInv'
<1> USE BoundsAssumption, NoneAssumption
<1> PICK a \in Apps : Accept(a) \/ ServerSends(a) \/ ReadAcks(a) \/ LineBreaks(a)
  BY DEF Server
<1>1. CASE Accept(a)
  <2>1. accepted[a] + 1 \in Message /\ accepted[a] + 1 \in 0..MaxMessage
    BY <1>1 DEF Accept, TypeInv, TypeOK, Message
  <2> QED
    BY <1>1, <2>1 DEF TypeInv, TypeOK, Accept, handle, registry, thread, course, line
<1>2. CASE ServerSends(a)
  <2>1. PICK frame \in backlog[a] \cup {Ping} : wire' = [wire EXCEPT ![a] = Append(@, frame)]
    BY <1>2 DEF ServerSends
  <2>2. /\ wire[a] \in Seq(Message \cup {Ping})
        /\ frame \in Message \cup {Ping}
    BY DEF TypeInv, TypeOK
  <2>3. Append(wire[a], frame) \in Seq(Message \cup {Ping})
    BY <2>2
  <2> QED
    BY <1>2, <2>1, <2>3 DEF TypeInv, TypeOK, ServerSends, handle, registry, thread, course, mail
<1>3. CASE ReadAcks(a)
  BY <1>3 DEF TypeInv, TypeOK, ReadAcks, handle, registry, thread, course
<1>4. CASE LineBreaks(a)
  <2>1. <<>> \in Seq(Message \cup {Ping})
    OBVIOUS
  <2>2. /\ conn' \in [Apps -> Threads \cup {None}]
        /\ wire' \in [Apps -> Seq(Message \cup {Ping})]
        /\ faults' \in 0..MaxFaults
    BY <1>4, <2>1 DEF LineBreaks, Fault, TypeInv, TypeOK
  <2>3. UNCHANGED <<handle, registry, thread, read, mail>>
    BY <1>4 DEF LineBreaks
  <2>4. acks' \in [Apps -> SUBSET Message]
    <3>1. acks \in [Apps -> SUBSET Message] /\ {} \in SUBSET Message
      BY DEF TypeInv, TypeOK
    <3>2. acks' = [acks EXCEPT ![a] = {}] \/ acks' = acks
      BY <1>4 DEF LineBreaks
    <3> QED
      BY <3>1, <3>2, ExceptType
  <2> QED
    BY <2>2, <2>3, <2>4 DEF TypeInv, TypeOK, handle, registry, thread, course, mail
<1> QED
  BY <1>1, <1>2, <1>3, <1>4

LEMMA TypeInvInductive ==
  ASSUME TypeInv, [Next]_vars
  PROVE  TypeInv'
<1>1. CASE \E t \in Threads : Calls(t) \/ Stopping(t)
  BY <1>1, CallsType
<1>2. CASE \E t \in Threads : Request(t) \/ Run(t) \/ Fails(t)
  <2> PICK t \in Threads : Request(t) \/ Run(t) \/ Fails(t)
    BY <1>2
  <2>1. CASE \E a \in Apps : Connect(t, a) \/ ReceiveData(t, a) \/ ReceivePing(t, a)
    BY <2>1, StreamType
  <2>2. CASE Callback(t) \/ Acknowledge(t)
    BY <2>2, MessageType
  <2> QED
    BY <2>1, <2>2, RunType DEF Run, Mcs, Takings
<1>3. CASE Server
  BY <1>3, ServerType
<1>4. CASE UNCHANGED vars
  BY <1>4 DEF TypeInv, TypeOK, vars, handle, registry, thread, course, line, mail
<1> QED
  BY <1>1, <1>2, <1>3, <1>4 DEF Next

LEMMA TypeInvInitially == Init => TypeInv
<1> SUFFICES ASSUME Init PROVE TypeInv
  OBVIOUS
<1> USE BoundsAssumption
<1>1. <<>> \in Seq(Message \cup {Ping})
  OBVIOUS
<1> QED
  BY <1>1 DEF Init, TypeInv, TypeOK, Phase

(* Every variable keeps its type, for any number of threads, handles and           *)
(* applications; in particular no handle id is given out twice.                    *)
THEOREM TypeCorrect == Spec => []TypeOK
<1>1. TypeInv => TypeOK
  BY DEF TypeInv
<1> QED
  BY <1>1, TypeInvInitially, TypeInvInductive, PTL DEF Spec

-------------------------------------------------------------------------------
(* A stop reaches every run.                                                       *)

(* A stop sets the flag before it takes the stopper, and a run looks at the flag   *)
(* while it holds the stopper: whoever is second ends the run.                     *)
StopInv ==
  /\ \A t \in Threads : pc[t] = "take" => flag[on[t]]
  /\ \A h \in stopped : flag[h] /\ stopper[h] = None
  /\ \A t \in Threads : Running(t) => told[t] \/ stopper[on[t]] = t

(* A step that leaves the stop protocol and the other threads alone, and does not  *)
(* start a run or a stop.                                                          *)
LEMMA StopInvKeeps ==
  ASSUME TypeInv, StopInv, NEW t \in Threads,
         UNCHANGED <<flag, stopper, stopped, told>>,
         \A u \in Threads \ {t} : pc'[u] = pc[u] /\ on'[u] = on[u],
         pc'[t] = "take" => pc[t] = "take" /\ on'[t] = on[t],
         Running(t)' => Running(t) /\ on'[t] = on[t]
  PROVE  StopInv'
<1>1. \A u \in Threads : pc'[u] = "take" => pc[u] = "take" /\ on'[u] = on[u]
  OBVIOUS
<1>2. \A u \in Threads : Running(u)' => Running(u) /\ on'[u] = on[u]
  BY DEF Running
<1> QED
  BY <1>1, <1>2 DEF StopInv

(* Once the stopper of a handle is taken, its run is told.                         *)
LEMMA StopInvTold ==
  ASSUME TypeInv, StopInv, NEW t \in Threads, pc[t] \in {"take", "guard"},
         TellOwner(on[t]), Return(t), UNCHANGED flag,
         stopped' = stopped \/ (pc[t] = "take" /\ stopped' = stopped \cup {on[t]})
  PROVE  StopInv'
<1>1. on[t] \in Handles
  BY DEF TypeInv
<1>2. \A u \in Threads : /\ u # t => pc'[u] = pc[u] /\ on'[u] = on[u]
                         /\ told[u] \/ stopper[on[t]] = u => told'[u]
  BY DEF Return, Goto, TellOwner, TypeInv, TypeOK
<1>3. pc'[t] = "idle" /\ ~Running(t)'
  BY DEF Return, Goto, Running, InMcs, TypeInv, TypeOK
<1>4. /\ stopper'[on[t]] = None
      /\ \A h \in Handles : h # on[t] => stopper'[h] = stopper[h]
  BY <1>1 DEF TellOwner, TypeInv, TypeOK
<1>5. ASSUME NEW u \in Threads, Running(u)'
      PROVE  told'[u] \/ stopper'[on'[u]] = u
  <2>1. u # t /\ Running(u)
    BY <1>2, <1>3, <1>5 DEF Running
  <2>2. on[u] \in Handles
    BY <2>1 DEF Running, InMcs, TypeInv
  <2> QED
    BY <1>2, <1>4, <2>1, <2>2 DEF StopInv
<1>6. ASSUME NEW h \in stopped'
      PROVE  flag'[h] /\ stopper'[h] = None
  <2>1. h \in stopped \/ (h = on[t] /\ pc[t] = "take")
    BY <1>6
  <2>2. stopped \subseteq Handles
    BY DEF TypeInv, TypeOK
  <2> QED
    BY <1>1, <1>4, <2>1, <2>2 DEF StopInv
<1>7. ASSUME NEW u \in Threads, pc'[u] = "take"
      PROVE  flag'[on'[u]]
  BY <1>2, <1>3, <1>7 DEF StopInv
<1> QED
  BY <1>5, <1>6, <1>7 DEF StopInv

LEMMA StopInvInductive ==
  ASSUME TypeInv, StopInv, [Next]_vars
  PROVE  StopInv'
<1>1. ASSUME NEW t \in Threads, CreateHandle(t)
      PROVE  StopInv'
  <2>1. UNCHANGED <<handle, thread>>
    BY <1>1 DEF CreateHandle
  <2> QED
    BY <2>1 DEF StopInv, Running, handle, thread
<1>2. ASSUME NEW t \in Threads, NEW h \in Handles,
             CallRun(t, h) \/ CallRequest(t, h) \/ CallStop(t, h) \/ CallDestroy(t, h)
      PROVE  StopInv'
  <2>1. PICK phase \in {"install", "wait", "flag"} : Enter(t, h, phase)
    BY <1>2 DEF CallRun, CallRequest, CallStop, CallDestroy
  <2>2. /\ pc' = [pc EXCEPT ![t] = phase] /\ on' = [on EXCEPT ![t] = h]
        /\ UNCHANGED <<flag, stopper, stopped, told>>
    BY <2>1 DEF Enter, Goto, handle
  <2>3. ~Running(t)'
    BY <2>2 DEF Running, InMcs, TypeInv, TypeOK
  <2>4. pc'[t] # "take" /\ \A u \in Threads \ {t} : pc'[u] = pc[u] /\ on'[u] = on[u]
    BY <2>1, <2>2 DEF TypeInv, TypeOK, Enter
  <2> QED
    BY <2>2, <2>3, <2>4, StopInvKeeps
<1>3. ASSUME NEW t \in Threads, SetFlag(t)
      PROVE  StopInv'
  <2>1. /\ pc[t] = "flag" /\ flag' = [flag EXCEPT ![on[t]] = TRUE]
        /\ pc' = [pc EXCEPT ![t] = "take"] /\ UNCHANGED <<stopper, stopped, on, told>>
    BY <1>3 DEF SetFlag, Goto
  <2>2. on[t] \in Handles /\ \A u \in Threads : pc[u] # "idle" => on[u] \in Handles
    BY <2>1 DEF TypeInv
  <2>3. \A h \in Handles : flag[h] => flag'[h]
    BY <2>1 DEF TypeInv, TypeOK
  <2>4. flag'[on[t]]
    BY <2>1, <2>2 DEF TypeInv, TypeOK
  <2>5. \A u \in Threads : pc'[u] = "take" => flag'[on'[u]]
    BY <2>1, <2>2, <2>3, <2>4 DEF StopInv, TypeInv, TypeOK
  <2>6. \A h \in stopped' : flag'[h] /\ stopper'[h] = None
    BY <2>1, <2>3 DEF StopInv, TypeInv, TypeOK
  <2>7. \A u \in Threads : Running(u)' => told'[u] \/ stopper'[on'[u]] = u
    BY <2>1 DEF StopInv, Running, InMcs, TypeInv, TypeOK
  <2> QED
    BY <2>5, <2>6, <2>7 DEF StopInv
<1>4. ASSUME NEW t \in Threads, TakeStopper(t) \/ DropGuard(t)
      PROVE  StopInv'
  BY <1>4, StopInvTold DEF TakeStopper, DropGuard
<1>5. ASSUME NEW t \in Threads, Request(t)
      PROVE  StopInv'
  <2>1. /\ UNCHANGED <<flag, stopper, stopped, told>>
        /\ \/ pc' = [pc EXCEPT ![t] = "request"] /\ on' = on
           \/ pc' = [pc EXCEPT ![t] = "idle"] /\ on' = [on EXCEPT ![t] = 0]
    BY <1>5 DEF Request, LockRuntime, Return, Goto
  <2>2. ~Running(t)' /\ pc[t] \in {"wait", "request"}
    BY <1>5, <2>1 DEF Request, Running, InMcs, TypeInv, TypeOK
  <2>3. pc'[t] # "take" /\ \A u \in Threads \ {t} : pc'[u] = pc[u] /\ on'[u] = on[u]
    BY <2>1 DEF TypeInv, TypeOK
  <2> QED
    BY <2>1, <2>2, <2>3, StopInvKeeps
<1>6. ASSUME NEW t \in Threads, InstallStopper(t)
      PROVE  StopInv'
  <2>1. pc[t] = "install" /\ on[t] \in Handles /\ UNCHANGED <<flag, stopped>>
    BY <1>6 DEF InstallStopper, TypeInv
  <2>2. CASE stopper[on[t]] # None
    <3>1. Return(t) /\ UNCHANGED <<stopper, told>>
      BY <1>6, <2>2 DEF InstallStopper
    <3>2. /\ ~Running(t)' /\ pc'[t] # "take"
          /\ \A u \in Threads \ {t} : pc'[u] = pc[u] /\ on'[u] = on[u]
      BY <2>1, <3>1 DEF Return, Goto, Running, InMcs, TypeInv, TypeOK
    <3> QED
      BY <2>1, <3>1, <3>2, StopInvKeeps
  <2>3. CASE ~(stopper[on[t]] # None)
    <3>1. /\ stopper' = [stopper EXCEPT ![on[t]] = IF flag[on[t]] THEN None ELSE t]
          /\ told' = [told EXCEPT ![t] = flag[on[t]]]
          /\ pc' = [pc EXCEPT ![t] = "lock"] /\ on' = on
      BY <1>6, <2>3, Zenon DEF InstallStopper, Goto
    <3>2. \A u \in Threads : u # t => pc'[u] = pc[u] /\ told'[u] = told[u]
      BY <3>1 DEF TypeInv, TypeOK
    <3>3. /\ told'[t] = flag[on[t]] /\ pc'[t] = "lock"
          /\ stopper'[on[t]] = IF flag[on[t]] THEN None ELSE t
      BY <2>1, <3>1, Zenon DEF TypeInv, TypeOK
    <3>4. \A h \in Handles : h # on[t] => stopper'[h] = stopper[h]
      BY <3>1 DEF TypeInv, TypeOK
    <3>5. \A u \in Threads : pc'[u] = "take" => flag'[on'[u]]
      BY <2>1, <3>1, <3>2, <3>3 DEF StopInv
    <3>6. \A h \in stopped' : flag'[h] /\ stopper'[h] = None
      BY <2>1, <3>3, <3>4 DEF StopInv, TypeInv, TypeOK
    <3>7. ASSUME NEW u \in Threads, Running(u)'
          PROVE  told'[u] \/ stopper'[on'[u]] = u
      <4>1. CASE u = t
        BY <3>1, <3>3, <4>1
      <4>2. CASE u # t
        <5>1. Running(u) /\ on[u] \in Handles
          BY <3>2, <3>7, <4>2 DEF Running, InMcs, TypeInv
        <5>2. told[u] \/ stopper[on[u]] = u
          BY <5>1 DEF StopInv
        <5>3. on[u] = on[t] => told[u]
          BY <2>3, <5>2, NoneAssumption
        <5> QED
          BY <3>1, <3>2, <3>4, <4>2, <5>1, <5>2, <5>3
      <4> QED
        BY <4>1, <4>2
    <3> QED
      BY <3>5, <3>6, <3>7 DEF StopInv
  <2> QED
    BY <2>2, <2>3
<1>7. ASSUME NEW t \in Threads, StartMcs(t)
      PROVE  StopInv'
  <2>1. /\ UNCHANGED <<flag, stopper, stopped, told, on>>
        /\ \E phase \in {"connect", "guard"} : pc' = [pc EXCEPT ![t] = phase]
        /\ Running(t)
    BY <1>7 DEF StartMcs, LockRuntime, Goto, Running
  <2>2. pc'[t] # "take" /\ \A u \in Threads \ {t} : pc'[u] = pc[u]
    BY <2>1 DEF TypeInv, TypeOK
  <2> QED
    BY <2>1, <2>2, StopInvKeeps
<1>8. ASSUME NEW t \in Threads, PollStop(t) \/ Mcs(t) \/ Fails(t)
      PROVE  StopInv'
  <2>1. CASE EndMcs(t)
    <3>1. /\ UNCHANGED <<flag, stopper, stopped, told, on>>
          /\ pc' = [pc EXCEPT ![t] = "guard"]
      BY <2>1 DEF EndMcs, Goto
    <3>2. /\ ~Running(t)' /\ pc'[t] # "take"
          /\ \A u \in Threads \ {t} : pc'[u] = pc[u]
      BY <3>1 DEF Running, InMcs, TypeInv, TypeOK
    <3> QED
      BY <3>1, <3>2, StopInvKeeps
  <2>2. CASE /\ pc[t] \in InMcs /\ UNCHANGED <<flag, stopper, stopped, told, on>>
             /\ pc' = pc \/ \E phase \in InMcs : pc' = [pc EXCEPT ![t] = phase]
    <3>1. /\ Running(t) /\ pc'[t] # "take"
          /\ \A u \in Threads \ {t} : pc'[u] = pc[u]
      BY <2>2 DEF Running, InMcs, TypeInv, TypeOK
    <3> QED
      BY <2>2, <3>1, StopInvKeeps
  <2>3. CASE /\ pc[t] = "request" /\ Return(t)
             /\ UNCHANGED <<flag, stopper, stopped, told>>
    <3>1. /\ ~Running(t)' /\ pc'[t] # "take"
          /\ \A u \in Threads \ {t} : pc'[u] = pc[u] /\ on'[u] = on[u]
      BY <2>3 DEF Return, Goto, Running, InMcs, TypeInv, TypeOK
    <3> QED
      BY <2>3, <3>1, StopInvKeeps
  <2>4. CASE Fails(t)
    BY <2>1, <2>3, <2>4 DEF Fails, RunFails, Panic
  <2>5. CASE PollStop(t) \/ Mcs(t)
    BY <2>1, <2>2, <2>5 DEF PollStop, Mcs, Takings, SeeStop, Pending, AllConnected, Announce, Callback,
       Acknowledge, StreamEnds, Connect, ReceiveData, ReceivePing, ReadsFrame, Goto, InMcs, handle
  <2> QED
    BY <1>8, <2>4, <2>5
<1>9. CASE Server \/ UNCHANGED vars
  <2>1. UNCHANGED <<handle, thread>>
    BY <1>9 DEF Server, Accept, ServerSends, ReadAcks, LineBreaks, vars
  <2> QED
    BY <2>1 DEF StopInv, Running, handle, thread
<1> QED
  BY <1>1, <1>2, <1>3, <1>4, <1>5, <1>6, <1>7, <1>8, <1>9 DEF Next, Calls, Stopping, Run

LEMMA StopInvInitially == Init => StopInv
BY DEF Init, StopInv, Running, InMcs

LEMMA StopInvDelivers ==
  ASSUME TypeInv, StopInv
  PROVE  StopDelivered
BY NoneAssumption DEF StopInv, StopDelivered

(* request_stop and install_stopper never miss each other: a run of a handle that  *)
(* has been stopped is told, for any number of threads that run and stop it.       *)
THEOREM StopsDelivered == Spec => []StopDelivered
<1>1. TypeInv /\ StopInv => StopDelivered
  BY StopInvDelivers
<1> QED
  BY <1>1, TypeInvInitially, TypeInvInductive, StopInvInitially, StopInvInductive, PTL DEF Spec

-------------------------------------------------------------------------------
(* A stopped handle is silent but for the poll under way.                        *)

(* A run that has taken something late is not past the poll of a stop, and will    *)
(* not be: the stop that its handle has had is told to it.                         *)
LateInv ==
  \A t \in Threads : late[t] # 0 =>
    /\ late[t] = 1
    /\ on[t] \in stopped
    /\ pc[t] \in InMcs \ {"login", "streams"}

(* A step that takes nothing, of a thread that has taken nothing late or goes on.  *)
LEMMA LateInvKeeps ==
  ASSUME LateInv, NEW t \in Threads,
         UNCHANGED late, stopped \subseteq stopped',
         \A u \in Threads \ {t} : pc'[u] = pc[u] /\ on'[u] = on[u],
         late[t] = 0 \/ (on'[t] = on[t] /\ pc'[t] \in InMcs \ {"login", "streams"})
  PROVE  LateInv'
BY DEF LateInv

(* A run that ends has taken nothing late.                                         *)
LEMMA LateInvEnds ==
  ASSUME TypeInv, LateInv, NEW t \in Threads, EndMcs(t)
  PROVE  LateInv'
<1>1. /\ late' = [late EXCEPT ![t] = 0] /\ pc' = [pc EXCEPT ![t] = "guard"]
      /\ UNCHANGED <<stopped, on>>
  BY DEF EndMcs, Goto
<1> QED
  BY <1>1 DEF LateInv, TypeInv, TypeOK

(* Connections and frames are taken past the poll of the stop, and at once the run *)
(* stands before it again.                                                         *)
LEMMA LateInvTakes ==
  ASSUME TypeInv, LateInv, NEW t \in Threads, NEW a \in Apps,
         Connect(t, a) \/ ReceiveData(t, a) \/ ReceivePing(t, a)
  PROVE  LateInv'
<1>1. /\ pc[t] \in {"login", "streams"} /\ Takes(t) /\ UNCHANGED <<stopped, on>>
      /\ \E phase \in {"connect", "select", "callback"} : pc' = [pc EXCEPT ![t] = phase]
  BY DEF Connect, ReceiveData, ReceivePing, ReadsFrame, Goto, handle
<1>2. late[t] = 0
  BY <1>1 DEF LateInv
<1>3. late'[t] # 0 => late'[t] = 1 /\ on[t] \in stopped
  BY <1>1, <1>2 DEF Takes, TypeInv, TypeOK
<1>4. pc'[t] \in InMcs \ {"login", "streams"}
  BY <1>1 DEF InMcs, TypeInv, TypeOK
<1>5. \A u \in Threads \ {t} : late'[u] = late[u] /\ pc'[u] = pc[u]
  BY <1>1 DEF Takes, TypeInv, TypeOK
<1> QED
  BY <1>1, <1>3, <1>4, <1>5 DEF LateInv

LEMMA LateInvInductive ==
  ASSUME TypeInv, StopInv, LateInv, [Next]_vars
  PROVE  LateInv'
<1>1. ASSUME NEW t \in Threads, EndMcs(t)
      PROVE  LateInv'
  BY <1>1, LateInvEnds
<1>2. ASSUME NEW t \in Threads, NEW a \in Apps,
             Connect(t, a) \/ ReceiveData(t, a) \/ ReceivePing(t, a)
      PROVE  LateInv'
  BY <1>2, LateInvTakes
<1>3. ASSUME NEW t \in Threads, PollStop(t)
      PROVE  LateInv'
  <2>1. /\ ~told[t] /\ pc[t] \in InMcs /\ UNCHANGED <<on, stopped, late>>
        /\ \E phase : pc' = [pc EXCEPT ![t] = phase]
    BY <1>3 DEF PollStop, Polls, Goto, InMcs, handle, course
  <2>2. on[t] \notin stopped
    BY <2>1, StopInvDelivers DEF StopDelivered, Running
  <2>3. late[t] = 0 /\ \A u \in Threads \ {t} : pc'[u] = pc[u]
    BY <2>1, <2>2 DEF LateInv, TypeInv, TypeOK
  <2> QED
    BY <2>1, <2>3, LateInvKeeps
<1>4. ASSUME NEW t \in Threads, ~EndMcs(t),
             \/ Calls(t) \/ Stopping(t) \/ Request(t) \/ Fails(t)
             \/ InstallStopper(t) \/ StartMcs(t) \/ DropGuard(t) \/ Pending(t)
      PROVE  LateInv'
  <2>1. /\ pc[t] \notin InMcs \ {"login", "streams"}
        /\ UNCHANGED late /\ stopped \subseteq stopped'
        /\ pc' = pc \/ \E phase : pc' = [pc EXCEPT ![t] = phase]
        /\ on' = on \/ \E h : on' = [on EXCEPT ![t] = h]
    <3>1. CASE Calls(t) \/ Stopping(t)
      BY <3>1 DEF Calls, CreateHandle, CallRun, CallRequest, CallStop, CallDestroy, Enter, Stopping,
         SetFlag, TakeStopper, Return, Goto, InMcs, handle, thread, course
    <3>2. CASE Request(t) \/ InstallStopper(t) \/ StartMcs(t)
      BY <3>2 DEF Request, InstallStopper, StartMcs, LockRuntime, Return, Goto, InMcs, course
    <3>3. CASE DropGuard(t) \/ Pending(t) \/ Fails(t)
      BY <1>4, <3>3 DEF DropGuard, Pending, Fails, RunFails, Panic, Return, Goto, InMcs, handle, course
    <3> QED
      BY <1>4, <3>1, <3>2, <3>3
  <2>2. late[t] = 0 /\ \A u \in Threads \ {t} : pc'[u] = pc[u] /\ on'[u] = on[u]
    BY <2>1 DEF LateInv, TypeInv, TypeOK
  <2> QED
    BY <2>1, <2>2, LateInvKeeps
<1>5. ASSUME NEW t \in Threads, ~EndMcs(t),
             AllConnected(t) \/ Announce(t) \/ Callback(t) \/ Acknowledge(t)
      PROVE  LateInv'
  <2>1. /\ UNCHANGED <<late, stopped, on>>
        /\ \E phase \in {"announce", "select", "ack"} : pc' = [pc EXCEPT ![t] = phase]
    BY <1>5 DEF AllConnected, Announce, Callback, Acknowledge, Goto, handle, course
  <2>2. /\ pc'[t] \in InMcs \ {"login", "streams"}
        /\ \A u \in Threads \ {t} : pc'[u] = pc[u]
    BY <2>1 DEF InMcs, TypeInv, TypeOK
  <2> QED
    BY <2>1, <2>2, LateInvKeeps
<1>6. CASE Server \/ UNCHANGED vars
  <2>1. UNCHANGED <<thread, stopped>>
    BY <1>6 DEF Server, Accept, ServerSends, ReadAcks, LineBreaks, handle, vars
  <2> QED
    BY <2>1 DEF LateInv, thread, course
<1>7. \A t \in Threads : SeeStop(t) \/ StreamEnds(t) => EndMcs(t)
  BY DEF SeeStop, StreamEnds
<1> QED
  BY <1>1, <1>2, <1>3, <1>4, <1>5, <1>6, <1>7 DEF Next, Run, Mcs, Takings

(* Once nativeStop or nativeDestroy has returned, a run of the handle takes at     *)
(* most the frame or connection whose poll was under way, however many threads run *)
(* and stop it and whatever is ready.                                              *)
THEOREM SilentAfterStop == Spec => []QuietAfterStop
<1>1. Init => LateInv
  BY DEF Init, LateInv
<1>2. LateInv => QuietAfterStop
  BY DEF LateInv, QuietAfterStop
<1> QED
  BY <1>1, <1>2, TypeInvInitially, TypeInvInductive, StopInvInitially, StopInvInductive,
     LateInvInductive, PTL DEF Spec

-------------------------------------------------------------------------------
(* No message is lost.                                                             *)

(* What a run has read, and may acknowledge with its next frame, is with Java, but *)
(* for the message at hand.                                                        *)
LossInv ==
  /\ NothingLost
  /\ \A a \in Apps : \A m \in acks[a] : <<a, m>> \in given
  /\ \A a \in Apps : conn[a] # None => \A m \in read[a] :
       <<a, m>> \in given \/ (pc[conn[a]] = "callback" /\ at[conn[a]] = <<a, m>>)

(* A step that takes no message: it may close connections, or move a thread that   *)
(* has none at hand.                                                               *)
LEMMA LossInvKeeps ==
  ASSUME TypeInv, LossInv, NEW t \in Threads,
         UNCHANGED <<read, acks, accepted, backlog>>, given \subseteq given',
         \A u \in Threads \ {t} : pc'[u] = pc[u] /\ at'[u] = at[u],
         \A a \in Apps : conn'[a] = conn[a] \/ conn'[a] = None,
         \/ pc[t] # "callback" \/ at[t] \in given'
         \/ pc'[t] = pc[t] /\ at'[t] = at[t]
         \/ \A a \in Apps : conn'[a] # t
  PROVE  LossInv'
<1>1. NothingLost'
  BY DEF LossInv, NothingLost
<1>2. \A a \in Apps : \A m \in acks'[a] : <<a, m>> \in given'
  BY DEF LossInv
<1>3. ASSUME NEW a \in Apps, conn'[a] # None, NEW m \in read'[a]
      PROVE  <<a, m>> \in given' \/ (pc'[conn'[a]] = "callback" /\ at'[conn'[a]] = <<a, m>>)
  <2>1. conn'[a] = conn[a] /\ conn[a] \in Threads
    BY <1>3 DEF TypeInv, TypeOK
  <2>2. <<a, m>> \in given \/ (pc[conn[a]] = "callback" /\ at[conn[a]] = <<a, m>>)
    BY <1>3, <2>1 DEF LossInv
  <2> QED
    BY <2>1, <2>2
<1> QED
  BY <1>1, <1>2, <1>3 DEF LossInv

(* A run that ends may acknowledge nothing any more.                               *)
LEMMA EndMcsLossless ==
  ASSUME TypeInv, LossInv, NEW t \in Threads, EndMcs(t), given \subseteq given'
  PROVE  LossInv'
<1>1. /\ UNCHANGED <<read, acks, accepted, backlog>>
      /\ \A u \in Threads \ {t} : pc'[u] = pc[u] /\ at'[u] = at[u]
      /\ \A a \in Apps : conn'[a] = IF conn[a] = t THEN None ELSE conn[a]
  BY DEF EndMcs, Goto, TypeInv, TypeOK
<1>2. \A a \in Apps : conn'[a] # t
  BY <1>1, NoneAssumption
<1> QED
  BY <1>1, <1>2, LossInvKeeps

(* Calls, requests and the steps of a run before it has a message.                 *)
LEMMA RunLossless ==
  ASSUME TypeInv, LossInv, NEW t \in Threads,
         \/ Calls(t) \/ Stopping(t) \/ Request(t) \/ InstallStopper(t) \/ StartMcs(t) \/ DropGuard(t)
         \/ Fails(t) \/ PollStop(t) \/ Pending(t) \/ SeeStop(t) \/ StreamEnds(t) \/ AllConnected(t)
         \/ Announce(t)
  PROVE  LossInv'
<1>1. CASE EndMcs(t)
  <2>1. given' = given
    BY <1>1 DEF Calls, CreateHandle, CallRun, CallRequest, CallStop, CallDestroy, Enter, Stopping,
       SetFlag, TakeStopper, Request, InstallStopper, StartMcs, DropGuard, Fails, RunFails, Panic,
       PollStop, Pending, SeeStop, AllConnected, Announce, StreamEnds, mail
  <2> QED
    BY <1>1, <2>1, EndMcsLossless
<1>2. CASE ~EndMcs(t)
  <2>1. /\ UNCHANGED <<at, line, mail>> /\ (pc' = pc \/ \E phase : pc' = [pc EXCEPT ![t] = phase])
        /\ pc[t] # "callback" \/ pc' = pc
    BY <1>2 DEF Calls, CreateHandle, CallRun, CallRequest, CallStop, CallDestroy, Enter, Stopping,
       SetFlag, TakeStopper, Request, InstallStopper, StartMcs, DropGuard, Fails, RunFails, Panic,
       PollStop, Pending, SeeStop, AllConnected, Announce, StreamEnds, LockRuntime, Return, Goto, thread
  <2>2. /\ UNCHANGED <<at, read, acks, conn, accepted, backlog, given>>
        /\ \A u \in Threads \ {t} : pc'[u] = pc[u]
        /\ pc[t] # "callback" \/ pc'[t] = pc[t]
    BY <2>1 DEF line, mail, TypeInv, TypeOK
  <2> QED
    BY <2>2, LossInvKeeps
<1> QED
  BY <1>1, <1>2

(* Messages: Connect, ReceiveData, ReceivePing, Callback, Acknowledge.             *)
LEMMA MessageLossless ==
  ASSUME TypeInv, LossInv, NEW t \in Threads,
         \/ \E a \in Apps : Connect(t, a) \/ ReceiveData(t, a) \/ ReceivePing(t, a)
         \/ Callback(t) \/ Acknowledge(t)
  PROVE  LossInv'
<1>1. ASSUME NEW a \in Apps, Connect(t, a)
      PROVE  LossInv'
  <2>1. /\ conn' = [conn EXCEPT ![a] = t] /\ read' = [read EXCEPT ![a] = {}]
        /\ acks' = [acks EXCEPT ![a] = {}] /\ UNCHANGED <<at, given, accepted>>
        /\ pc[t] = "login" /\ pc' = [pc EXCEPT ![t] = "connect"]
    BY <1>1 DEF Connect, Goto
  <2>2. \A b \in Apps : \A m \in backlog[b] : m \in backlog'[b] \/ <<b, m>> \in given
    <3>1. \/ UNCHANGED backlog
          \/ backlog' = [backlog EXCEPT ![a] = @ \ {m \in Message : <<a, m>> \in given}]
      BY <1>1 DEF Connect
    <3>2. backlog \in [Apps -> SUBSET Message]
      BY DEF TypeInv, TypeOK
    <3>3. ASSUME backlog' = [backlog EXCEPT ![a] = @ \ {m \in Message : <<a, m>> \in given}],
                 NEW b \in Apps, NEW m \in backlog[b], m \notin backlog'[b]
          PROVE  <<b, m>> \in given
      <4>1. b = a
        BY <3>2, <3>3
      <4>2. backlog'[a] = backlog[a] \ {n \in Message : <<a, n>> \in given}
        BY <3>2, <3>3
      <4> QED
        BY <3>2, <3>3, <4>1, <4>2
    <3> QED
      BY <3>1, <3>3
  <2>3. NothingLost'
    BY <2>1, <2>2 DEF LossInv, NothingLost
  <2>4. \A b \in Apps : b # a => conn'[b] = conn[b] /\ read'[b] = read[b] /\ acks'[b] = acks[b]
    BY <2>1 DEF TypeInv, TypeOK
  <2>5. read'[a] = {} /\ acks'[a] = {}
    BY <2>1 DEF TypeInv, TypeOK
  <2>6. \A u \in Threads : pc[u] = "callback" => pc'[u] = "callback"
    BY <2>1 DEF TypeInv, TypeOK
  <2>7. \A b \in Apps : conn[b] \in Threads \cup {None}
    BY DEF TypeInv, TypeOK
  <2> QED
    BY <2>1, <2>3, <2>4, <2>5, <2>6, <2>7 DEF LossInv
<1>2. ASSUME NEW a \in Apps, ReceiveData(t, a)
      PROVE  LossInv'
  <2> DEFINE m == Head(wire[a])
  <2>1. /\ pc[t] = "streams" /\ conn[a] = t
        /\ read' = [read EXCEPT ![a] = @ \cup {m}] /\ at' = [at EXCEPT ![t] = <<a, m>>]
        /\ pc' = [pc EXCEPT ![t] = "callback"] /\ UNCHANGED <<conn, acks, mail>>
    BY <1>2 DEF ReceiveData, ReadsFrame, Goto
  <2>2. NothingLost' /\ \A b \in Apps : \A n \in acks'[b] : <<b, n>> \in given'
    BY <2>1 DEF LossInv, NothingLost, mail
  <2>3. ASSUME NEW b \in Apps, conn'[b] # None, NEW n \in read'[b]
        PROVE  <<b, n>> \in given' \/ (pc'[conn'[b]] = "callback" /\ at'[conn'[b]] = <<b, n>>)
    <3>1. conn'[b] = conn[b] /\ conn[b] \in Threads /\ given' = given
      BY <2>1, <2>3 DEF mail, TypeInv, TypeOK
    <3>2. CASE b = a /\ n = m
      BY <2>1, <3>1, <3>2 DEF TypeInv, TypeOK
    <3>3. CASE ~(b = a /\ n = m)
      <4>1. n \in read[b]
        BY <2>1, <2>3, <3>3 DEF TypeInv, TypeOK
      <4>2. <<b, n>> \in given \/ (pc[conn[b]] = "callback" /\ at[conn[b]] = <<b, n>>)
        BY <2>3, <3>1, <4>1 DEF LossInv
      <4> QED
        BY <2>1, <3>1, <4>2 DEF TypeInv, TypeOK
    <3> QED
      BY <3>2, <3>3
  <2> QED
    BY <2>2, <2>3 DEF LossInv
<1>3. ASSUME NEW a \in Apps, ReceivePing(t, a)
      PROVE  LossInv'
  <2>1. /\ pc[t] = "streams" /\ conn[a] = t /\ acks' = [acks EXCEPT ![a] = @ \cup read[a]]
        /\ pc' = [pc EXCEPT ![t] = "select"] /\ UNCHANGED <<at, conn, read, mail>>
    BY <1>3 DEF ReceivePing, ReadsFrame, Goto
  <2>2. \A n \in read[a] : <<a, n>> \in given
    BY <2>1, NoneAssumption DEF LossInv
  <2>3. \A b \in Apps : \A n \in acks'[b] : <<b, n>> \in given
    BY <2>1, <2>2 DEF LossInv, TypeInv, TypeOK
  <2>4. \A b \in Apps : conn[b] # None /\ pc[conn[b]] = "callback" => pc'[conn[b]] = "callback"
    BY <2>1 DEF TypeInv, TypeOK
  <2> QED
    BY <2>1, <2>3, <2>4 DEF LossInv, NothingLost, mail
<1>4. CASE Callback(t)
  <2>1. CASE EndMcs(t)
    <3>1. given \subseteq given'
      BY <1>4 DEF Callback
    <3> QED
      BY <2>1, <3>1, EndMcsLossless
  <2>2. CASE ~EndMcs(t)
    <3>1. /\ given' = given \cup {at[t]} /\ pc' = [pc EXCEPT ![t] = "ack"]
          /\ UNCHANGED <<at, conn, read, acks, accepted, backlog>>
      BY <1>4, <2>2 DEF Callback, Goto, line
    <3>2. \A u \in Threads \ {t} : pc'[u] = pc[u] /\ at'[u] = at[u]
      BY <3>1 DEF TypeInv, TypeOK
    <3> QED
      BY <3>1, <3>2, LossInvKeeps
  <2> QED
    BY <2>1, <2>2
<1>5. CASE Acknowledge(t)
  <2>1. CASE EndMcs(t)
    <3>1. given \subseteq given'
      BY <1>5 DEF Acknowledge, mail
    <3> QED
      BY <2>1, <3>1, EndMcsLossless
  <2>2. CASE ~EndMcs(t)
    <3> DEFINE a == at[t][1]
    <3>1. /\ pc[t] = "ack" /\ pc' = [pc EXCEPT ![t] = "select"] /\ at' = [at EXCEPT ![t] = <<>>]
          /\ acks' = IF conn[a] = t THEN [acks EXCEPT ![a] = @ \cup read[a]] ELSE acks
          /\ UNCHANGED <<conn, read, mail>>
      BY <1>5, <2>2 DEF Acknowledge, Goto
    <3>2. a \in Apps
      BY <3>1 DEF TypeInv
    <3>3. conn[a] = t => \A n \in read[a] : <<a, n>> \in given
      BY <3>1, <3>2, NoneAssumption DEF LossInv
    <3>4. \A b \in Apps : \A n \in acks'[b] : <<b, n>> \in given
      BY <3>1, <3>2, <3>3 DEF LossInv, TypeInv, TypeOK
    <3>5. ASSUME NEW b \in Apps, conn[b] # None, NEW n \in read[b]
          PROVE  <<b, n>> \in given \/ (pc'[conn[b]] = "callback" /\ at'[conn[b]] = <<b, n>>)
      <4>1. conn[b] \in Threads
        BY <3>5 DEF TypeInv, TypeOK
      <4> QED
        BY <3>1, <3>5, <4>1 DEF LossInv, TypeInv, TypeOK
    <3> QED
      BY <3>1, <3>4, <3>5 DEF LossInv, NothingLost, mail
  <2> QED
    BY <2>1, <2>2
<1> QED
  BY <1>1, <1>2, <1>3, <1>4, <1>5

(* FCM forgets only what has been acknowledged.                                    *)
LEMMA ServerLossless ==
  ASSUME TypeInv, LossInv, Server
  PROVE  LossInv'
<1> PICK a \in Apps : Accept(a) \/ ServerSends(a) \/ ReadAcks(a) \/ LineBreaks(a)
  BY DEF Server
<1>1. CASE Accept(a)
  <2>1. /\ accepted' = [accepted EXCEPT ![a] = @ + 1]
        /\ backlog' = [backlog EXCEPT ![a] = @ \cup {accepted[a] + 1}]
        /\ UNCHANGED <<thread, line, given>>
    BY <1>1 DEF Accept, TypeInv, TypeOK
  <2>2. ASSUME NEW b \in Apps, NEW m \in 1..accepted'[b]
        PROVE  m \in backlog'[b] \/ <<b, m>> \in given
    <3>1. accepted[b] \in Nat /\ (m \in 1..accepted[b] \/ (b = a /\ m = accepted[a] + 1))
      BY <2>1, <2>2, BoundsAssumption DEF TypeInv, TypeOK
    <3> QED
      BY <2>1, <3>1 DEF LossInv, NothingLost, TypeInv, TypeOK
  <2> QED
    BY <2>1, <2>2 DEF LossInv, NothingLost, thread, line
<1>2. CASE ServerSends(a)
  BY <1>2 DEF LossInv, NothingLost, ServerSends, thread, mail
<1>3. CASE ReadAcks(a)
  <2>1. /\ acks' = [acks EXCEPT ![a] = {}] /\ backlog' = [backlog EXCEPT ![a] = @ \ acks[a]]
        /\ UNCHANGED <<thread, conn, read, given, accepted>>
    BY <1>3 DEF ReadAcks
  <2>2. NothingLost'
    BY <2>1 DEF LossInv, NothingLost, TypeInv, TypeOK
  <2>3. \A b \in Apps : acks'[b] \subseteq acks[b]
    BY <2>1 DEF TypeInv, TypeOK
  <2> QED
    BY <2>1, <2>2, <2>3 DEF LossInv, thread
<1>4. CASE LineBreaks(a)
  <2>1. /\ conn' = [conn EXCEPT ![a] = None] /\ UNCHANGED <<thread, read, mail>>
        /\ acks' = [acks EXCEPT ![a] = {}] \/ acks' = acks
    BY <1>4 DEF LineBreaks
  <2>2. \A b \in Apps : /\ conn'[b] = conn[b] \/ conn'[b] = None
                        /\ acks'[b] \subseteq acks[b]
    BY <2>1 DEF TypeInv, TypeOK
  <2> QED
    BY <2>1, <2>2 DEF LossInv, NothingLost, thread, mail
<1> QED
  BY <1>1, <1>2, <1>3, <1>4

LEMMA LossInvInductive ==
  ASSUME TypeInv, LossInv, [Next]_vars
  PROVE  LossInv'
<1>1. CASE \E t \in Threads : Calls(t) \/ Stopping(t) \/ Request(t) \/ Run(t) \/ Fails(t)
  BY <1>1, RunLossless, MessageLossless DEF Run, Mcs, Takings
<1>2. CASE Server
  BY <1>2, ServerLossless
<1>3. CASE UNCHANGED vars
  BY <1>3 DEF LossInv, NothingLost, vars, thread, line, mail
<1> QED
  BY <1>1, <1>2, <1>3 DEF Next

(* Every message FCM took is still with FCM or has been given to Java, for any     *)
(* number of applications and messages, failures, panics and stops.                *)
THEOREM MessagesKept == Spec => []NothingLost
<1>1. Init => LossInv
  BY DEF Init, LossInv, NothingLost
<1>2. LossInv => NothingLost
  BY DEF LossInv
<1> QED
  BY <1>1, <1>2, TypeInvInitially, TypeInvInductive, LossInvInductive, PTL DEF Spec

===============================================================================
