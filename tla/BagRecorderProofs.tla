------------------------- MODULE BagRecorderProofs -------------------------
(***************************************************************************)
(* Proofs about BagRecorder, for any capacity of the channel and any       *)
(* number of keys, topics, sessions and messages.                          *)
(***************************************************************************)
EXTENDS BagRecorder, SequenceTheorems, FiniteSetTheorems, TLAPS

\* An event determines its payload by its kind.
LEMMA EventKinds ==
    ASSUME NEW e \in Event
    PROVE  /\ e.op \in {"Data", "EnsureChannel", "Start", "Stop", "Shutdown"}
           /\ e.op = "Data" => e.msg \in Message /\ e = DataEvent(e.msg)
           /\ e.op = "Start" => e.session \in Sessions
           /\ e.op = "EnsureChannel" => e.key \in Keys
BY DEF Event, DataEvent

\* What the runtime and the actor put into the channel are events.
LEMMA EventsTyped ==
    /\ StopEvent \in Event /\ ShutdownEvent \in Event
    /\ \A n \in Sessions : StartEvent(n) \in Event
    /\ \A k \in Keys : EnsureEvent(k) \in Event
    /\ \A m \in Message : DataEvent(m) \in Event
BY DEF Event, StopEvent, ShutdownEvent, StartEvent, EnsureEvent, DataEvent

\* A saturating sequence number stays a u32.
LEMMA SaturatingAddTyped ==
    ASSUME NEW n \in 0 .. MaxSequence PROVE SaturatingAdd(n) \in 0 .. MaxSequence
BY RecorderAssumptions DEF SaturatingAdd

\* EXCEPT keeps the type of a function, also outside its domain.
LEMMA ExceptTyped ==
    ASSUME NEW S, NEW T, NEW f \in [S -> T], NEW x, NEW v, x \in S => v \in T
    PROVE  [f EXCEPT ![x] = v] \in [S -> T]
OBVIOUS

\* What TryRecord changes keeps its type.
LEMMA TryRecordTyped ==
    ASSUME TypeOK, NEW t \in Topics, NEW id \in Ids, TryRecord(t, id)
    PROVE  /\ sequences' \in [Topics -> 0 .. MaxSequence]
           /\ queue' \in Seq(Event) /\ Len(queue') <= Capacity
           /\ accepted' \in [Sessions -> Seq(Message)]
           /\ dropped' \in [Topics -> Nat] /\ droppedCount' \in Nat
           /\ lost' \in [Sessions -> [Topics -> Nat]]
<1> DEFINE m == [topic |-> t, seq |-> sequences[t], id |-> id]
<1>1. m \in Message
  BY DEF TypeOK, Message
<1>2. DataEvent(m) \in Event
  BY <1>1, EventsTyped
<1> HIDE DEF m
<1>3. CASE Len(queue) < Capacity
  <2>1. queue' = Append(queue, DataEvent(m))
        /\ sequences' = [sequences EXCEPT ![t] = SaturatingAdd(sequences[t])]
        /\ accepted' = [accepted EXCEPT ![session] = Append(accepted[session], m)]
        /\ UNCHANGED <<dropped, droppedCount, lost>>
    BY <1>3 DEF TryRecord, m
  <2>2. SaturatingAdd(sequences[t]) \in 0 .. MaxSequence
    BY SaturatingAddTyped DEF TypeOK
  <2>3. accepted' \in [Sessions -> Seq(Message)]
    <3>1. session \in Sessions => Append(accepted[session], m) \in Seq(Message)
      BY <1>1 DEF TypeOK
    <3> QED
      BY <2>1, <3>1, ExceptTyped DEF TypeOK
  <2>4. queue' \in Seq(Event) /\ Len(queue') = Len(queue) + 1
    BY <1>2, <2>1 DEF TypeOK
  <2> QED
    BY <1>3, <2>1, <2>2, <2>3, <2>4, RecorderAssumptions DEF TypeOK
<1>4. CASE ~(Len(queue) < Capacity)
  <2>1. dropped' = [dropped EXCEPT ![t] = dropped[t] + 1]
        /\ droppedCount' = droppedCount + 1
        /\ lost' = [lost EXCEPT ![session] = [lost[session] EXCEPT ![t] = lost[session][t] + 1]]
        /\ UNCHANGED <<queue, sequences, accepted>>
    BY <1>4 DEF TryRecord
  <2>2. lost' \in [Sessions -> [Topics -> Nat]]
    <3> DEFINE v == [lost[session] EXCEPT ![t] = lost[session][t] + 1]
    <3>1. session \in Sessions => v \in [Topics -> Nat]
      BY DEF TypeOK
    <3>2. lost' = [lost EXCEPT ![session] = v] /\ lost \in [Sessions -> [Topics -> Nat]]
      BY <2>1 DEF TypeOK
    <3> HIDE DEF v
    <3> QED
      BY <3>1, <3>2, ExceptTyped
  <2> QED
    BY <2>1, <2>2 DEF TypeOK
<1> QED
  BY <1>3, <1>4

----------------------------------------------------------------------------
(* The inductive invariant.                                                *)

Waiting(op) == pc \in {"send", "await"} /\ cmd.op = op

\* The runtime waits after each command, so a command is always the last
\* event of the channel, and its reply finds the channel empty.
ChannelInv ==
    /\ \A i \in 1 .. Len(queue) :
           queue[i].op # "Data" =>
               /\ i = Len(queue) /\ queue[i] = cmd
               /\ pc \in {"await", "join"} /\ reply = "none"
    /\ reply # "none" => pc = "await" /\ queue = <<>>
    /\ pc = "send" => cmd.op \in Commands
    /\ pc = "await" => cmd.op \in {"EnsureChannel", "Start", "Stop"}
    /\ pc = "join" => cmd.op = "Shutdown"
    /\ ~alive => pc \in {"join", "exited"} /\ queue = <<>>

\* The actor's recorder is the session's, but for the moment between the
\* actor's reply and the runtime's reading it.
SessionInv ==
    /\ active = IF ~alive \/ Answered("Stop") THEN None
                ELSE IF Answered("Start") /\ reply = "ok" THEN cmd.session
                ELSE session
    /\ Waiting("Start") => session = None /\ cmd.session = started
    /\ Waiting("Stop") \/ Waiting("EnsureChannel") => session # None
    /\ session <= started
    /\ active # None => file[active] = "open"

\* Channels the session believes in exist in the actor's file.
KnownInv ==
    /\ \A i \in 1 .. Len(queue) :
           queue[i].op = "Data" => active # None /\ queue[i].msg.topic \in known
    /\ active # None /\ active = session =>
           \A k \in channels : TopicOf[k] \in known
    /\ Answered("EnsureChannel") /\ reply = "ok" => TopicOf[cmd.key] \in known

\* The highest number given to a message that is settled or queued; the
\* message that waits for its channel has the next one.
Limit == IF Waiting("EnsureChannel") THEN offered - 1 ELSE offered

\* Messages are numbered as they arrive, and reach the file in that order.
OrderInv ==
    /\ \A n \in Sessions : \A i \in 1 .. Len(contents[n]) : contents[n][i].id <= Limit
    /\ \A i \in 1 .. Len(queue) : queue[i].op = "Data" =>
           /\ queue[i].msg.id <= Limit
           /\ \E j \in 1 .. Len(accepted[active]) : queue[i].msg = accepted[active][j]
           /\ \A h \in 1 .. i - 1 : queue[h].msg.id < queue[i].msg.id
           /\ \A h \in 1 .. Len(contents[active]) :
                  contents[active][h].id < queue[i].msg.id
    /\ BagIsInOrder

\* The drop counts are those of the session they will be reported for.
LostInv ==
    /\ session # None => dropped = lost[session]
    /\ Waiting("Start") => dropped = NoDrops /\ lost[cmd.session] = NoDrops
    /\ \A n \in Sessions : n > started => lost[n] = NoDrops /\ report[n] = NoReport
    /\ \A n \in Sessions :
           n = session \/ (Waiting("Start") /\ n = cmd.session) => report[n] = NoReport
    /\ LostReportExact

\* The command at the head of the channel is the one the runtime waits on,
\* and nothing is queued behind it.
LEMMA CommandIsLast ==
    ASSUME TypeOK, ChannelInv, queue # <<>>, Head(queue).op # "Data"
    PROVE  /\ Tail(queue) = <<>> /\ Len(queue) = 1 /\ Head(queue) = cmd
           /\ pc \in {"await", "join"} /\ reply = "none"
<1>1. queue \in Seq(Event) /\ Len(queue) >= 1 /\ Head(queue) = queue[1]
  BY EmptySeq DEF TypeOK
<1>a. 1 \in 1 .. Len(queue) /\ queue[1].op # "Data"
  BY <1>1
<1>2. Len(queue) = 1 /\ queue[1] = cmd /\ pc \in {"await", "join"} /\ reply = "none"
  BY <1>a DEF ChannelInv
<1>3. Tail(queue) \in Seq(Event) /\ Len(Tail(queue)) = 0
  BY <1>1, <1>2, HeadTailProperties
<1> QED
  BY <1>1, <1>2, <1>3, EmptySeq

\* Shutdown finds nothing to drain: the runtime has sent its last event.
LEMMA ShutdownWritesNothing ==
    ASSUME TypeOK, ChannelInv, ActorShutdown PROVE contents' = contents
<1>1. DataOf(Tail(queue)) = <<>>
  BY CommandIsLast DEF ActorShutdown, DataOf
<1>2. active # None => contents[active] \o <<>> = contents[active]
  BY ConcatEmptySeq DEF TypeOK
<1> QED
  BY <1>1, <1>2 DEF TypeOK, ActorShutdown

----------------------------------------------------------------------------
(* Type correctness.                                                       *)

LEMMA InitTyped == Init => TypeOK
<1> SUFFICES ASSUME Init PROVE TypeOK
  OBVIOUS
<1>1. NoDrops \in [Topics -> 0 .. MaxSequence] /\ NoDrops \in [Topics -> Nat]
      /\ NoReport \in [Topics -> Nat \cup {-1}]
  BY RecorderAssumptions DEF NoDrops, NoReport
<1>2. file \in [Sessions -> {"none", "open", "finished", "failed"}]
      /\ contents \in [Sessions -> Seq(Message)]
      /\ accepted \in [Sessions -> Seq(Message)]
  BY DEF Init
<1>3. lost \in [Sessions -> [Topics -> Nat]]
      /\ report \in [Sessions -> [Topics -> Nat \cup {-1}]]
  BY <1>1 DEF Init
<1>4. cmd \in Event /\ queue \in Seq(Event) /\ Len(queue) <= Capacity
  BY RecorderAssumptions, EventsTyped DEF Init
<1>5. started \in 0 .. MaxSessions /\ offered \in 0 .. MaxMessages
  BY RecorderAssumptions DEF Init
<1> QED
  BY <1>1, <1>2, <1>3, <1>4, <1>5 DEF Init, TypeOK

\* The runtime thread's steps.
LEMMA RuntimeTyped == TypeOK /\ Runtime => TypeOK'
<1> SUFFICES ASSUME TypeOK, Runtime PROVE TypeOK'
  OBVIOUS
<1> USE RecorderAssumptions
<1>1. ASSUME NEW p \in BOOLEAN, BagRecord(p) PROVE TypeOK'
  <2>1. StartEvent(started + 1) \in Event
    BY <1>1, EventsTyped DEF BagRecord, TypeOK, Sessions
  <2> QED
    BY <1>1, <2>1 DEF TypeOK, BagRecord, Issue, ResetDropCounts, NoDrops,
                      chanVars, actorVars, diskVars
<1>2. ASSUME NEW p \in BOOLEAN, SetPaused(p) PROVE TypeOK'
  BY <1>2 DEF TypeOK, SetPaused, chanVars, actorVars, diskVars, histVars
<1>3. ASSUME NEW k \in Keys, RecordPayload(k) PROVE TypeOK'
  <2>1. TopicOf[k] \in Topics /\ offered + 1 \in Ids
    BY <1>3 DEF RecordPayload, TypeOK, Ids
  <2>2. CASE TryRecord(TopicOf[k], offered + 1)
    BY <1>3, <2>1, <2>2, TryRecordTyped
       DEF TypeOK, RecordPayload, actorVars, diskVars, Ids
  <2>3. CASE BadTimestamp
    BY <1>3, <2>1, <2>3
       DEF TypeOK, RecordPayload, BadTimestamp, actorVars, diskVars, Ids
  <2> QED
    BY <1>3, <2>2, <2>3 DEF RecordPayload
<1>4. ASSUME NEW k \in Keys, NeedChannel(k) PROVE TypeOK'
  BY <1>4, EventsTyped
     DEF TypeOK, NeedChannel, Issue, chanVars, actorVars, diskVars
<1>5. ASSUME Send PROVE TypeOK'
  BY <1>5 DEF TypeOK, Send, actorVars, diskVars, histVars
<1>6. ASSUME StartReply PROVE TypeOK'
  <2>1. cmd.session \in Sessions
    BY <1>6, EventKinds DEF StartReply, Answered, TypeOK
  <2>2. NoDrops \in [Topics -> 0 .. MaxSequence]
    BY DEF NoDrops
  <2> QED
    BY <1>6, <2>1, <2>2
       DEF TypeOK, StartReply, actorVars, diskVars, histVars
<1>7. ASSUME EnsureReply PROVE TypeOK'
  <2>1. cmd.key \in Keys /\ TopicOf[cmd.key] \in Topics /\ offered \in Ids
    BY <1>7, EventKinds DEF EnsureReply, Answered, TypeOK, Ids
  <2>2. CASE reply = "ok" /\ TryRecord(TopicOf[cmd.key], offered)
    BY <1>7, <2>1, <2>2, TryRecordTyped
       DEF TypeOK, EnsureReply, actorVars, diskVars
  <2>3. CASE reply = "ok" /\ BadTimestamp
    BY <1>7, <2>1, <2>3
       DEF TypeOK, EnsureReply, BadTimestamp, actorVars, diskVars
  <2>4. CASE reply # "ok"
    BY <1>7, <2>4 DEF TypeOK, EnsureReply, actorVars, diskVars
  <2> QED
    BY <1>7, <2>2, <2>3, <2>4 DEF EnsureReply
<1>8. ASSUME BagStop PROVE TypeOK'
  BY <1>8, EventsTyped
     DEF TypeOK, BagStop, Issue, chanVars, actorVars, diskVars, histVars
<1>9. ASSUME StopReply PROVE TypeOK'
  <2>1. report' \in [Sessions -> [Topics -> Nat \cup {-1}]]
    <3>1. dropped \in [Topics -> Nat \cup {-1}]
      BY DEF TypeOK
    <3>2. CASE UNCHANGED report
      BY <3>2 DEF TypeOK
    <3>3. CASE report' = [report EXCEPT ![session] = dropped]
      <4>1. report \in [Sessions -> [Topics -> Nat \cup {-1}]]
        BY DEF TypeOK
      <4> QED
        BY <3>1, <3>3, <4>1, ExceptTyped
    <3> QED
      BY <1>9, <3>2, <3>3 DEF StopReply
  <2> QED
    BY <1>9, <2>1 DEF TypeOK, StopReply, actorVars, diskVars
<1>10. ASSUME CtrlC PROVE TypeOK'
  BY <1>10, EventsTyped
     DEF TypeOK, CtrlC, Issue, chanVars, actorVars, diskVars, histVars
<1>11. ASSUME RuntimeError PROVE TypeOK'
  BY <1>11 DEF TypeOK, RuntimeError, chanVars, actorVars, diskVars, histVars
<1>12. ASSUME DropHandle PROVE TypeOK'
  BY <1>12, EventsTyped
     DEF TypeOK, DropHandle, Issue, chanVars, actorVars, diskVars, histVars
<1>13. ASSUME Join PROVE TypeOK'
  BY <1>13 DEF TypeOK, Join, chanVars, actorVars, diskVars, histVars
<1> QED
  BY <1>1, <1>2, <1>3, <1>4, <1>5, <1>6, <1>7, <1>8, <1>9, <1>10, <1>11, <1>12,
     <1>13 DEF Runtime

\* The actor's steps.
LEMMA ActorTyped == TypeOK /\ ChannelInv /\ Actor => TypeOK'
<1> SUFFICES ASSUME TypeOK, ChannelInv, Actor PROVE TypeOK'
  OBVIOUS
<1> USE RecorderAssumptions
<1>0. alive /\ queue # <<>> =>
          /\ Head(queue) \in Event /\ Tail(queue) \in Seq(Event)
          /\ Len(Tail(queue)) <= Capacity
  BY DEF TypeOK
<1>1. ASSUME ActorData PROVE TypeOK'
  <2>1. Head(queue).msg \in Message /\ Head(queue).msg.id \in Ids
    BY <1>0, <1>1, EventKinds DEF ActorData, Receive, Message
  <2>2. active \in Sessions =>
            Append(contents[active], Head(queue).msg) \in Seq(Message)
    BY <2>1 DEF TypeOK
  <2>3. [contents EXCEPT ![active] = Append(contents[active], Head(queue).msg)]
            \in [Sessions -> Seq(Message)]
    <3>1. contents \in [Sessions -> Seq(Message)]
      BY DEF TypeOK
    <3> QED
      BY <2>2, <3>1, ExceptTyped
  <2>4. contents' \in [Sessions -> Seq(Message)] /\ failedWrites' \subseteq Ids
    BY <1>1, <2>1, <2>3 DEF TypeOK, ActorData
  <2> QED
    BY <1>0, <1>1, <2>4
       DEF TypeOK, ActorData, Receive, rtVars, actorVars
<1>2. ASSUME ActorEnsure PROVE TypeOK'
  <2>1. TopicOf[Head(queue).key] \in Topics
    BY <1>0, <1>2, EventKinds DEF ActorEnsure, Receive
  <2> QED
    BY <1>0, <1>2, <2>1
       DEF TypeOK, ActorEnsure, Receive, rtVars, diskVars, histVars
<1>3. ASSUME ActorStart PROVE TypeOK'
  <2>1. Head(queue).session \in Sessions
    BY <1>0, <1>3, EventKinds DEF ActorStart, Receive
  <2> QED
    BY <1>0, <1>3, <2>1
       DEF TypeOK, ActorStart, Receive, rtVars, histVars
<1>4. ASSUME ActorStop PROVE TypeOK'
  BY <1>0, <1>4 DEF TypeOK, ActorStop, Receive, Finish, rtVars, histVars
<1>5. ASSUME ActorShutdown PROVE TypeOK'
  <2>2. contents' = contents
    BY <1>5, ShutdownWritesNothing
  <2>3. file' \in [Sessions -> {"none", "open", "finished", "failed"}]
    BY <1>5 DEF TypeOK, ActorShutdown, Finish
  <2>4. queue' \in Seq(Event) /\ Len(queue') <= Capacity
    BY <1>5 DEF ActorShutdown
  <2> QED
    BY <1>5, <2>2, <2>3, <2>4 DEF TypeOK, ActorShutdown, rtVars, histVars
<1> QED
  BY <1>1, <1>2, <1>3, <1>4, <1>5 DEF Actor

----------------------------------------------------------------------------
(* The channel.                                                            *)

\* What TryRecord does to the channel and to the counts.
LEMMA TryRecordEffect ==
    ASSUME TypeOK, NEW t \in Topics, NEW id \in Ids, TryRecord(t, id)
    PROVE  \/ \E m \in Message :
                 /\ m.topic = t /\ m.id = id
                 /\ queue' = Append(queue, DataEvent(m))
                 /\ accepted' = [accepted EXCEPT ![session] = Append(accepted[session], m)]
                 /\ UNCHANGED <<dropped, lost>>
           \/ /\ UNCHANGED <<queue, accepted>>
              /\ dropped' = [dropped EXCEPT ![t] = dropped[t] + 1]
              /\ lost' = [lost EXCEPT ![session] =
                              [lost[session] EXCEPT ![t] = lost[session][t] + 1]]
<1> DEFINE m == [topic |-> t, seq |-> sequences[t], id |-> id]
<1>1. m \in Message /\ m.topic = t /\ m.id = id
  BY DEF TypeOK, Message
<1>2. CASE Len(queue) < Capacity
  <2>1. queue' = Append(queue, DataEvent(m))
        /\ accepted' = [accepted EXCEPT ![session] = Append(accepted[session], m)]
        /\ UNCHANGED <<dropped, lost>>
    BY <1>2 DEF TryRecord
  <2> HIDE DEF m
  <2> QED
    BY <1>1, <2>1
<1>3. CASE ~(Len(queue) < Capacity)
  BY <1>3 DEF TryRecord
<1> QED
  BY <1>2, <1>3

\* Data behind data keeps the shape of the channel.
LEMMA AppendDataKeepsShape ==
    ASSUME TypeOK, ChannelInv, NEW m \in Message,
           \A i \in 1 .. Len(queue) : queue[i].op = "Data",
           queue' = Append(queue, DataEvent(m))
    PROVE  \A i \in 1 .. Len(queue') : queue'[i].op = "Data"
<1>1. DataEvent(m) \in Event /\ DataEvent(m).op = "Data"
  BY EventsTyped DEF DataEvent
<1> QED
  BY <1>1 DEF TypeOK

LEMMA ChannelStep == TypeOK /\ ChannelInv /\ Next => ChannelInv'
<1> SUFFICES ASSUME TypeOK, ChannelInv, Next PROVE ChannelInv'
  OBVIOUS
<1> USE EventsTyped
<1>a. pc \in {"idle", "send", "drop", "exited"} \/ reply # "none" =>
        \A i \in 1 .. Len(queue) : queue[i].op = "Data"
  BY DEF ChannelInv
<1>1. ASSUME NEW p \in BOOLEAN, BagRecord(p) \/ SetPaused(p) PROVE ChannelInv'
  BY <1>1, <1>a DEF ChannelInv, BagRecord, SetPaused, Issue, StartEvent, Commands,
                    chanVars, actorVars
<1>2. ASSUME NEW k \in Keys, RecordPayload(k) PROVE ChannelInv'
  <2>1. TopicOf[k] \in Topics /\ offered + 1 \in Ids
    BY <1>2, RecorderAssumptions DEF RecordPayload, TypeOK, Ids
  <2>2. \A i \in 1 .. Len(queue') : queue'[i].op = "Data"
    <3>1. CASE TryRecord(TopicOf[k], offered + 1)
      BY <1>2, <1>a, <2>1, <3>1, TryRecordEffect, AppendDataKeepsShape DEF RecordPayload
    <3>2. CASE BadTimestamp
      BY <1>2, <1>a, <3>2 DEF RecordPayload, BadTimestamp
    <3> QED
      BY <1>2, <3>1, <3>2 DEF RecordPayload
  <2> QED
    BY <1>2, <2>2 DEF ChannelInv, RecordPayload, actorVars
<1>3. ASSUME NEW k \in Keys, NeedChannel(k) PROVE ChannelInv'
  BY <1>3, <1>a DEF ChannelInv, NeedChannel, Issue, EnsureEvent, Commands,
                    chanVars, actorVars
<1>4. ASSUME Send PROVE ChannelInv'
  <2>1. queue \in Seq(Event) /\ cmd \in Event
    BY DEF TypeOK
  <2>2. queue' = Append(queue, cmd) /\ pc = "send" /\ reply' = reply /\ reply = "none"
    BY <1>4 DEF Send, ChannelInv
  <2>3. \A i \in 1 .. Len(queue') :
            queue'[i].op # "Data" => i = Len(queue') /\ queue'[i] = cmd
    BY <1>a, <2>1, <2>2
  <2> QED
    BY <1>4, <2>2, <2>3 DEF ChannelInv, Send, Commands, actorVars
<1>5. ASSUME StartReply \/ StopReply PROVE ChannelInv'
  BY <1>5, <1>a DEF ChannelInv, StartReply, StopReply, Answered, actorVars
<1>6. ASSUME EnsureReply PROVE ChannelInv'
  <2>1. TopicOf[cmd.key] \in Topics /\ offered \in Ids
    BY <1>6, EventKinds, RecorderAssumptions DEF EnsureReply, Answered, TypeOK, Ids
  <2>2. \A i \in 1 .. Len(queue') : queue'[i].op = "Data"
    <3>1. CASE TryRecord(TopicOf[cmd.key], offered)
      BY <1>6, <1>a, <2>1, <3>1, TryRecordEffect, AppendDataKeepsShape
         DEF EnsureReply, Answered
    <3>2. CASE BadTimestamp \/ UNCHANGED queue
      BY <1>6, <1>a, <3>2 DEF EnsureReply, Answered, BadTimestamp
    <3> QED
      BY <1>6, <3>1, <3>2 DEF EnsureReply
  <2> QED
    BY <1>6, <2>2 DEF ChannelInv, EnsureReply, Answered, actorVars
<1>7. ASSUME BagStop \/ CtrlC \/ RuntimeError PROVE ChannelInv'
  BY <1>7, <1>a DEF ChannelInv, BagStop, CtrlC, RuntimeError, Issue, StopEvent,
                    Commands, chanVars, actorVars
<1>8. ASSUME DropHandle \/ Join PROVE ChannelInv'
  BY <1>8, <1>a DEF ChannelInv, DropHandle, Join, Issue, ShutdownEvent,
                    Commands, chanVars, actorVars
<1>9. ASSUME ActorData PROVE ChannelInv'
  <2>1. queue \in Seq(Event) /\ queue # <<>> /\ queue' = Tail(queue)
    BY <1>9 DEF ActorData, Receive, TypeOK
  <2>2. Len(queue') = Len(queue) - 1 /\ \A i \in 1 .. Len(queue') : queue'[i] = queue[i + 1]
    BY <2>1, HeadTailProperties
  <2>3. reply = "none" /\ alive
    BY <1>9 DEF ActorData, Receive, ChannelInv
  <2>4. Len(queue) \in Nat
    BY <2>1, LenProperties
  <2>5. ASSUME NEW i \in 1 .. Len(queue'), queue'[i].op # "Data"
        PROVE  i = Len(queue') /\ queue'[i] = cmd /\ pc \in {"await", "join"}
    <3>1. i + 1 \in 1 .. Len(queue) /\ queue[i + 1].op # "Data"
      BY <2>2, <2>4, <2>5
    <3>2. i + 1 = Len(queue) /\ queue[i + 1] = cmd /\ pc \in {"await", "join"}
      BY <3>1 DEF ChannelInv
    <3> QED
      BY <2>2, <2>4, <3>2
  <2>6. UNCHANGED <<pc, cmd, reply, alive>>
    BY <1>9 DEF ActorData, rtVars, actorVars
  <2>7. \A i \in 1 .. Len(queue') :
           queue'[i].op # "Data" =>
               /\ i = Len(queue') /\ queue'[i] = cmd'
               /\ pc' \in {"await", "join"} /\ reply' = "none"
    BY <2>3, <2>5, <2>6
  <2> QED
    BY <2>3, <2>6, <2>7 DEF ChannelInv
<1>10. ASSUME ActorEnsure \/ ActorStart \/ ActorStop PROVE ChannelInv'
  <2>1. queue' = <<>> /\ pc = "await" /\ alive
    BY <1>10, CommandIsLast
       DEF ActorEnsure, ActorStart, ActorStop, Receive, ChannelInv
  <2>2. UNCHANGED <<pc, cmd, alive>>
    BY <1>10 DEF ActorEnsure, ActorStart, ActorStop, rtVars
  <2>3. \A i \in 1 .. Len(queue') : FALSE
    BY <2>1
  <2> QED
    BY <2>1, <2>2, <2>3 DEF ChannelInv
<1>11. ASSUME ActorShutdown PROVE ChannelInv'
  <2>1. pc = "join" /\ reply = "none"
    BY <1>11, CommandIsLast DEF ActorShutdown, ChannelInv
  <2> QED
    BY <1>11, <2>1 DEF ChannelInv, ActorShutdown, rtVars
<1>12. ASSUME Done PROVE ChannelInv'
  BY <1>12 DEF Done, ChannelInv, vars, rtVars, chanVars, actorVars
<1> QED
  BY <1>1, <1>2, <1>3, <1>4, <1>5, <1>6, <1>7, <1>8, <1>9, <1>10, <1>11, <1>12
     DEF Next, Runtime, Actor

LEMMA ChannelInvariant == Spec => [](TypeOK /\ ChannelInv)
<1>1. Init => TypeOK /\ ChannelInv
  BY InitTyped DEF Init, ChannelInv
<1>2. TypeOK /\ ChannelInv /\ [Next]_vars => (TypeOK /\ ChannelInv)'
  <2>1. ASSUME TypeOK, ChannelInv, UNCHANGED vars PROVE (TypeOK /\ ChannelInv)'
    BY <2>1 DEF TypeOK, ChannelInv, vars, rtVars, chanVars, actorVars, diskVars, histVars
  <2>2. ASSUME TypeOK, ChannelInv, Next PROVE TypeOK'
    BY <2>1, <2>2, RuntimeTyped, ActorTyped DEF Next, Done
  <2> QED
    BY <2>1, <2>2, ChannelStep
<1> QED
  BY <1>1, <1>2, PTL DEF Spec

\* The session, the channel, the actor and the files keep their types; the
\* channel never exceeds its capacity and a sequence number never leaves u32.
THEOREM TypeCorrect == Spec => []TypeOK
BY ChannelInvariant, PTL

----------------------------------------------------------------------------
(* The session and the actor's recorder.                                   *)

LEMMA SessionStep == TypeOK /\ ChannelInv /\ SessionInv /\ Next => SessionInv'
<1> SUFFICES ASSUME TypeOK, ChannelInv, SessionInv, Next PROVE SessionInv'
  OBVIOUS
<1>a. session \in Sessions \cup {None} /\ active \in Sessions \cup {None}
      /\ started \in Nat /\ None \in Nat /\ Sessions \subseteq Nat /\ None \notin Sessions
      /\ None <= started
  BY RecorderAssumptions DEF TypeOK, Sessions, None
<1>1. ASSUME NEW p \in BOOLEAN, BagRecord(p) PROVE SessionInv'
  BY <1>1, <1>a DEF SessionInv, BagRecord, Issue, StartEvent, Waiting, Answered,
                    ChannelInv, chanVars, actorVars, diskVars
<1>2. ASSUME NEW p \in BOOLEAN, SetPaused(p) PROVE SessionInv'
  BY <1>2 DEF SessionInv, SetPaused, Waiting, Answered, chanVars, actorVars,
              diskVars, histVars
<1>3. ASSUME NEW k \in Keys, RecordPayload(k) PROVE SessionInv'
  BY <1>3 DEF SessionInv, RecordPayload, Waiting, Answered, actorVars, diskVars
<1>4. ASSUME NEW k \in Keys, NeedChannel(k) PROVE SessionInv'
  BY <1>4 DEF SessionInv, NeedChannel, Issue, EnsureEvent, Waiting, Answered,
              chanVars, actorVars, diskVars
<1>5. ASSUME Send PROVE SessionInv'
  BY <1>5 DEF SessionInv, Send, Waiting, Answered, ChannelInv, actorVars,
              diskVars, histVars
<1>6. ASSUME StartReply PROVE SessionInv'
  BY <1>6, <1>a DEF SessionInv, StartReply, Waiting, Answered, ChannelInv,
              actorVars, diskVars, histVars
<1>7. ASSUME EnsureReply PROVE SessionInv'
  BY <1>7 DEF SessionInv, EnsureReply, Waiting, Answered, ChannelInv,
              actorVars, diskVars
<1>8. ASSUME BagStop \/ CtrlC PROVE SessionInv'
  BY <1>8 DEF SessionInv, BagStop, CtrlC, Issue, StopEvent, Waiting, Answered,
              chanVars, actorVars, diskVars, histVars
<1>9. ASSUME StopReply PROVE SessionInv'
  BY <1>9, <1>a DEF SessionInv, StopReply, Waiting, Answered, ChannelInv,
                    actorVars, diskVars
<1>10. ASSUME RuntimeError \/ DropHandle \/ Join PROVE SessionInv'
  BY <1>10 DEF SessionInv, RuntimeError, DropHandle, Join, Issue, ShutdownEvent,
               Waiting, Answered, chanVars, actorVars, diskVars, histVars
<1>11. ASSUME ActorData PROVE SessionInv'
  BY <1>11 DEF SessionInv, ActorData, Waiting, Answered, rtVars, actorVars
<1>12. ASSUME ActorEnsure PROVE SessionInv'
  <2>1. cmd.op = "EnsureChannel" /\ reply = "none"
    BY <1>12, CommandIsLast DEF ActorEnsure, Receive
  <2> QED
    BY <1>12, <2>1 DEF SessionInv, ActorEnsure, Waiting, Answered, rtVars, diskVars,
                       histVars
<1>13. ASSUME ActorStart PROVE SessionInv'
  <2>1. Head(queue) = cmd /\ cmd.op = "Start" /\ reply = "none" /\ pc = "await"
        /\ alive
    BY <1>13, CommandIsLast DEF ActorStart, Receive, ChannelInv
  <2>2. session = None /\ active = None /\ cmd.session \in Sessions
    BY <2>1, EventKinds DEF SessionInv, Waiting, Answered, TypeOK
  <2> QED
    BY <1>13, <1>a, <2>1, <2>2
       DEF SessionInv, ActorStart, Waiting, Answered, TypeOK, rtVars, histVars
<1>14. ASSUME ActorStop PROVE SessionInv'
  <2>1. cmd.op = "Stop" /\ reply = "none" /\ pc = "await"
    BY <1>14, CommandIsLast DEF ActorStop, Receive, ChannelInv
  <2> QED
    BY <1>14, <2>1 DEF SessionInv, ActorStop, Waiting, Answered, rtVars, histVars
<1>15. ASSUME ActorShutdown PROVE SessionInv'
  <2>1. cmd.op = "Shutdown"
    BY <1>15, CommandIsLast DEF ActorShutdown
  <2> QED
    BY <1>15, <2>1 DEF SessionInv, ActorShutdown, Waiting, Answered, rtVars, histVars
<1>16. ASSUME Done PROVE SessionInv'
  BY <1>16 DEF Done, SessionInv, Waiting, Answered, vars, rtVars, chanVars,
               actorVars, diskVars, histVars
<1> QED
  BY <1>1, <1>2, <1>3, <1>4, <1>5, <1>6, <1>7, <1>8, <1>9, <1>10, <1>11, <1>12,
     <1>13, <1>14, <1>15, <1>16 DEF Next, Runtime, Actor

LEMMA KnownStep ==
    TypeOK /\ ChannelInv /\ SessionInv /\ KnownInv /\ Next => KnownInv'
<1> SUFFICES ASSUME TypeOK, ChannelInv, SessionInv, KnownInv, Next PROVE KnownInv'
  OBVIOUS
<1>a. session \in Sessions \cup {None} /\ None \notin Sessions
      /\ queue \in Seq(Event) /\ TopicOf \in [Keys -> Topics] /\ channels \subseteq Keys
  BY RecorderAssumptions DEF TypeOK, Sessions, None
\* A message taken into the channel of a session that knows its topic.
<1>b. ASSUME NEW t \in Topics, NEW id \in Ids, TryRecord(t, id) \/ BadTimestamp,
             active # None, t \in known, UNCHANGED <<active, known>>
      PROVE  \A i \in 1 .. Len(queue') :
                 queue'[i].op = "Data" => active' # None /\ queue'[i].msg.topic \in known'
  <2>1. CASE UNCHANGED queue
    BY <1>b, <2>1 DEF KnownInv
  <2>2. ASSUME NEW m \in Message, m.topic = t, queue' = Append(queue, DataEvent(m))
        PROVE  \A i \in 1 .. Len(queue') :
                 queue'[i].op = "Data" => active' # None /\ queue'[i].msg.topic \in known'
    <3>1. DataEvent(m) \in Event /\ DataEvent(m).msg = m
      BY EventsTyped DEF DataEvent
    <3> QED
      BY <1>a, <1>b, <2>2, <3>1 DEF KnownInv
  <2> QED
    BY <1>b, <2>1, <2>2, TryRecordEffect DEF BadTimestamp
<1>1. ASSUME NEW p \in BOOLEAN, BagRecord(p) \/ SetPaused(p) PROVE KnownInv'
  BY <1>1, <1>a DEF KnownInv, BagRecord, SetPaused, Issue, StartEvent, Answered,
                    chanVars, actorVars
<1>2. ASSUME NEW k \in Keys, RecordPayload(k) PROVE KnownInv'
  <2>1. TopicOf[k] \in Topics /\ offered + 1 \in Ids /\ TopicOf[k] \in known
        /\ active # None
    BY <1>2, <1>a, RecorderAssumptions
       DEF RecordPayload, TypeOK, Ids, KnownInv, SessionInv, Answered, ChannelInv
  <2> QED
    BY <1>2, <1>b, <2>1 DEF RecordPayload, KnownInv, Answered, actorVars
<1>3. ASSUME NEW k \in Keys, NeedChannel(k) PROVE KnownInv'
  BY <1>3 DEF KnownInv, NeedChannel, Issue, EnsureEvent, Answered, chanVars, actorVars
<1>4. ASSUME Send PROVE KnownInv'
  <2>1. \A i \in 1 .. Len(queue') :
            queue'[i].op = "Data" => i \in 1 .. Len(queue) /\ queue'[i] = queue[i]
    BY <1>4, <1>a DEF Send, ChannelInv, Commands, TypeOK
  <2> QED
    BY <1>4, <2>1 DEF KnownInv, Send, Answered, ChannelInv, actorVars
<1>5. ASSUME StartReply PROVE KnownInv'
  BY <1>5, <1>a DEF KnownInv, StartReply, Answered, SessionInv, Waiting, actorVars
<1>6. ASSUME EnsureReply PROVE KnownInv'
  <2>1. cmd.key \in Keys /\ TopicOf[cmd.key] \in Topics /\ offered \in Ids
    BY <1>6, EventKinds, RecorderAssumptions DEF EnsureReply, Answered, TypeOK, Ids
  <2>2. active = session /\ active # None
    BY <1>6 DEF EnsureReply, Answered, SessionInv, ChannelInv, Waiting
  <2>3. CASE reply = "ok"
    BY <1>6, <1>a, <1>b, <2>1, <2>2, <2>3 DEF EnsureReply, KnownInv, Answered, actorVars
  <2>4. CASE reply # "ok"
    BY <1>6, <2>4 DEF EnsureReply, KnownInv, Answered, actorVars
  <2> QED
    BY <2>3, <2>4
<1>7. ASSUME BagStop \/ CtrlC PROVE KnownInv'
  BY <1>7 DEF KnownInv, BagStop, CtrlC, Issue, StopEvent, Answered, chanVars, actorVars
<1>8. ASSUME StopReply PROVE KnownInv'
  BY <1>8 DEF KnownInv, StopReply, Answered, actorVars
<1>9. ASSUME RuntimeError \/ DropHandle \/ Join PROVE KnownInv'
  BY <1>9 DEF KnownInv, RuntimeError, DropHandle, Join, Issue, ShutdownEvent,
               Answered, chanVars, actorVars
<1>10. ASSUME ActorData PROVE KnownInv'
  <2>1. queue # <<>> /\ queue' = Tail(queue) /\ UNCHANGED <<active, known>>
    BY <1>10 DEF ActorData, Receive, actorVars
  <2>2. \A i \in 1 .. Len(queue') : i + 1 \in 1 .. Len(queue) /\ queue'[i] = queue[i + 1]
    BY <1>a, <2>1, HeadTailProperties, LenProperties
  <2>3. \A i \in 1 .. Len(queue') :
           queue'[i].op = "Data" => active' # None /\ queue'[i].msg.topic \in known'
    BY <2>1, <2>2 DEF KnownInv
  <2> QED
    BY <1>10, <2>1, <2>3 DEF KnownInv, ActorData, Answered, rtVars
<1>11. ASSUME ActorEnsure \/ ActorStart \/ ActorStop PROVE KnownInv'
  <2>1. queue' = <<>> /\ Head(queue) = cmd /\ pc = "await" /\ reply = "none"
    BY <1>11, CommandIsLast
       DEF ActorEnsure, ActorStart, ActorStop, Receive, ChannelInv
  <2>2. \A i \in 1 .. Len(queue') : FALSE
    BY <2>1
  <2>3. CASE ActorEnsure
    BY <2>1, <2>2, <2>3 DEF KnownInv, ActorEnsure, Receive, Answered, rtVars
  <2>4. CASE ActorStart
    <3>1. session = None
      BY <2>1, <2>4 DEF ActorStart, Receive, SessionInv, Waiting
    <3> QED
      BY <2>1, <2>2, <2>4, <3>1 DEF KnownInv, ActorStart, Receive, Answered, rtVars
  <2>5. CASE ActorStop
    BY <2>1, <2>2, <2>5 DEF KnownInv, ActorStop, Receive, Answered, rtVars
  <2> QED
    BY <1>11, <2>3, <2>4, <2>5
<1>12. ASSUME ActorShutdown PROVE KnownInv'
  <2>1. pc = "join" /\ queue' = <<>>
    BY <1>12, CommandIsLast DEF ActorShutdown, ChannelInv
  <2>2. \A i \in 1 .. Len(queue') : FALSE
    BY <2>1
  <2> QED
    BY <1>12, <2>1, <2>2 DEF KnownInv, ActorShutdown, Answered, rtVars
<1>13. ASSUME Done PROVE KnownInv'
  BY <1>13 DEF Done, KnownInv, Answered, vars, rtVars, chanVars, actorVars
<1> QED
  BY <1>1, <1>2, <1>3, <1>4, <1>5, <1>6, <1>7, <1>8, <1>9, <1>10, <1>11, <1>12,
     <1>13 DEF Next, Runtime, Actor

----------------------------------------------------------------------------
(* Drop counts.                                                            *)

LEMMA LostStep == TypeOK /\ ChannelInv /\ SessionInv /\ LostInv /\ Next => LostInv'
<1> SUFFICES ASSUME TypeOK, ChannelInv, SessionInv, LostInv, Next PROVE LostInv'
  OBVIOUS
<1>a. session \in Sessions \cup {None} /\ None \notin Sessions /\ None \in Nat
      /\ Sessions \subseteq Nat /\ started \in Nat
      /\ dropped \in [Topics -> Nat] /\ lost \in [Sessions -> [Topics -> Nat]]
      /\ report \in [Sessions -> [Topics -> Nat \cup {-1}]]
  BY RecorderAssumptions DEF TypeOK, Sessions, None
\* A dropped message is counted twice: for the response and for the session.
<1>b. ASSUME NEW t \in Topics, NEW id \in Ids, TryRecord(t, id) \/ BadTimestamp,
             session \in Sessions, UNCHANGED <<session, started, report, cmd>>,
             pc' = "idle", ~Waiting("Start")
      PROVE  LostInv'
  <2>1. CASE UNCHANGED <<dropped, lost>>
    BY <1>b, <2>1 DEF LostInv, LostReportExact, Waiting
  <2>2. CASE /\ dropped' = [dropped EXCEPT ![t] = dropped[t] + 1]
             /\ lost' = [lost EXCEPT ![session] =
                             [lost[session] EXCEPT ![t] = lost[session][t] + 1]]
    <3>1. dropped' = lost'[session] /\ \A n \in Sessions \ {session} : lost'[n] = lost[n]
      BY <1>a, <1>b, <2>2 DEF LostInv
    <3>2. session <= started /\ report[session] = NoReport
      BY <1>b DEF SessionInv, LostInv
    <3> QED
      BY <1>a, <1>b, <3>1, <3>2 DEF LostInv, LostReportExact, Waiting
  <2> QED
    BY <1>b, <2>1, <2>2, TryRecordEffect DEF BadTimestamp
<1>1. ASSUME NEW p \in BOOLEAN, BagRecord(p) PROVE LostInv'
  <2>1. started + 1 \in Sessions /\ started + 1 > started
    BY <1>1, <1>a, RecorderAssumptions DEF BagRecord, Sessions
  <2>2. lost[started + 1] = NoDrops /\ report[started + 1] = NoReport
    BY <2>1 DEF LostInv
  <2> QED
    BY <1>1, <1>a, <2>1, <2>2
       DEF LostInv, LostReportExact, BagRecord, ResetDropCounts, Issue, StartEvent, Waiting
<1>2. ASSUME NEW p \in BOOLEAN, SetPaused(p) PROVE LostInv'
  BY <1>2 DEF LostInv, LostReportExact, SetPaused, Waiting, histVars
<1>3. ASSUME NEW k \in Keys, RecordPayload(k) PROVE LostInv'
  <2>1. TopicOf[k] \in Topics /\ offered + 1 \in Ids
    BY <1>3, <1>a, RecorderAssumptions DEF RecordPayload, TypeOK, Ids
  <2> QED
    BY <1>3, <1>a, <1>b, <2>1 DEF RecordPayload, Waiting
<1>4. ASSUME NEW k \in Keys, NeedChannel(k) PROVE LostInv'
  BY <1>4 DEF LostInv, LostReportExact, NeedChannel, Issue, EnsureEvent, Waiting
<1>5. ASSUME Send PROVE LostInv'
  BY <1>5 DEF LostInv, LostReportExact, Send, Waiting, histVars
<1>6. ASSUME StartReply PROVE LostInv'
  BY <1>6, <1>a DEF LostInv, LostReportExact, StartReply, Answered, Waiting, histVars
<1>7. ASSUME EnsureReply PROVE LostInv'
  <2>1. cmd.key \in Keys /\ TopicOf[cmd.key] \in Topics /\ offered \in Ids
    BY <1>7, EventKinds, RecorderAssumptions DEF EnsureReply, Answered, TypeOK, Ids
  <2>2. session \in Sessions /\ ~Waiting("Start")
    BY <1>7, <1>a DEF EnsureReply, Answered, SessionInv, Waiting
  <2>3. CASE reply = "ok"
    BY <1>7, <1>a, <1>b, <2>1, <2>2, <2>3 DEF EnsureReply
  <2>4. CASE reply # "ok"
    BY <1>7, <2>2, <2>4 DEF LostInv, LostReportExact, EnsureReply, Waiting
  <2> QED
    BY <2>3, <2>4
<1>8. ASSUME BagStop \/ CtrlC PROVE LostInv'
  BY <1>8 DEF LostInv, LostReportExact, BagStop, CtrlC, Issue, StopEvent, Waiting, histVars
<1>9. ASSUME StopReply PROVE LostInv'
  <2>1. session \in Sessions /\ session <= started /\ dropped = lost[session]
        /\ UNCHANGED <<lost, dropped, started>> /\ session' = None /\ pc' \notin {"send", "await"}
    BY <1>9, <1>a DEF StopReply, Answered, SessionInv, LostInv, Waiting
  <2>2. \A n \in Sessions :
           \/ report'[n] = report[n]
           \/ n = session /\ report'[n] = lost[n]
    BY <1>9, <1>a, <2>1 DEF StopReply
  <2>3. \A n \in Sessions : n > started => lost[n] = NoDrops /\ report'[n] = NoReport
    <3>1. \A n \in Sessions : n > started => n # session
      BY <1>a, <2>1
    <3> QED
      BY <2>2, <3>1 DEF LostInv
  <2>4. \A n \in Sessions : report'[n] # NoReport => report'[n] = lost[n]
    BY <2>2 DEF LostInv, LostReportExact
  <2>5. ~Waiting("Start")' /\ session' = None /\ None \notin Sessions
    BY <1>a, <2>1 DEF Waiting
  <2> QED
    BY <2>1, <2>3, <2>4, <2>5 DEF LostInv, LostReportExact
<1>10. ASSUME RuntimeError \/ DropHandle \/ Join PROVE LostInv'
  BY <1>10 DEF LostInv, LostReportExact, RuntimeError, DropHandle, Join, Issue,
               ShutdownEvent, Waiting, histVars
<1>11. ASSUME Actor \/ Done PROVE LostInv'
  <2>1. UNCHANGED <<pc, cmd, session, dropped, started, lost, report>>
    BY <1>11 DEF Actor, Done, ActorData, ActorEnsure, ActorStart, ActorStop,
                 ActorShutdown, rtVars, histVars, vars
  <2> QED
    BY <2>1 DEF LostInv, LostReportExact, Waiting
<1> QED
  BY <1>1, <1>2, <1>3, <1>4, <1>5, <1>6, <1>7, <1>8, <1>9, <1>10, <1>11
     DEF Next, Runtime

----------------------------------------------------------------------------
(* Delivery.                                                               *)

\* Where a message that try_record took may be.
Queued(m) == \E j \in 1 .. Len(queue) : queue[j] = DataEvent(m)

Settled(n, m) == \/ m.id \in failedWrites
                 \/ \E j \in 1 .. Len(contents[n]) : contents[n][j] = m

Safe(n, m) == Settled(n, m) \/ (active = n /\ file[n] = "open" /\ Queued(m))

\* Nothing but the command is in the channel when the actor takes a command.
LEMMA CommandLeavesNoData ==
    ASSUME TypeOK, ChannelInv, queue # <<>>, Head(queue).op # "Data"
    PROVE  \A m : ~Queued(m)
<1>1. Len(queue) = 1 /\ queue[1].op # "Data"
  BY CommandIsLast DEF TypeOK
<1>2. \A m : DataEvent(m).op = "Data"
  BY DEF DataEvent
<1> QED
  BY <1>1, <1>2 DEF Queued

LEMMA DeliveryStep ==
    /\ TypeOK /\ ChannelInv /\ SessionInv /\ KnownInv /\ NothingForgotten /\ Next
    => NothingForgotten'
<1> SUFFICES ASSUME TypeOK, ChannelInv, SessionInv, KnownInv, NothingForgotten, Next
             PROVE  NothingForgotten'
  OBVIOUS
<1>a. \A n \in Sessions : \A i \in 1 .. Len(accepted[n]) : Safe(n, accepted[n][i])
  BY DEF NothingForgotten, Safe, Settled, Queued
<1>b. session \in Sessions \cup {None} /\ None \notin Sessions
      /\ queue \in Seq(Event) /\ accepted \in [Sessions -> Seq(Message)]
      /\ contents \in [Sessions -> Seq(Message)]
      /\ active \in Sessions \cup {None}
  BY RecorderAssumptions DEF TypeOK, Sessions, None
\* The goal in terms of Safe.
<1>c. ASSUME \A n \in Sessions : \A i \in 1 .. Len(accepted'[n]) :
                 \A m : m = accepted'[n][i] => Safe(n, m)'
      PROVE  NothingForgotten'
  BY <1>c DEF NothingForgotten, Safe, Settled, Queued
<1>d. ASSUME UNCHANGED <<accepted, queue, contents, failedWrites, active, file>>
      PROVE  NothingForgotten'
  BY <1>d DEF NothingForgotten
\* A message taken for the session is queued behind the others.
<1>e. ASSUME NEW t \in Topics, NEW id \in Ids, TryRecord(t, id) \/ BadTimestamp,
             session \in Sessions, active = session,
             UNCHANGED <<contents, failedWrites, active, file>>
      PROVE  NothingForgotten'
  <2>1. CASE UNCHANGED <<queue, accepted>>
    BY <1>d, <1>e, <2>1
  <2>2. ASSUME NEW m \in Message, queue' = Append(queue, DataEvent(m)),
               accepted' = [accepted EXCEPT ![session] = Append(accepted[session], m)]
        PROVE  NothingForgotten'
    <3>1. DataEvent(m) \in Event
      BY EventsTyped
    <3>2. file[active] = "open"
      BY <1>b, <1>e DEF SessionInv
    <3>3. Queued(m)' /\ \A x : Queued(x) => Queued(x)'
      <4>1. Len(queue') = Len(queue) + 1 /\ queue'[Len(queue) + 1] = DataEvent(m)
            /\ (\A j \in 1 .. Len(queue) : queue'[j] = queue[j]) /\ Len(queue) \in Nat
        BY <1>b, <2>2, <3>1, AppendProperties, LenProperties
      <4>2. Len(queue) + 1 \in 1 .. Len(queue') /\ 1 .. Len(queue) \subseteq 1 .. Len(queue')
        BY <4>1
      <4> QED
        BY <4>1, <4>2 DEF Queued
    <3>4. ASSUME NEW n \in Sessions, NEW i \in 1 .. Len(accepted'[n]),
                 NEW x, x = accepted'[n][i]
          PROVE  Safe(n, x)'
      <4>1. CASE i \in 1 .. Len(accepted[n]) /\ x = accepted[n][i]
        <5>1. Safe(n, x)
          BY <1>a, <4>1
        <5> QED
          BY <1>e, <3>3, <5>1 DEF Safe, Settled
      <4>2. CASE n = session /\ x = m
        BY <1>e, <3>2, <3>3, <4>2 DEF Safe
      <4> QED
        BY <1>b, <1>e, <2>2, <3>4, <4>1, <4>2
    <3> QED
      BY <1>c, <3>4
  <2> QED
    BY <1>e, <2>1, <2>2, TryRecordEffect DEF BadTimestamp
\* A command at the head of the channel: every message is already settled.
<1>f. ASSUME queue # <<>>, Head(queue).op # "Data", UNCHANGED <<accepted, contents, failedWrites>>
      PROVE  NothingForgotten'
  <2>1. \A n \in Sessions : \A i \in 1 .. Len(accepted[n]) : Settled(n, accepted[n][i])
    BY <1>a, <1>f, CommandLeavesNoData DEF Safe
  <2> QED
    BY <1>f, <2>1 DEF NothingForgotten, Settled
<1>1. ASSUME NEW p \in BOOLEAN, BagRecord(p) \/ SetPaused(p) PROVE NothingForgotten'
  BY <1>1, <1>d DEF BagRecord, SetPaused, chanVars, actorVars, diskVars, histVars
<1>2. ASSUME NEW k \in Keys, RecordPayload(k) PROVE NothingForgotten'
  <2>1. TopicOf[k] \in Topics /\ offered + 1 \in Ids /\ session \in Sessions
    BY <1>2, <1>b, RecorderAssumptions DEF RecordPayload, TypeOK, Ids
  <2>2. active = session
    BY <1>2 DEF RecordPayload, SessionInv, ChannelInv, Answered
  <2> QED
    BY <1>2, <1>e, <2>1, <2>2 DEF RecordPayload, actorVars, diskVars
<1>3. ASSUME NEW k \in Keys, NeedChannel(k) PROVE NothingForgotten'
  BY <1>3, <1>d DEF NeedChannel, chanVars, actorVars, diskVars
<1>4. ASSUME Send PROVE NothingForgotten'
  <2>1. queue' = Append(queue, cmd) /\ cmd \in Event
        /\ UNCHANGED <<accepted, contents, failedWrites, active, file>>
    BY <1>4 DEF Send, TypeOK, actorVars, diskVars, histVars
  <2>2. \A x : Queued(x) => Queued(x)'
    BY <1>b, <2>1 DEF Queued
  <2> QED
    BY <1>a, <1>c, <2>1, <2>2 DEF Safe, Settled
<1>5. ASSUME StartReply \/ StopReply PROVE NothingForgotten'
  BY <1>5, <1>d DEF StartReply, StopReply, actorVars, diskVars, histVars
<1>6. ASSUME EnsureReply PROVE NothingForgotten'
  <2>1. TopicOf[cmd.key] \in Topics /\ offered \in Ids
    BY <1>6, EventKinds, RecorderAssumptions DEF EnsureReply, Answered, TypeOK, Ids
  <2>2. active = session /\ session \in Sessions
    BY <1>6, <1>b DEF EnsureReply, Answered, SessionInv, ChannelInv, Waiting
  <2>3. CASE reply = "ok"
    BY <1>6, <1>e, <2>1, <2>2, <2>3 DEF EnsureReply, actorVars, diskVars
  <2>4. CASE reply # "ok"
    BY <1>6, <1>d, <2>4 DEF EnsureReply, actorVars, diskVars
  <2> QED
    BY <2>3, <2>4
<1>7. ASSUME BagStop \/ CtrlC \/ RuntimeError \/ DropHandle \/ Join PROVE NothingForgotten'
  BY <1>7, <1>d DEF BagStop, CtrlC, RuntimeError, DropHandle, Join, chanVars,
                    actorVars, diskVars, histVars
<1>8. ASSUME ActorData PROVE NothingForgotten'
  <2> DEFINE h == Head(queue).msg
  <2>1. queue # <<>> /\ queue' = Tail(queue) /\ queue[1] = Head(queue) /\ Head(queue) \in Event
        /\ UNCHANGED <<active, file, accepted>>
    BY <1>8, <1>b DEF ActorData, Receive, actorVars
  <2>2. h \in Message /\ active \in Sessions
    <3>1. Head(queue).op = "Data" /\ 1 \in 1 .. Len(queue)
      BY <1>8, <1>b, <2>1, EmptySeq DEF ActorData, Receive
    <3> QED
      BY <1>b, <2>1, <3>1, EventKinds DEF KnownInv
  <2>3. \A x : Queued(x) => x = h \/ Queued(x)'
    <3>1. ASSUME NEW x, NEW j \in 1 .. Len(queue), queue[j] = DataEvent(x)
          PROVE  x = h \/ Queued(x)'
      <4>1. CASE j = 1
        BY <2>1, <3>1, <4>1 DEF DataEvent
      <4>2. CASE j # 1
        <5>1. j - 1 \in 1 .. Len(queue') /\ queue'[j - 1] = queue[j]
          BY <1>b, <2>1, <4>2, HeadTailProperties, LenProperties
        <5> QED
          BY <3>1, <5>1 DEF Queued
      <4> QED
        BY <4>1, <4>2
    <3> QED
      BY <3>1 DEF Queued
  <2>4. (\A x : x = h => Settled(active, x)') /\ \A n \in Sessions : \A m : Settled(n, m) => Settled(n, m)'
    <3> HIDE DEF h
    <3>1. CASE /\ contents' = [contents EXCEPT ![active] = Append(contents[active], h)]
               /\ UNCHANGED failedWrites
      <4>1. Len(contents'[active]) = Len(contents[active]) + 1
            /\ contents'[active][Len(contents[active]) + 1] = h
            /\ \A j \in 1 .. Len(contents[active]) :
                  contents'[active][j] = contents[active][j]
            /\ Len(contents[active]) \in Nat
            /\ \A n \in Sessions \ {active} : contents'[n] = contents[n]
        BY <1>b, <2>2, <3>1, AppendProperties, LenProperties
      <4>2. Len(contents[active]) + 1 \in 1 .. Len(contents'[active])
            /\ 1 .. Len(contents[active]) \subseteq 1 .. Len(contents'[active])
        BY <4>1
      <4> QED
        BY <2>1, <3>1, <4>1, <4>2 DEF Settled
    <3>2. CASE failedWrites' = failedWrites \cup {h.id} /\ UNCHANGED contents
      BY <2>1, <3>2 DEF Settled
    <3> QED
      BY <1>8, <1>b, <2>2, <3>1, <3>2 DEF ActorData, h
  <2> HIDE DEF h
  <2>5. ASSUME NEW n \in Sessions, NEW m, Safe(n, m) PROVE Safe(n, m)'
    <3>1. CASE Settled(n, m)
      BY <2>4, <3>1 DEF Safe
    <3>2. CASE active = n /\ file[n] = "open" /\ Queued(m)
      <4>1. CASE m = h
        BY <2>1, <2>4, <3>2, <4>1 DEF Safe, Settled
      <4>2. CASE Queued(m)'
        BY <2>1, <3>2, <4>2 DEF Safe
      <4> QED
        BY <2>3, <3>2, <4>1, <4>2
    <3> QED
      BY <2>5, <3>1, <3>2 DEF Safe
  <2> QED
    BY <1>a, <1>c, <2>1, <2>5
<1>9. ASSUME ActorEnsure \/ ActorStart \/ ActorStop PROVE NothingForgotten'
  BY <1>9, <1>f DEF ActorEnsure, ActorStart, ActorStop, Receive, diskVars, histVars
<1>10. ASSUME ActorShutdown PROVE NothingForgotten'
  <2>1. contents' = contents
    BY <1>10, ShutdownWritesNothing
  <2> QED
    BY <1>10, <1>f, <2>1 DEF ActorShutdown, histVars
<1>11. ASSUME Done PROVE NothingForgotten'
  BY <1>11, <1>d DEF Done, vars, chanVars, actorVars, diskVars, histVars
<1> QED
  BY <1>1, <1>2, <1>3, <1>4, <1>5, <1>6, <1>7, <1>8, <1>9, <1>10, <1>11
     DEF Next, Runtime, Actor

----------------------------------------------------------------------------
(* Order.                                                                  *)

\* A step never lowers the highest number in use.
LEMMA LimitStep ==
    ASSUME TypeOK, ChannelInv, Next
    PROVE  Limit \in Int /\ Limit' \in Int /\ Limit <= Limit'
<1>1. offered \in Int
  BY RecorderAssumptions DEF TypeOK
<1>2. ASSUME UNCHANGED <<pc, cmd, offered>> PROVE Limit' = Limit
  BY <1>2 DEF Limit, Waiting
<1>3. CASE Actor \/ Done
  <2>1. UNCHANGED <<pc, cmd, offered>>
    BY <1>3 DEF Actor, Done, ActorData, ActorEnsure, ActorStart, ActorStop,
                ActorShutdown, rtVars, histVars, vars
  <2> QED
    BY <1>1, <1>2, <2>1 DEF Limit
<1>4. ASSUME NEW k \in Keys, RecordPayload(k) \/ NeedChannel(k)
      PROVE  Limit \in Int /\ Limit' \in Int /\ Limit <= Limit'
  BY <1>1, <1>4 DEF Limit, Waiting, RecordPayload, NeedChannel, Issue, EnsureEvent
<1>5. ASSUME NEW p \in BOOLEAN, BagRecord(p) \/ SetPaused(p)
      PROVE  Limit \in Int /\ Limit' \in Int /\ Limit <= Limit'
  BY <1>1, <1>5 DEF Limit, Waiting, BagRecord, SetPaused, Issue, StartEvent, histVars
<1>6. CASE Send \/ StartReply \/ EnsureReply \/ StopReply
  BY <1>1, <1>6 DEF Limit, Waiting, Answered, Send, StartReply, EnsureReply, StopReply,
                    histVars
<1>7. CASE BagStop \/ CtrlC \/ RuntimeError \/ DropHandle \/ Join
  BY <1>1, <1>7 DEF Limit, Waiting, BagStop, CtrlC, RuntimeError, DropHandle, Join,
                    Issue, StopEvent, ShutdownEvent, histVars
<1> QED
  BY <1>3, <1>4, <1>5, <1>6, <1>7 DEF Next, Runtime

LEMMA OrderStep ==
    TypeOK /\ ChannelInv /\ SessionInv /\ KnownInv /\ OrderInv /\ Next => OrderInv'
<1> SUFFICES ASSUME TypeOK, ChannelInv, SessionInv, KnownInv, OrderInv, Next
             PROVE  OrderInv'
  OBVIOUS
<1>a. session \in Sessions \cup {None} /\ None \notin Sessions
      /\ queue \in Seq(Event) /\ accepted \in [Sessions -> Seq(Message)]
      /\ contents \in [Sessions -> Seq(Message)]
      /\ active \in Sessions \cup {None}
  BY RecorderAssumptions DEF TypeOK, Sessions, None
<1>b. Limit \in Int /\ Limit' \in Int /\ Limit <= Limit'
  BY LimitStep
<1>c. /\ \A m \in Message : m.id \in Int
      /\ \A n \in Sessions : \A i \in 1 .. Len(contents[n]) :
             contents[n][i] \in Message /\ contents[n][i].id \in Int
      /\ \A i \in 1 .. Len(queue) : queue[i].op = "Data" =>
             queue[i].msg \in Message /\ queue[i].msg.id \in Int
  <2>1. \A m \in Message : m.id \in Int
    BY RecorderAssumptions DEF Message, Ids
  <2>2. \A i \in 1 .. Len(queue) : queue[i] \in Event
    BY <1>a, ElementOfSeq
  <2>3. \A n \in Sessions : \A i \in 1 .. Len(contents[n]) : contents[n][i] \in Message
    BY <1>a, ElementOfSeq
  <2> QED
    BY <2>1, <2>2, <2>3, EventKinds
<1>d. ASSUME UNCHANGED <<accepted, queue, contents, active>> PROVE OrderInv'
  <2>1. BagIsInOrder'
    BY <1>d DEF OrderInv, BagIsInOrder
  <2>2. \A n \in Sessions : \A i \in 1 .. Len(contents[n]) : contents[n][i].id <= Limit'
    BY <1>b, <1>c DEF OrderInv
  <2>3. \A i \in 1 .. Len(queue) : queue[i].op = "Data" => queue[i].msg.id <= Limit'
    BY <1>b, <1>c DEF OrderInv
  <2> QED
    BY <1>d, <2>1, <2>2, <2>3 DEF OrderInv
\* A new message carries a higher number than any before it.
<1>e. ASSUME NEW t \in Topics, NEW id \in Ids, TryRecord(t, id) \/ BadTimestamp,
             id > Limit, id = Limit', session \in Sessions, active = session,
             UNCHANGED <<contents, active>>,
             \A i \in 1 .. Len(queue) : queue[i].op = "Data"
      PROVE  OrderInv'
  <2>1. CASE UNCHANGED <<queue, accepted>>
    BY <1>d, <1>e, <2>1
  <2>2. ASSUME NEW m \in Message, m.id = id, queue' = Append(queue, DataEvent(m)),
               accepted' = [accepted EXCEPT ![session] = Append(accepted[session], m)]
        PROVE  OrderInv'
    <3>1. DataEvent(m) \in Event /\ DataEvent(m).msg = m
      BY EventsTyped DEF DataEvent
    <3>2. Len(queue') = Len(queue) + 1 /\ queue'[Len(queue) + 1] = DataEvent(m)
          /\ (\A j \in 1 .. Len(queue) : queue'[j] = queue[j]) /\ Len(queue) \in Nat
      BY <1>a, <2>2, <3>1, AppendProperties, LenProperties
    <3>3. /\ Len(accepted[active]) \in Nat
          /\ Len(accepted'[active]) = Len(accepted[active]) + 1
          /\ accepted'[active][Len(accepted[active]) + 1] = m
          /\ \A j \in 1 .. Len(accepted[active]) : accepted'[active][j] = accepted[active][j]
          /\ \A n \in Sessions \ {active} : accepted'[n] = accepted[n]
      BY <1>a, <1>e, <2>2, AppendProperties, LenProperties
    <3>4. /\ Len(accepted[active]) + 1 \in 1 .. Len(accepted'[active])
          /\ 1 .. Len(accepted[active]) \subseteq 1 .. Len(accepted'[active])
      BY <3>3
    <3>5. BagIsInOrder'
      <4>1. ASSUME NEW n \in Sessions, NEW i \in 1 .. Len(contents[n])
            PROVE  /\ \E j \in 1 .. Len(accepted'[n]) : contents[n][i] = accepted'[n][j]
                   /\ \A h \in 1 .. i - 1 : contents[n][h].id < contents[n][i].id
        <5>1. PICK j \in 1 .. Len(accepted[n]) : contents[n][i] = accepted[n][j]
          BY DEF OrderInv, BagIsInOrder
        <5>2. j \in 1 .. Len(accepted'[n]) /\ accepted'[n][j] = accepted[n][j]
          BY <3>3, <3>4, <5>1
        <5>3. \A h \in 1 .. i - 1 : contents[n][h].id < contents[n][i].id
          BY DEF OrderInv, BagIsInOrder
        <5> QED
          BY <5>1, <5>2, <5>3
      <4> QED
        BY <1>e, <4>1 DEF BagIsInOrder
    <3>6. ASSUME NEW i \in 1 .. Len(queue')
          PROVE  /\ queue'[i].msg.id <= Limit'
                 /\ \E j \in 1 .. Len(accepted'[active]) :
                        queue'[i].msg = accepted'[active][j]
                 /\ \A h \in 1 .. i - 1 : queue'[h].msg.id < queue'[i].msg.id
                 /\ \A h \in 1 .. Len(contents[active]) :
                        contents[active][h].id < queue'[i].msg.id
      <4>1. CASE i \in 1 .. Len(queue)
        <5>1. queue[i].op = "Data" /\ queue'[i] = queue[i]
              /\ \A h \in 1 .. i - 1 : queue'[h] = queue[h]
          BY <1>e, <3>2, <4>1
        <5>2. queue[i].msg.id <= Limit'
          BY <1>b, <1>c, <4>1, <5>1 DEF OrderInv
        <5>3. PICK j \in 1 .. Len(accepted[active]) : queue[i].msg = accepted[active][j]
          BY <4>1, <5>1 DEF OrderInv
        <5>4. j \in 1 .. Len(accepted'[active]) /\ accepted'[active][j] = accepted[active][j]
          BY <3>3, <3>4, <5>3
        <5>5. /\ \A h \in 1 .. i - 1 : queue[h].msg.id < queue[i].msg.id
              /\ \A h \in 1 .. Len(contents[active]) :
                        contents[active][h].id < queue[i].msg.id
          BY <4>1, <5>1 DEF OrderInv
        <5> QED
          BY <5>1, <5>2, <5>3, <5>4, <5>5
      <4>2. CASE i = Len(queue) + 1
        <5>1. queue'[i].msg = m /\ m.id = Limit' /\ m.id > Limit
          BY <1>e, <2>2, <3>1, <3>2, <4>2
        <5>2. \A h \in 1 .. i - 1 : queue'[h].msg.id < m.id
          <6>1. ASSUME NEW h \in 1 .. i - 1 PROVE queue'[h].msg.id < m.id
            <7>1. h \in 1 .. Len(queue) /\ queue'[h] = queue[h] /\ queue[h].op = "Data"
              BY <1>e, <3>2, <4>2
            <7>2. queue[h].msg.id \in Int /\ queue[h].msg.id <= Limit
              BY <1>c, <7>1 DEF OrderInv
            <7> QED
              BY <1>b, <1>c, <5>1, <7>1, <7>2
          <6> QED
            BY <6>1
        <5>3. \A h \in 1 .. Len(contents[active]) : contents[active][h].id < m.id
          <6>1. ASSUME NEW h \in 1 .. Len(contents[active])
                PROVE contents[active][h].id < m.id
            <7>1. contents[active][h].id \in Int /\ contents[active][h].id <= Limit
              BY <1>c, <1>e DEF OrderInv
            <7> QED
              BY <1>b, <1>c, <5>1, <7>1
          <6> QED
            BY <6>1
        <5>4. m.id <= Limit'
          BY <1>b, <5>1
        <5> QED
          BY <3>3, <3>4, <5>1, <5>2, <5>3, <5>4
      <4> QED
        BY <3>2, <4>1, <4>2
    <3>7. \A n \in Sessions : \A i \in 1 .. Len(contents[n]) : contents[n][i].id <= Limit'
      BY <1>b, <1>c DEF OrderInv
    <3> QED
      BY <1>e, <3>5, <3>6, <3>7 DEF OrderInv
  <2> QED
    BY <1>e, <2>1, <2>2, TryRecordEffect DEF BadTimestamp
\* A command at the head of the channel: no message is queued.
<1>f. ASSUME queue' = <<>>, UNCHANGED <<accepted, contents>> PROVE OrderInv'
  <2>1. \A i \in 1 .. Len(queue') : FALSE
    BY <1>f
  <2>2. BagIsInOrder'
    BY <1>f DEF OrderInv, BagIsInOrder
  <2>3. \A n \in Sessions : \A i \in 1 .. Len(contents[n]) : contents[n][i].id <= Limit'
    BY <1>b, <1>c DEF OrderInv
  <2> QED
    BY <1>f, <2>1, <2>2, <2>3 DEF OrderInv
<1>1. ASSUME NEW p \in BOOLEAN, BagRecord(p) \/ SetPaused(p) PROVE OrderInv'
  BY <1>1, <1>d DEF BagRecord, SetPaused, chanVars, actorVars, diskVars, histVars
<1>2. ASSUME NEW k \in Keys, RecordPayload(k) PROVE OrderInv'
  <2>1. TopicOf[k] \in Topics /\ offered + 1 \in Ids /\ session \in Sessions
    BY <1>2, <1>a, RecorderAssumptions DEF RecordPayload, TypeOK, Ids
  <2>2. active = session /\ \A i \in 1 .. Len(queue) : queue[i].op = "Data"
    BY <1>2 DEF RecordPayload, SessionInv, ChannelInv, Answered
  <2>3. Limit = offered /\ Limit' = offered + 1 /\ offered + 1 > offered
    BY <1>2, <1>b DEF Limit, Waiting, RecordPayload
  <2> QED
    BY <1>2, <1>e, <2>1, <2>2, <2>3 DEF RecordPayload, actorVars, diskVars
<1>3. ASSUME NEW k \in Keys, NeedChannel(k) PROVE OrderInv'
  BY <1>3, <1>d DEF NeedChannel, chanVars, actorVars, diskVars
<1>4. ASSUME Send PROVE OrderInv'
  <2>1. queue' = Append(queue, cmd) /\ cmd \in Event /\ cmd.op # "Data"
        /\ UNCHANGED <<accepted, contents, active>>
    BY <1>4 DEF Send, TypeOK, ChannelInv, Commands, actorVars, diskVars, histVars
  <2>2. Len(queue') = Len(queue) + 1 /\ queue'[Len(queue) + 1] = cmd
        /\ (\A j \in 1 .. Len(queue) : queue'[j] = queue[j]) /\ Len(queue) \in Nat
    BY <1>a, <2>1, AppendProperties, LenProperties
  <2>3. ASSUME NEW i \in 1 .. Len(queue'), queue'[i].op = "Data"
        PROVE  /\ queue'[i].msg.id <= Limit'
               /\ \E j \in 1 .. Len(accepted[active]) : queue'[i].msg = accepted[active][j]
               /\ \A h \in 1 .. i - 1 : queue'[h].msg.id < queue'[i].msg.id
               /\ \A h \in 1 .. Len(contents[active]) :
                      contents[active][h].id < queue'[i].msg.id
    <3>1. i \in 1 .. Len(queue) /\ queue'[i] = queue[i] /\ queue[i].op = "Data"
          /\ \A h \in 1 .. i - 1 : queue'[h] = queue[h]
      BY <2>1, <2>2, <2>3
    <3>2. queue[i].msg.id <= Limit'
      BY <1>b, <1>c, <3>1 DEF OrderInv
    <3> QED
      BY <3>1, <3>2 DEF OrderInv
  <2>4. BagIsInOrder'
    BY <2>1 DEF OrderInv, BagIsInOrder
  <2>5. \A n \in Sessions : \A i \in 1 .. Len(contents[n]) : contents[n][i].id <= Limit'
    BY <1>b, <1>c DEF OrderInv
  <2> QED
    BY <2>1, <2>3, <2>4, <2>5 DEF OrderInv
<1>5. ASSUME StartReply \/ StopReply PROVE OrderInv'
  BY <1>5, <1>d DEF StartReply, StopReply, actorVars, diskVars, histVars
<1>6. ASSUME EnsureReply PROVE OrderInv'
  <2>1. TopicOf[cmd.key] \in Topics /\ offered \in Ids
    BY <1>6, EventKinds, RecorderAssumptions DEF EnsureReply, Answered, TypeOK, Ids
  <2>2. active = session /\ session \in Sessions
    BY <1>6, <1>a DEF EnsureReply, Answered, SessionInv, ChannelInv, Waiting
  <2>3. \A i \in 1 .. Len(queue) : queue[i].op = "Data"
    BY <1>6 DEF EnsureReply, Answered, ChannelInv
  <2>4. Limit = offered - 1 /\ Limit' = offered /\ offered > Limit
    BY <1>6, <1>b DEF Limit, Waiting, EnsureReply, Answered
  <2>5. CASE reply = "ok"
    BY <1>6, <1>e, <2>1, <2>2, <2>3, <2>4, <2>5 DEF EnsureReply, actorVars, diskVars
  <2>6. CASE reply # "ok"
    BY <1>6, <1>d, <2>6 DEF EnsureReply, actorVars, diskVars
  <2> QED
    BY <2>5, <2>6
<1>7. ASSUME BagStop \/ CtrlC \/ RuntimeError \/ DropHandle \/ Join PROVE OrderInv'
  BY <1>7, <1>d DEF BagStop, CtrlC, RuntimeError, DropHandle, Join, chanVars,
                    actorVars, diskVars, histVars
<1>9. ASSUME ActorEnsure \/ ActorStart \/ ActorStop PROVE OrderInv'
  <2>1. queue' = <<>>
    BY <1>9, CommandIsLast DEF ActorEnsure, ActorStart, ActorStop, Receive
  <2> QED
    BY <1>9, <1>f, <2>1 DEF ActorEnsure, ActorStart, ActorStop, diskVars, histVars
<1>10. ASSUME ActorShutdown PROVE OrderInv'
  BY <1>10, <1>f, ShutdownWritesNothing DEF ActorShutdown, histVars
<1>11. ASSUME Done PROVE OrderInv'
  BY <1>11, <1>d DEF Done, vars, chanVars, actorVars, diskVars, histVars
<1>8. ASSUME ActorData PROVE OrderInv'
  <2> DEFINE h == Head(queue).msg
  <2>1. queue # <<>> /\ queue' = Tail(queue) /\ queue[1] = Head(queue)
        /\ UNCHANGED <<active, accepted>> /\ Head(queue).op = "Data"
        /\ 1 \in 1 .. Len(queue)
    BY <1>8, <1>a, EmptySeq DEF ActorData, Receive, actorVars
  <2>2. h \in Message /\ active \in Sessions
    BY <1>a, <1>c, <2>1 DEF KnownInv
  <2>3. \A i \in 1 .. Len(queue') : i + 1 \in 1 .. Len(queue) /\ queue'[i] = queue[i + 1]
    BY <1>a, <2>1, HeadTailProperties, LenProperties
  <2>4. \/ UNCHANGED contents
        \/ contents' = [contents EXCEPT ![active] = Append(contents[active], h)]
    BY <1>8 DEF ActorData
  <2>5. /\ h.id <= Limit /\ h.id \in Int
        /\ \E j \in 1 .. Len(accepted[active]) : h = accepted[active][j]
        /\ \A g \in 1 .. Len(contents[active]) : contents[active][g].id < h.id
    BY <1>c, <2>1 DEF OrderInv
  <2> HIDE DEF h
  <2>6. ASSUME NEW i \in 1 .. Len(queue'), queue'[i].op = "Data"
        PROVE  /\ queue'[i].msg.id <= Limit'
               /\ \E j \in 1 .. Len(accepted[active]) : queue'[i].msg = accepted[active][j]
               /\ \A g \in 1 .. i - 1 : queue'[g].msg.id < queue'[i].msg.id
               /\ \A g \in 1 .. Len(contents[active]) :
                      contents[active][g].id < queue'[i].msg.id
               /\ h.id < queue'[i].msg.id
    <3>1. i + 1 \in 1 .. Len(queue) /\ queue'[i] = queue[i + 1] /\ queue[i + 1].op = "Data"
      BY <2>3, <2>6
    <3>2. \A g \in 1 .. i - 1 : g + 1 \in 1 .. (i + 1) - 1 /\ queue'[g] = queue[g + 1]
      BY <2>3
    <3>3. 1 \in 1 .. (i + 1) - 1 /\ queue[1].msg = h
      BY <2>1 DEF h
    <3>4. /\ \E j \in 1 .. Len(accepted[active]) : queue[i + 1].msg = accepted[active][j]
          /\ \A g \in 1 .. (i + 1) - 1 : queue[g].msg.id < queue[i + 1].msg.id
          /\ \A g \in 1 .. Len(contents[active]) :
                      contents[active][g].id < queue[i + 1].msg.id
      BY <3>1 DEF OrderInv
    <3>5. queue[i + 1].msg.id <= Limit'
      BY <1>b, <1>c, <3>1 DEF OrderInv
    <3> QED
      BY <3>1, <3>2, <3>3, <3>4, <3>5
  <2>7. CASE UNCHANGED contents
    <3>1. BagIsInOrder'
      BY <2>1, <2>7 DEF OrderInv, BagIsInOrder
    <3>2. \A n \in Sessions : \A i \in 1 .. Len(contents[n]) : contents[n][i].id <= Limit'
      BY <1>b, <1>c DEF OrderInv
    <3> QED
      BY <2>1, <2>6, <2>7, <3>1, <3>2 DEF OrderInv
  <2>8. CASE contents' = [contents EXCEPT ![active] = Append(contents[active], h)]
    <3>1. /\ Len(contents'[active]) = Len(contents[active]) + 1
          /\ contents'[active][Len(contents[active]) + 1] = h
          /\ \A j \in 1 .. Len(contents[active]) :
                contents'[active][j] = contents[active][j]
          /\ Len(contents[active]) \in Nat
          /\ \A n \in Sessions \ {active} : contents'[n] = contents[n]
      BY <1>a, <2>2, <2>8, AppendProperties, LenProperties
    <3>2. ASSUME NEW n \in Sessions, NEW i \in 1 .. Len(contents'[n])
          PROVE  /\ contents'[n][i].id <= Limit'
                 /\ \E j \in 1 .. Len(accepted[n]) : contents'[n][i] = accepted[n][j]
                 /\ \A g \in 1 .. i - 1 : contents'[n][g].id < contents'[n][i].id
      <4>1. CASE /\ i \in 1 .. Len(contents[n]) /\ contents'[n][i] = contents[n][i]
                 /\ \A g \in 1 .. i - 1 : contents'[n][g] = contents[n][g]
        <5>1. contents[n][i].id <= Limit'
          BY <1>b, <1>c, <4>1 DEF OrderInv
        <5> QED
          BY <4>1, <5>1 DEF OrderInv, BagIsInOrder
      <4>2. CASE n = active /\ i = Len(contents[active]) + 1
        <5>1. contents'[n][i] = h /\ \A g \in 1 .. i - 1 : contents'[n][g] = contents[n][g]
              /\ i - 1 = Len(contents[active])
          BY <3>1, <4>2
        <5>2. h.id <= Limit'
          BY <1>b, <2>5
        <5> QED
          BY <2>5, <4>2, <5>1, <5>2
      <4> QED
        <5>1. CASE n # active
          BY <3>1, <4>1, <5>1
        <5>2. CASE n = active /\ i # Len(contents[active]) + 1
          BY <3>1, <4>1, <5>2
        <5> QED
          BY <4>2, <5>1, <5>2
    <3>3. BagIsInOrder'
      BY <2>1, <3>2 DEF BagIsInOrder
    <3>4. ASSUME NEW i \in 1 .. Len(queue'), queue'[i].op = "Data"
          PROVE  \A g \in 1 .. Len(contents'[active]) :
                      contents'[active][g].id < queue'[i].msg.id
      <4>1. SUFFICES ASSUME NEW g \in 1 .. Len(contents'[active])
                     PROVE  contents'[active][g].id < queue'[i].msg.id
        OBVIOUS
      <4>2. CASE g \in 1 .. Len(contents[active])
        BY <2>6, <3>1, <3>4, <4>2
      <4>3. CASE g = Len(contents[active]) + 1
        BY <2>6, <3>1, <3>4, <4>3
      <4> QED
        BY <3>1, <4>2, <4>3
    <3>5. \A i \in 1 .. Len(queue') : queue'[i].op = "Data" =>
             /\ queue'[i].msg.id <= Limit'
             /\ \E j \in 1 .. Len(accepted[active]) : queue'[i].msg = accepted[active][j]
             /\ \A g \in 1 .. i - 1 : queue'[g].msg.id < queue'[i].msg.id
             /\ \A g \in 1 .. Len(contents'[active]) :
                    contents'[active][g].id < queue'[i].msg.id
      BY <2>6, <3>4
    <3>6. \A n \in Sessions : \A i \in 1 .. Len(contents'[n]) : contents'[n][i].id <= Limit'
      BY <3>2
    <3> QED
      BY <2>1, <3>3, <3>5, <3>6 DEF OrderInv
  <2> QED
    BY <2>4, <2>7, <2>8
<1> QED
  BY <1>1, <1>2, <1>3, <1>4, <1>5, <1>6, <1>7, <1>8, <1>9, <1>10, <1>11
     DEF Next, Runtime, Actor

----------------------------------------------------------------------------
(* The theorems.                                                           *)

RecorderInv ==
    TypeOK /\ ChannelInv /\ SessionInv /\ KnownInv /\ LostInv /\ OrderInv
    /\ NothingForgotten

LEMMA RecorderInvariant == Spec => []RecorderInv
<1>1. ASSUME Init PROVE RecorderInv
  <2>1. TypeOK /\ ChannelInv
    BY <1>1, InitTyped DEF Init, ChannelInv
  <2>2. SessionInv /\ KnownInv
    BY <1>1, <2>1 DEF Init, SessionInv, KnownInv, Waiting, Answered, None, StopEvent
  <2>3. LostInv
    BY <1>1 DEF Init, LostInv, LostReportExact, Waiting
  <2>4. OrderInv /\ NothingForgotten
    BY <1>1 DEF Init, OrderInv, BagIsInOrder, NothingForgotten
  <2> QED
    BY <2>1, <2>2, <2>3, <2>4 DEF RecorderInv
<1>2. ASSUME RecorderInv, [Next]_vars PROVE RecorderInv'
  <2>1. CASE Next
    <3>1. TypeOK' /\ ChannelInv'
      <4>1. CASE Done
        BY <1>2, <4>1 DEF Done, RecorderInv, TypeOK, ChannelInv, vars, rtVars, chanVars,
                          actorVars, diskVars, histVars
      <4> QED
        BY <1>2, <2>1, <4>1, RuntimeTyped, ActorTyped, ChannelStep DEF Next, RecorderInv
    <3> QED
      BY <1>2, <2>1, <3>1, SessionStep, KnownStep, LostStep, OrderStep, DeliveryStep
         DEF RecorderInv
  <2>2. CASE UNCHANGED vars
    <3> USE <1>2, <2>2 DEF RecorderInv, vars, rtVars, chanVars, actorVars, diskVars, histVars
    <3>1. TypeOK' /\ ChannelInv'
      BY DEF TypeOK, ChannelInv
    <3>2. SessionInv' /\ KnownInv'
      BY DEF SessionInv, KnownInv, Waiting, Answered
    <3>3. LostInv'
      BY DEF LostInv, LostReportExact, Waiting
    <3>4. OrderInv' /\ NothingForgotten'
      BY DEF OrderInv, BagIsInOrder, NothingForgotten, Limit, Waiting
    <3> QED
      BY <3>1, <3>2, <3>3, <3>4
  <2> QED
    BY <1>2, <2>1, <2>2
<1> QED
  BY <1>1, <1>2, PTL DEF Spec

\* Every message that try_record took is written, or its write was tried and
\* failed, or it waits in the channel of a bag that is still open; stop and
\* shutdown never overtake queued data.
THEOREM NoMessageForgotten == Spec => []NothingForgotten
BY RecorderInvariant, PTL DEF RecorderInv

\* A bag holds messages of its own session only, without duplicates and in
\* the order in which they were taken.
THEOREM BagsAreOrdered == Spec => []BagIsInOrder
BY RecorderInvariant, PTL DEF RecorderInv, OrderInv

\* The lost_messages of a stop response are those of the session it stops.
THEOREM LostReportsAreExact == Spec => []LostReportExact
BY RecorderInvariant, PTL DEF RecorderInv, LostInv

\* No queued message meets the wrong recorder or a channel that is missing in
\* its file.
THEOREM WriterAlwaysKnowsChannel == Spec => []WriterKnowsChannel
<1>1. RecorderInv => WriterKnowsChannel
  <2> SUFFICES ASSUME RecorderInv, NEW i \in 1 .. Len(queue), queue[i].op = "Data"
               PROVE  /\ active # None /\ active = session
                      /\ queue[i].msg.topic \in known
    BY DEF WriterKnowsChannel
  <2>1. active # None /\ queue[i].msg.topic \in known
    BY DEF RecorderInv, KnownInv
  <2>2. alive /\ reply = "none"
    BY DEF RecorderInv, ChannelInv
  <2> QED
    BY <2>1, <2>2 DEF RecorderInv, SessionInv, Answered
<1> QED
  BY <1>1, RecorderInvariant, PTL

\* A start request never finds the recorder of an earlier session active.
THEOREM StartIsNeverRefused == Spec => []StartNeverRefused
<1>1. RecorderInv => StartNeverRefused
  <2> SUFFICES ASSUME RecorderInv, NEW i \in 1 .. Len(queue), queue[i].op = "Start"
               PROVE  active = None
    BY DEF StartNeverRefused
  <2>1. queue[i] = cmd /\ pc \in {"await", "join"} /\ reply = "none"
    BY DEF RecorderInv, ChannelInv
  <2>2. pc = "await" /\ cmd.op = "Start"
    BY <2>1 DEF RecorderInv, ChannelInv
  <2> QED
    BY <2>1, <2>2 DEF RecorderInv, SessionInv, Answered, Waiting
<1> QED
  BY <1>1, RecorderInvariant, PTL

\* For every number of topics, sessions and messages: what try_record takes is
\* in its own bag, among the failed writes or still queued, and what a stop
\* reports as lost is exactly what found the channel full in its session.
THEOREM MessagesAreAccounted == Spec => []EveryMessageAccounted
BY BagsAreOrdered, NoMessageForgotten, LostReportsAreExact, PTL
   DEF EveryMessageAccounted

\* What the runtime queues always meets the recorder it was meant for.
THEOREM ActorStaysInStep == Spec => []ActorInStep
BY WriterAlwaysKnowsChannel, StartIsNeverRefused, PTL DEF ActorInStep

----------------------------------------------------------------------------
(* The bag of module Bag is implemented.                                   *)

\* At most one bag is open, and it is the actor's; a session that was not
\* requested has no file, nor has one whose request the actor has not seen.
FileInv ==
    /\ \A n \in Sessions : file[n] = "open" => active = n
    /\ \A n \in Sessions : file[n] # "none" => n <= started
    /\ Waiting("Start") /\ reply = "none" => file[started] = "none"

\* A queue in which no command has an event behind it.
CommandsLast(q) == \A i \in 1 .. Len(q) : ~IsData(q[i]) => i = Len(q)

\* How many of its events those are.
PendingLen(q) == IF q # <<>> /\ ~IsData(q[Len(q)]) THEN Len(q) - 1 ELSE Len(q)

\* In such a queue, all events but a trailing command are messages to write.
LEMMA PendingShape ==
    ASSUME NEW q \in Seq(Event), CommandsLast(q)
    PROVE  /\ PendingLen(q) \in 0 .. Len(q)
           /\ \A i \in 1 .. PendingLen(q) : IsData(q[i]) /\ q[i].msg \in Message
           /\ Pending(q) = [i \in 1 .. PendingLen(q) |-> q[i].msg]
           /\ Pending(q) \in Seq(Message)
           /\ Len(Pending(q)) = PendingLen(q)
<1>1. Len(q) \in Nat /\ (q # <<>> => Len(q) >= 1)
  BY EmptySeq, LenProperties
<1>2. PendingLen(q) \in 0 .. Len(q)
  BY <1>1 DEF PendingLen
<1>3. ASSUME NEW i \in 1 .. PendingLen(q) PROVE IsData(q[i]) /\ q[i].msg \in Message
  <2>1. i \in 1 .. Len(q) /\ q[i] \in Event
    BY <1>1, <1>2, ElementOfSeq
  <2>2. IsData(q[i])
    <3>1. CASE i = Len(q)
      BY <1>1, <1>3, <3>1 DEF PendingLen
    <3>2. CASE i # Len(q)
      BY <2>1, <3>2 DEF CommandsLast
    <3> QED
      BY <3>1, <3>2
  <2> QED
    BY <2>1, <2>2, EventKinds DEF IsData
<1>4. {i \in 1 .. Len(q) : \A j \in 1 .. i : IsData(q[j])} = 1 .. PendingLen(q)
  <2>1. ASSUME NEW i \in 1 .. Len(q), i \notin 1 .. PendingLen(q) PROVE ~IsData(q[i])
    BY <1>1, <2>1 DEF PendingLen
  <2> QED
    BY <1>1, <1>2, <1>3, <2>1
<1>5. Pending(q) = [i \in 1 .. PendingLen(q) |-> q[i].msg]
  BY <1>4 DEF Pending
<1>6. PendingLen(q) \in Nat
  BY <1>1, <1>2
<1> HIDE DEF PendingLen
<1>7. Pending(q) \in Seq(Message) /\ Len(Pending(q)) = PendingLen(q)
  BY <1>3, <1>5, <1>6
<1> QED
  BY <1>2, <1>3, <1>5, <1>7

\* What a concatenation holds, by the place of its elements.
LEMMA ConcatAt ==
    ASSUME NEW S, NEW s1 \in Seq(S), NEW s2 \in Seq(S)
    PROVE  /\ s1 \o s2 \in Seq(S) /\ Len(s1 \o s2) = Len(s1) + Len(s2)
           /\ \A i \in 1 .. Len(s1) : (s1 \o s2)[i] = s1[i]
           /\ \A i \in Len(s1) + 1 .. Len(s1) + Len(s2) : (s1 \o s2)[i] = s2[i - Len(s1)]
<1> DEFINE s == s1 \o s2
<1>1. /\ s \in Seq(S) /\ Len(s) = Len(s1) + Len(s2)
      /\ \A i \in 1 .. Len(s1) + Len(s2) : s[i] = IF i <= Len(s1) THEN s1[i] ELSE s2[i - Len(s1)]
  BY ConcatProperties
<1>2. Len(s1) \in Nat /\ Len(s2) \in Nat
  BY LenProperties
<1> HIDE DEF s
<1>3. (\A i \in 1 .. Len(s1) : s[i] = s1[i])
      /\ \A i \in Len(s1) + 1 .. Len(s1) + Len(s2) : s[i] = s2[i - Len(s1)]
  BY <1>1, <1>2
<1> QED
  BY <1>1, <1>3 DEF s

\* A command at the end adds nothing to write, a message adds itself.
LEMMA PendingAppend ==
    ASSUME NEW q \in Seq(Event), NEW e \in Event, \A i \in 1 .. Len(q) : IsData(q[i])
    PROVE  /\ ~IsData(e) => Pending(Append(q, e)) = Pending(q)
           /\ IsData(e) => Pending(Append(q, e)) = Append(Pending(q), e.msg)
<1> DEFINE p == Append(q, e)
<1>1. p \in Seq(Event) /\ Len(p) = Len(q) + 1 /\ p[Len(q) + 1] = e
      /\ (\A i \in 1 .. Len(q) : p[i] = q[i]) /\ Len(q) \in Nat /\ p # <<>>
  BY AppendProperties, LenProperties, EmptySeq
<1> HIDE DEF p
<1>2. CommandsLast(q) /\ PendingLen(q) = Len(q)
  BY <1>1 DEF CommandsLast, PendingLen
<1>3. CommandsLast(p) /\ PendingLen(p) = IF IsData(e) THEN Len(q) + 1 ELSE Len(q)
  BY <1>1 DEF CommandsLast, PendingLen
<1>4. Pending(q) = [i \in 1 .. Len(q) |-> q[i].msg] /\ Pending(q) \in Seq(Message)
      /\ Len(Pending(q)) = Len(q)
  BY <1>2, PendingShape
<1>5. Pending(p) = [i \in 1 .. PendingLen(p) |-> p[i].msg] /\ Pending(p) \in Seq(Message)
      /\ Len(Pending(p)) = PendingLen(p)
  BY <1>1, <1>3, PendingShape
<1>6. CASE IsData(e)
  <2> DEFINE r == Append(Pending(q), e.msg)
  <2>1. e.msg \in Message
    BY <1>6, EventKinds DEF IsData
  <2>2. r \in Seq(Message) /\ Len(r) = Len(q) + 1 /\ r[Len(q) + 1] = e.msg
        /\ \A i \in 1 .. Len(q) : r[i] = Pending(q)[i]
    BY <1>4, <2>1, AppendProperties
  <2>3. \A i \in 1 .. Len(q) + 1 : r[i] = Pending(p)[i]
    BY <1>1, <1>3, <1>4, <1>5, <1>6, <2>2
  <2>4. r = Pending(p)
    BY <1>1, <1>3, <1>5, <1>6, <2>2, <2>3, SeqEqual
  <2> QED
    BY <1>6, <2>4 DEF p
<1>7. CASE ~IsData(e)
  BY <1>1, <1>3, <1>4, <1>5, <1>7 DEF p
<1> QED
  BY <1>6, <1>7

\* A message at the head is the first of the messages to write.
LEMMA PendingHead ==
    ASSUME NEW q \in Seq(Event), CommandsLast(q), q # <<>>, IsData(Head(q))
    PROVE  /\ Tail(q) \in Seq(Event) /\ CommandsLast(Tail(q))
           /\ PendingLen(q) = PendingLen(Tail(q)) + 1
           /\ Pending(q)[1] = Head(q).msg
           /\ \A i \in 1 .. PendingLen(Tail(q)) : Pending(Tail(q))[i] = Pending(q)[i + 1]
<1> DEFINE p == Tail(q)
<1>1. p \in Seq(Event) /\ Len(p) = Len(q) - 1 /\ Head(q) = q[1]
      /\ (\A i \in 1 .. Len(p) : p[i] = q[i + 1]) /\ Len(q) \in Nat \ {0} /\ Len(p) \in Nat
      /\ (p # <<>> <=> Len(q) # 1)
  <2>1. Len(q) \in Nat \ {0} /\ Head(q) = q[1]
    BY EmptySeq, LenProperties
  <2>2. p \in Seq(Event) /\ Len(p) = Len(q) - 1 /\ \A i \in 1 .. Len(p) : p[i] = q[i + 1]
    BY HeadTailProperties
  <2> HIDE DEF p
  <2>3. p # <<>> <=> Len(p) # 0
    BY <2>2, EmptySeq
  <2> QED
    BY <2>1, <2>2, <2>3
<1> HIDE DEF p
<1>2. CommandsLast(p)
  <2> SUFFICES ASSUME NEW i \in 1 .. Len(p), ~IsData(p[i]) PROVE i = Len(p)
    BY DEF CommandsLast
  <2>1. i + 1 \in 1 .. Len(q) /\ ~IsData(q[i + 1])
    BY <1>1
  <2> QED
    BY <1>1, <2>1 DEF CommandsLast
<1>3. PendingLen(q) = PendingLen(p) + 1
  <2>1. CASE Len(q) = 1
    BY <1>1, <2>1 DEF PendingLen
  <2>2. CASE Len(q) # 1
    <3>1. p[Len(p)] = q[Len(q)]
      BY <1>1, <2>2
    <3> QED
      BY <1>1, <2>2, <3>1 DEF PendingLen
  <2> QED
    BY <2>1, <2>2
<1>4. /\ Pending(q) = [i \in 1 .. PendingLen(q) |-> q[i].msg]
      /\ Pending(p) = [i \in 1 .. PendingLen(p) |-> p[i].msg]
      /\ PendingLen(p) \in 0 .. Len(p)
  BY <1>1, <1>2, PendingShape
<1>5. \A i \in 1 .. PendingLen(p) : Pending(p)[i] = Pending(q)[i + 1]
  BY <1>1, <1>3, <1>4
<1>6. Pending(q)[1] = Head(q).msg
  BY <1>1, <1>3, <1>4
<1> QED
  BY <1>1, <1>2, <1>3, <1>5, <1>6 DEF p

\* A command at the head leaves nothing to write.
LEMMA PendingNone ==
    ASSUME NEW q \in Seq(Event), q = <<>> \/ ~IsData(Head(q))
    PROVE  Pending(q) = <<>>
<1>1. Len(q) \in Nat /\ (q # <<>> => Head(q) = q[1] /\ Len(q) >= 1)
  BY HeadTailProperties, LenProperties, EmptySeq
<1>2. {i \in 1 .. Len(q) : \A j \in 1 .. i : IsData(q[j])} = 1 .. 0
  <2> SUFFICES ASSUME NEW i \in 1 .. Len(q), \A j \in 1 .. i : IsData(q[j]) PROVE FALSE
    OBVIOUS
  <2>1. 1 \in 1 .. i /\ q # <<>>
    BY <1>1
  <2> QED
    BY <1>1, <2>1
<1>3. Pending(q) = [i \in 1 .. 0 |-> q[i].msg]
  BY <1>2 DEF Pending
<1> QED
  BY <1>3

\* Moving the first message to write into the file leaves the bag as it is;
\* losing it takes it out of the bag.
LEMMA BagOfHead ==
    ASSUME NEW q \in Seq(Event), CommandsLast(q), q # <<>>, IsData(Head(q)),
           NEW c \in Seq(Message)
    PROVE  /\ Append(c, Head(q).msg) \o Pending(Tail(q)) = c \o Pending(q)
           /\ Len(c) + 1 \in DOMAIN (c \o Pending(q))
           /\ c \o Pending(Tail(q)) =
                SubSeq(c \o Pending(q), 1, Len(c))
                  \o SubSeq(c \o Pending(q), Len(c) + 2, Len(c \o Pending(q)))
<1> DEFINE h == Head(q).msg
           a == Pending(q)
           b == Pending(Tail(q))
           n == Len(c)
           k == PendingLen(Tail(q))
<1>1. /\ a \in Seq(Message) /\ b \in Seq(Message) /\ n \in Nat /\ k \in Nat
      /\ Len(a) = k + 1 /\ Len(b) = k
      /\ a[1] = h /\ h \in Message
      /\ \A i \in 1 .. k : b[i] = a[i + 1]
  <2>1. Tail(q) \in Seq(Event) /\ CommandsLast(Tail(q))
        /\ PendingLen(q) = k + 1 /\ a[1] = h /\ \A i \in 1 .. k : b[i] = a[i + 1]
    BY PendingHead
  <2>2. a \in Seq(Message) /\ Len(a) = PendingLen(q)
    BY PendingShape
  <2>3. b \in Seq(Message) /\ Len(b) = k /\ k \in Nat
    <3>1. k \in 0 .. Len(Tail(q)) /\ b \in Seq(Message) /\ Len(b) = k
      BY <2>1, PendingShape
    <3> QED
      BY <2>1, <3>1, LenProperties
  <2>4. h \in Message
    BY <2>1, <2>2, <2>3, ElementOfSeq
  <2> QED
    BY <2>1, <2>2, <2>3, <2>4, LenProperties
<1> HIDE DEF h, a, b, n, k
<1>2. /\ c \o a \in Seq(Message) /\ Len(c \o a) = n + k + 1
      /\ \A i \in 1 .. n : (c \o a)[i] = c[i]
      /\ \A i \in n + 1 .. n + k + 1 : (c \o a)[i] = a[i - n]
  <2>1. /\ c \o a \in Seq(Message) /\ Len(c \o a) = n + Len(a)
        /\ \A i \in 1 .. n : (c \o a)[i] = c[i]
        /\ \A i \in n + 1 .. n + Len(a) : (c \o a)[i] = a[i - n]
    BY <1>1, ConcatAt DEF n
  <2> QED
    BY <1>1, <2>1
<1>3. /\ c \o b \in Seq(Message) /\ Len(c \o b) = n + k
      /\ \A i \in 1 .. n : (c \o b)[i] = c[i]
      /\ \A i \in n + 1 .. n + k : (c \o b)[i] = b[i - n]
  <2>1. /\ c \o b \in Seq(Message) /\ Len(c \o b) = n + Len(b)
        /\ \A i \in 1 .. n : (c \o b)[i] = c[i]
        /\ \A i \in n + 1 .. n + Len(b) : (c \o b)[i] = b[i - n]
    BY <1>1, ConcatAt DEF n
  <2> QED
    BY <1>1, <2>1
<1>4. /\ Append(c, h) \in Seq(Message) /\ Len(Append(c, h)) = n + 1
      /\ Append(c, h)[n + 1] = h
      /\ \A i \in 1 .. n : Append(c, h)[i] = c[i]
  BY <1>1, AppendProperties DEF n
<1>5. Append(c, h) \o b = c \o a
  <2> DEFINE d == Append(c, h)
  <2>1. /\ d \o b \in Seq(Message) /\ Len(d \o b) = n + 1 + k
        /\ \A i \in 1 .. n + 1 : (d \o b)[i] = d[i]
        /\ \A i \in n + 2 .. n + 1 + k : (d \o b)[i] = b[i - (n + 1)]
    <3>1. d \in Seq(Message) /\ b \in Seq(Message) /\ Len(d) = n + 1 /\ Len(b) = k
      BY <1>1, <1>4
    <3> HIDE DEF d
    <3>2. /\ d \o b \in Seq(Message) /\ Len(d \o b) = Len(d) + Len(b)
          /\ \A i \in 1 .. Len(d) : (d \o b)[i] = d[i]
          /\ \A i \in Len(d) + 1 .. Len(d) + Len(b) : (d \o b)[i] = b[i - Len(d)]
      BY <3>1, ConcatAt
    <3>3. n + 1 + 1 = n + 2
      BY <1>1
    <3> QED
      BY <3>1, <3>2, <3>3
  <2>2. ASSUME NEW i \in 1 .. n + k + 1 PROVE (d \o b)[i] = (c \o a)[i]
    <3>1. CASE i \in 1 .. n
      BY <1>1, <1>2, <1>4, <2>1, <3>1
    <3>2. CASE i = n + 1
      BY <1>1, <1>2, <1>4, <2>1, <3>2
    <3>3. CASE i \in n + 2 .. n + k + 1
      <4> HIDE DEF d
      <4>0. i \in n + 1 .. n + k + 1 /\ i \in n + 2 .. n + 1 + k
        BY <1>1, <3>3
      <4>a. (d \o b)[i] = b[i - (n + 1)]
        BY <2>1, <4>0
      <4>b. (c \o a)[i] = a[i - n]
        BY <1>2, <4>0
      <4>1. (d \o b)[i] = b[i - (n + 1)] /\ (c \o a)[i] = a[i - n]
        BY <4>a, <4>b
      <4>2. i - (n + 1) \in 1 .. k /\ (i - (n + 1)) + 1 = i - n /\ i \in n + 2 .. n + 1 + k
        BY <1>1, <3>3
      <4> QED
        BY <1>1, <4>1, <4>2
    <3>4. i \in 1 .. n \/ i = n + 1 \/ i \in n + 2 .. n + k + 1
      BY <1>1
    <3> QED
      BY <3>1, <3>2, <3>3, <3>4
  <2>3. n + 1 + k = n + k + 1
    BY <1>1
  <2> HIDE DEF d
  <2>4. /\ d \o b \in Seq(Message) /\ c \o a \in Seq(Message) /\ Len(d \o b) = Len(c \o a)
        /\ \A i \in 1 .. Len(d \o b) : (d \o b)[i] = (c \o a)[i]
    BY <1>2, <2>1, <2>2, <2>3
  <2>5. d \o b = c \o a
    BY <2>4, SeqEqual
  <2> QED
    BY <2>5 DEF d
<1>6. n + 1 \in DOMAIN (c \o a)
  BY <1>1, <1>2, LenProperties
<1>7. c \o b = SubSeq(c \o a, 1, n) \o SubSeq(c \o a, n + 2, Len(c \o a))
  <2> DEFINE s == SubSeq(c \o a, 1, n)
             t == SubSeq(c \o a, n + 2, n + k + 1)
  <2>1. s \in Seq(Message) /\ Len(s) = n /\ \A i \in 1 .. n : s[i] = c[i]
    <3>1. \A i \in 1 .. n : i \in 1 .. Len(c \o a) /\ (c \o a)[i] \in Message
      BY <1>1, <1>2, ElementOfSeq
    <3>2. s = [i \in 1 .. n |-> (c \o a)[i]]
      BY <1>1, <1>2
    <3> QED
      BY <1>1, <1>2, <3>1, <3>2
  <2>2. t \in Seq(Message) /\ Len(t) = k /\ \A i \in 1 .. k : t[i] = b[i]
    <3>1. \A i \in 1 .. k : /\ i + n + 1 \in 1 .. Len(c \o a) /\ (c \o a)[i + n + 1] \in Message
                            /\ (c \o a)[i + n + 1] = a[i + 1]
      BY <1>1, <1>2, ElementOfSeq
    <3> DEFINE ca == c \o a
    <3>2. /\ n + 2 \in Int /\ n + k + 1 \in Int
          /\ \A i \in n + 2 .. n + k + 1 : ca[i] \in Message
      BY <1>1, <1>2, ElementOfSeq
    <3> HIDE DEF ca
    <3> DEFINE u == SubSeq(ca, n + 2, n + k + 1)
    <3>3. /\ u \in Seq(Message)
          /\ Len(u) = IF n + 2 <= n + k + 1 THEN (n + k + 1) - (n + 2) + 1 ELSE 0
          /\ \A i \in 1 .. (n + k + 1) - (n + 2) + 1 : u[i] = ca[(n + 2) + i - 1]
      BY <3>2, SubSeqProperties
    <3>4. t = u
      BY DEF ca
    <3> HIDE DEF t, u
    <3>5. ASSUME NEW i \in 1 .. k PROVE t[i] = b[i]
      <4>1. i \in 1 .. (n + k + 1) - (n + 2) + 1 /\ (n + 2) + i - 1 = i + n + 1
        BY <1>1
      <4> QED
        BY <1>1, <3>1, <3>3, <3>4, <4>1 DEF ca
    <3>6. Len(t) = k
      BY <1>1, <3>3, <3>4
    <3> QED
      BY <3>3, <3>4, <3>5, <3>6
  <2> HIDE DEF s, t
  <2>3. /\ s \o t \in Seq(Message) /\ Len(s \o t) = n + k
        /\ \A i \in 1 .. n : (s \o t)[i] = s[i]
        /\ \A i \in n + 1 .. n + k : (s \o t)[i] = t[i - n]
    <3>1. /\ s \o t \in Seq(Message) /\ Len(s \o t) = Len(s) + Len(t)
          /\ \A i \in 1 .. Len(s) : (s \o t)[i] = s[i]
          /\ \A i \in Len(s) + 1 .. Len(s) + Len(t) : (s \o t)[i] = t[i - Len(s)]
      <4>1. s \in Seq(Message) /\ t \in Seq(Message)
        BY <2>1, <2>2
      <4> QED
        BY <4>1, ConcatAt
    <3> QED
      BY <2>1, <2>2, <3>1
  <2>4. \A i \in 1 .. n + k : (s \o t)[i] = (c \o b)[i]
    <3> SUFFICES ASSUME NEW i \in 1 .. n + k PROVE (s \o t)[i] = (c \o b)[i]
      OBVIOUS
    <3>1. CASE i \in 1 .. n
      BY <1>3, <2>1, <2>3, <3>1
    <3>2. CASE i \in n + 1 .. n + k
      <4>1. i - n \in 1 .. k
        BY <1>1, <3>2
      <4> QED
        BY <1>3, <2>2, <2>3, <3>2, <4>1
    <3>3. i \in 1 .. n \/ i \in n + 1 .. n + k
      BY <1>1
    <3> QED
      BY <3>1, <3>2, <3>3
  <2>5. s \o t = c \o b
    BY <1>1, <1>3, <2>3, <2>4, SeqEqual
  <2> QED
    BY <1>1, <1>2, <2>5 DEF s, t
<1> QED
  BY <1>5, <1>6, <1>7 DEF h, a, b, n

\* The files stay in step with the actor and with the session numbers.
LEMMA FileStep ==
    ASSUME TypeOK, ChannelInv, SessionInv, FileInv, Next PROVE FileInv'
<1>a. started \in Nat /\ MaxSessions \in Nat /\ file \in [Sessions -> {"none", "open", "finished", "failed"}]
      /\ active \in Sessions \cup {None}
  BY RecorderAssumptions DEF TypeOK
<1>1. ASSUME NEW p \in BOOLEAN, BagRecord(p) PROVE FileInv'
  <2>1. started' = started + 1 /\ cmd' = StartEvent(started + 1) /\ pc' = "send"
        /\ UNCHANGED <<file, active, reply>> /\ started + 1 \in Sessions
    BY <1>1, <1>a DEF BagRecord, Issue, actorVars, diskVars, chanVars, Sessions
  <2>2. file[started + 1] = "none"
    BY <1>a, <2>1 DEF FileInv, Sessions
  <2> QED
    BY <1>a, <2>1, <2>2 DEF FileInv, Sessions
<1>2. CASE UNCHANGED <<file, active, started, reply, pc, cmd>>
  BY <1>2 DEF FileInv, Waiting
<1>3. CASE UNCHANGED <<file, active, started>> /\ ~Waiting("Start")'
  BY <1>3 DEF FileInv
<1>4. CASE Send
  BY <1>4 DEF Send, FileInv, Waiting, chanVars, actorVars, diskVars, histVars
<1>5. ASSUME NEW k \in Keys, RecordPayload(k) PROVE FileInv'
  BY <1>5 DEF RecordPayload, FileInv, Waiting, actorVars, diskVars
<1>6. ASSUME NEW k \in Keys, NeedChannel(k) PROVE FileInv'
  BY <1>3, <1>6 DEF NeedChannel, Issue, EnsureEvent, Waiting, actorVars, diskVars
<1>7. CASE StartReply \/ EnsureReply \/ StopReply
  BY <1>3, <1>7 DEF StartReply, EnsureReply, StopReply, Waiting, actorVars, diskVars, histVars
<1>8. CASE BagStop \/ CtrlC \/ RuntimeError \/ DropHandle \/ Join
  BY <1>3, <1>8 DEF BagStop, CtrlC, RuntimeError, DropHandle, Join, Issue, StopEvent,
     ShutdownEvent, Waiting, chanVars, actorVars, diskVars, histVars
<1>9. CASE ActorData \/ Done \/ \E p \in BOOLEAN : SetPaused(p)
  BY <1>2, <1>9 DEF ActorData, Done, SetPaused, vars, rtVars, actorVars, diskVars, chanVars, histVars
<1>10. CASE ActorEnsure
  <2>1. Head(queue) = cmd /\ Head(queue).op = "EnsureChannel"
    BY <1>10, CommandIsLast DEF ActorEnsure, Receive
  <2> QED
    BY <1>3, <1>10, <2>1 DEF ActorEnsure, Waiting, rtVars, diskVars, histVars
<1>11. CASE ActorStart
  <2>1. Head(queue) = cmd /\ Head(queue).op = "Start" /\ Waiting("Start")
    BY <1>11, CommandIsLast DEF ActorStart, Receive, ChannelInv, Waiting
  <2>2. cmd.session = started /\ started \in Sessions
    BY <1>11, <2>1, EventKinds DEF SessionInv, TypeOK
  <2>3. reply' # "none" /\ UNCHANGED started
    BY <1>11 DEF ActorStart, histVars
  <2>4. \/ active = None /\ active' = started /\ file' = [file EXCEPT ![started] = "open"]
        \/ active = None /\ active' = active /\ file' = [file EXCEPT ![started] = "failed"]
        \/ UNCHANGED <<active, file>>
    BY <1>11, <2>1, <2>2 DEF ActorStart
  <2>5. \A n \in Sessions : file'[n] = "open" => active' = n
    BY <1>a, <2>2, <2>4 DEF FileInv, Sessions, None
  <2>6. \A n \in Sessions : file'[n] # "none" => n <= started
    BY <1>a, <2>2, <2>4 DEF FileInv, Sessions
  <2> QED
    BY <2>3, <2>5, <2>6 DEF FileInv
<1>12. CASE ActorStop \/ ActorShutdown
  <2>1. Head(queue) = cmd /\ cmd.op \in {"Stop", "Shutdown"}
    BY <1>12, CommandIsLast DEF ActorStop, ActorShutdown, Receive
  <2>2. ~Waiting("Start")' /\ active' = None /\ UNCHANGED started
    BY <1>12, <2>1 DEF ActorStop, ActorShutdown, Waiting, rtVars, histVars
  <2>3. \E s \in {"finished", "failed"} :
            file' = IF active = None THEN file ELSE [file EXCEPT ![active] = s]
    BY <1>12 DEF ActorStop, ActorShutdown, Finish
  <2>4. active # None => file[active] = "open" /\ active \in Sessions
    BY <1>a DEF SessionInv
  <2>5. \A n \in Sessions : file'[n] # "open"
    BY <1>a, <2>3, <2>4 DEF FileInv, Sessions, None
  <2>6. \A n \in Sessions : file'[n] # "none" => n <= started
    BY <1>a, <2>3, <2>4 DEF FileInv
  <2> QED
    BY <2>2, <2>5, <2>6 DEF FileInv
<1> QED
  BY <1>1, <1>4, <1>5, <1>6, <1>7, <1>8, <1>9, <1>10, <1>11, <1>12 DEF Next, Runtime, Actor

\* Every step of the session, the channel and the actor is a step of the bag
\* or leaves the bag as it is.
LEMMA BagStep ==
    ASSUME TypeOK, TypeOK', ChannelInv, ChannelInv', SessionInv, FileInv, Next
    PROVE  B!BagNext \/ UNCHANGED B!bagVars

<1>a. /\ queue \in Seq(Event) /\ contents \in [Sessions -> Seq(Message)]
      /\ active \in Sessions \cup {None}
      /\ CommandsLast(queue)
  BY DEF TypeOK, ChannelInv, CommandsLast, IsData
<1>b. Pending(queue) \in Seq(Message)
  BY <1>a, PendingShape
<1>c. active # None => file[active] = "open" /\ active \in Sessions
  BY <1>a DEF SessionInv
<1> DEFINE log(n) == contents[n] \o (IF active = n THEN Pending(queue) ELSE <<>>)
<1>d. /\ bagLog = [n \in Sessions |-> log(n)]
      /\ \A n \in Sessions : log(n) \in Seq(Message)
  BY <1>a, <1>b, ConcatProperties, EmptySeq DEF bagLog
<1>e. \A n \in Sessions : active # n \/ Pending(queue) = <<>> => log(n) = contents[n]
  BY <1>a, ConcatEmptySeq
<1>1. CASE UNCHANGED <<file, contents, active, queue>>
  BY <1>1 DEF B!bagVars, bagLog
<1>2. ASSUME NEW t \in Topics, NEW id \in Ids, TryRecord(t, id) \/ BadTimestamp,
             UNCHANGED <<file, contents, active>>, session = active, session \in Sessions,
             \A i \in 1 .. Len(queue) : queue[i].op = "Data"
      PROVE  B!BagNext \/ UNCHANGED B!bagVars
  <2>1. CASE UNCHANGED queue
    BY <1>1, <1>2, <2>1
  <2>2. CASE \E m \in Message : queue' = Append(queue, DataEvent(m))
    <3>1. PICK m \in Message : queue' = Append(queue, DataEvent(m))
      BY <2>2
    <3>2. Pending(queue)' = Append(Pending(queue), m)
      <4>1. DataEvent(m) \in Event /\ IsData(DataEvent(m)) /\ DataEvent(m).msg = m
        BY <3>1, EventsTyped DEF IsData, DataEvent
      <4>2. Pending(Append(queue, DataEvent(m))) = Append(Pending(queue), m)
        BY <1>2, <1>a, <4>1, PendingAppend DEF IsData
      <4> QED
        BY <3>1, <4>2
    <3>3. contents[active] \o Append(Pending(queue), m)
              = Append(contents[active] \o Pending(queue), m)
      BY <1>2, <1>a, <1>b, <3>1
    <3>4. bagLog' = [bagLog EXCEPT ![active] = Append(bagLog[active], m)]
      BY <1>2, <3>2, <3>3 DEF bagLog
    <3>5. B!AppendToBag(active, m)
      BY <1>2, <1>c, <3>4 DEF B!AppendToBag, None, Sessions
    <3> QED
      BY <1>2, <3>1, <3>5 DEF B!BagNext
  <2> QED
    BY <1>2, <2>1, <2>2, TryRecordEffect DEF BadTimestamp
<1>3. ASSUME NEW k \in Keys, RecordPayload(k) PROVE B!BagNext \/ UNCHANGED B!bagVars
  <2>1. TopicOf[k] \in Topics /\ offered + 1 \in Ids /\ session \in Sessions
    BY <1>3, RecorderAssumptions DEF RecordPayload, TypeOK, Ids
  <2>2. active = session /\ \A i \in 1 .. Len(queue) : queue[i].op = "Data"
    BY <1>3 DEF RecordPayload, SessionInv, ChannelInv, Answered
  <2> QED
    BY <1>2, <1>3, <2>1, <2>2 DEF RecordPayload, actorVars, diskVars
<1>4. ASSUME EnsureReply PROVE B!BagNext \/ UNCHANGED B!bagVars
  <2>1. TopicOf[cmd.key] \in Topics /\ offered \in Ids
    BY <1>4, EventKinds, RecorderAssumptions DEF EnsureReply, Answered, TypeOK, Ids
  <2>2. active = session /\ session \in Sessions
    BY <1>4, <1>a DEF EnsureReply, Answered, SessionInv, ChannelInv, Waiting, TypeOK
  <2>3. \A i \in 1 .. Len(queue) : queue[i].op = "Data"
    BY <1>4 DEF EnsureReply, Answered, ChannelInv
  <2>4. CASE reply = "ok"
    BY <1>2, <1>4, <2>1, <2>2, <2>3, <2>4 DEF EnsureReply, actorVars, diskVars
  <2>5. CASE reply # "ok"
    BY <1>1, <1>4, <2>5 DEF EnsureReply, actorVars, diskVars
  <2> QED
    BY <2>4, <2>5
<1>5. CASE Send
  <2>1. queue' = Append(queue, cmd) /\ UNCHANGED <<file, contents, active>>
        /\ cmd \in Event /\ ~IsData(cmd) /\ \A i \in 1 .. Len(queue) : IsData(queue[i])
    BY <1>5 DEF Send, TypeOK, ChannelInv, Commands, IsData, actorVars, diskVars
  <2>2. Pending(queue)' = Pending(queue)
    BY <1>a, <2>1, PendingAppend
  <2> QED
    BY <2>1, <2>2 DEF bagLog, B!bagVars
<1>6. CASE \/ \E p \in BOOLEAN : BagRecord(p) \/ SetPaused(p)
           \/ \E k \in Keys : NeedChannel(k)
           \/ StartReply \/ BagStop \/ StopReply \/ CtrlC \/ RuntimeError \/ DropHandle
           \/ Join \/ Done
  BY <1>1, <1>6 DEF BagRecord, SetPaused, NeedChannel, StartReply, BagStop, StopReply, CtrlC,
     RuntimeError, DropHandle, Join, Done, vars, chanVars, actorVars, diskVars, histVars
\* The actor takes a message from the channel: written, or lost.
<1>7. CASE ActorData
  <2>1. queue # <<>> /\ IsData(Head(queue)) /\ queue' = Tail(queue)
        /\ UNCHANGED <<file, active>>
    BY <1>7 DEF ActorData, Receive, IsData, actorVars
  <2>2. \/ /\ active # None
           /\ contents' = [contents EXCEPT ![active] = Append(contents[active], Head(queue).msg)]
        \/ UNCHANGED contents
    BY <1>7 DEF ActorData
  <2>3. CASE active = None
    <3>1. \A n \in Sessions : active # n
      BY <2>3 DEF Sessions, None
    <3>2. UNCHANGED contents
      BY <1>7, <2>3 DEF ActorData
    <3> QED
      BY <2>1, <3>1, <3>2 DEF bagLog, B!bagVars
  <2>4. CASE active # None
    <3> DEFINE c == contents[active]
    <3>1. c \in Seq(Message) /\ active \in Sessions
      BY <1>a, <1>c, <2>4
    <3>2. /\ Append(c, Head(queue).msg) \o Pending(Tail(queue)) = c \o Pending(queue)
          /\ Len(c) + 1 \in DOMAIN (c \o Pending(queue))
          /\ c \o Pending(Tail(queue)) =
               SubSeq(c \o Pending(queue), 1, Len(c))
                 \o SubSeq(c \o Pending(queue), Len(c) + 2, Len(c \o Pending(queue)))
      <4> HIDE DEF c
      <4> QED
        BY <1>a, <2>1, <3>1, BagOfHead
    <3>3. bagLog[active] = c \o Pending(queue)
          /\ \A n \in Sessions \ {active} : bagLog[n] = contents[n] \o <<>>
      BY <3>1 DEF bagLog
    <3>4. CASE contents' = [contents EXCEPT ![active] = Append(contents[active], Head(queue).msg)]
      <4>1. bagLog' = bagLog
        BY <1>a, <2>1, <3>1, <3>2, <3>4 DEF bagLog
      <4> QED
        BY <2>1, <4>1 DEF B!bagVars
    <3>5. CASE UNCHANGED contents
      <4>1. bagLog' = [bagLog EXCEPT ![active] = c \o Pending(Tail(queue))]
        BY <1>a, <2>1, <3>1, <3>5 DEF bagLog
      <4>2. Len(c) \in Nat /\ (Len(c) + 1) - 1 = Len(c) /\ (Len(c) + 1) + 1 = Len(c) + 2
        BY <3>1, LenProperties
      <4>3. B!LoseFromBag(active, Len(c) + 1)
        BY <1>c, <2>1, <2>4, <3>2, <3>3, <4>1, <4>2 DEF B!LoseFromBag
      <4> QED
        BY <3>1, <3>2, <3>3, <4>3 DEF B!BagNext
    <3> QED
      BY <2>2, <3>4, <3>5
  <2> QED
    BY <2>3, <2>4
\* A command at the head of the channel: nothing is pending before or after.
<1>f. ASSUME queue # <<>>, ~IsData(Head(queue)), queue' = <<>>, UNCHANGED contents
      PROVE  UNCHANGED bagLog
  <2>1. Pending(queue) = <<>> /\ Pending(queue)' = <<>>
    <3>1. Pending(queue) = <<>> /\ Pending(<<>>) = <<>>
      BY <1>a, <1>f, PendingNone, EmptySeq
    <3> QED
      BY <1>f, <3>1
  <2> QED
    BY <1>a, <1>f, <2>1 DEF bagLog
<1>8. CASE ActorEnsure
  <2>1. queue # <<>> /\ ~IsData(Head(queue)) /\ queue' = <<>> /\ UNCHANGED <<contents, file>>
    BY <1>8, CommandIsLast DEF ActorEnsure, Receive, IsData, diskVars
  <2> QED
    BY <1>f, <2>1 DEF B!bagVars
<1>9. CASE ActorStart
  <2>1. queue # <<>> /\ ~IsData(Head(queue)) /\ queue' = <<>> /\ UNCHANGED contents
        /\ Head(queue) = cmd /\ Waiting("Start") /\ reply = "none"
    BY <1>9, CommandIsLast DEF ActorStart, Receive, IsData, Waiting, ChannelInv
  <2>2. cmd.session = started /\ started \in Sessions /\ file[started] = "none"
    BY <2>1, EventKinds DEF SessionInv, FileInv, TypeOK, Waiting
  <2>3. CASE active # None
    BY <1>9, <1>f, <2>1, <2>3 DEF ActorStart, B!bagVars
  <2>4. CASE active = None
    <3>1. \E s \in {"open", "failed"} : file' = [file EXCEPT ![started] = s]
      BY <1>9, <2>1, <2>2, <2>4 DEF ActorStart
    <3>2. \A n \in Sessions : file[n] # "open"
      BY <2>4 DEF FileInv, Sessions, None
    <3>3. B!OpenBag(started)
      BY <1>f, <2>1, <2>2, <3>1, <3>2 DEF B!OpenBag
    <3> QED
      BY <2>2, <3>3 DEF B!BagNext
  <2> QED
    BY <2>3, <2>4
<1>10. CASE ActorStop \/ ActorShutdown
  <2>1. queue # <<>> /\ ~IsData(Head(queue)) /\ queue' = <<>> /\ UNCHANGED contents
    BY <1>10, CommandIsLast, ShutdownWritesNothing
       DEF ActorStop, ActorShutdown, Receive, IsData
  <2>2. \E s \in {"finished", "failed"} :
            file' = IF active = None THEN file ELSE [file EXCEPT ![active] = s]
    BY <1>10 DEF ActorStop, ActorShutdown, Finish
  <2>3. CASE active = None
    BY <1>f, <2>1, <2>2, <2>3 DEF B!bagVars
  <2>4. CASE active # None
    <3>1. B!CloseBag(active)
      BY <1>c, <1>f, <2>1, <2>2, <2>4 DEF B!CloseBag
    <3> QED
      BY <1>c, <2>4, <3>1 DEF B!BagNext
  <2> QED
    BY <2>3, <2>4
<1> QED
  BY <1>3, <1>4, <1>5, <1>6, <1>7, <1>8, <1>9, <1>10 DEF Next, Runtime, Actor

----------------------------------------------------------------------------
(* Sequence numbers.                                                       *)

\* A count as the u32 that carries it.
Saturated(k) == IF k < MaxSequence THEN k ELSE MaxSequence

\* The messages of a topic among those a session took.
Taken(a, t) == {j \in 1 .. Len(a) : a[j].topic = t}

\* SequencesContiguous for one session.
Contiguous(a) ==
    \A i \in DOMAIN a :
        a[i].seq = Saturated(Cardinality({j \in 1 .. i - 1 : a[j].topic = a[i].topic}))

\* The property, session by session.
LEMMA ContiguousSessions == SequencesContiguous <=> \A n \in Sessions : Contiguous(accepted[n])
BY DEF SequencesContiguous, Contiguous, Saturated

\* The next sequence number of a topic counts what the session took for it; a
\* session that has not begun has taken nothing.
SeqInv ==
    /\ session # None =>
           \A t \in Topics : sequences[t] = Saturated(Cardinality(Taken(accepted[session], t)))
    /\ \A n \in Sessions : n > started => accepted[n] = <<>>
    /\ Waiting("Start") => accepted[started] = <<>>
    /\ SequencesContiguous

\* A message adds one to the count of its topic and to no other, and with that
\* count as its number the numbers stay without gaps.
LEMMA TakenAppend ==
    ASSUME NEW a \in Seq(Message), NEW m \in Message
    PROVE  /\ \A t \in Topics : Cardinality(Taken(a, t)) \in Nat
           /\ Cardinality(Taken(Append(a, m), m.topic)) = Cardinality(Taken(a, m.topic)) + 1
           /\ \A t \in Topics \ {m.topic} : Taken(Append(a, m), t) = Taken(a, t)
           /\ Contiguous(a) /\ m.seq = Saturated(Cardinality(Taken(a, m.topic)))
                  => Contiguous(Append(a, m))
<1> DEFINE L == Len(a)
           b == Append(a, m)
<1>1. /\ L \in Nat /\ DOMAIN a = 1 .. L
      /\ b \in Seq(Message) /\ Len(b) = L + 1 /\ DOMAIN b = 1 .. L + 1 /\ b[L + 1] = m
      /\ \A j \in 1 .. L : b[j] = a[j]
  BY AppendProperties, LenProperties
<1> HIDE DEF b
<1>2. ASSUME NEW t \in Topics
      PROVE  IsFiniteSet(Taken(a, t)) /\ Cardinality(Taken(a, t)) \in Nat
  <2>1. IsFiniteSet(1 .. L)
    BY <1>1, FS_Interval
  <2>2. Taken(a, t) \subseteq 1 .. L
    BY DEF Taken
  <2> QED
    BY <2>1, <2>2, FS_Subset, FS_CardinalityType
<1>3. m.topic \in Topics
  BY DEF Message
<1>4. ASSUME NEW t \in Topics
      PROVE  Taken(b, t) = IF m.topic = t THEN Taken(a, t) \cup {L + 1} ELSE Taken(a, t)
  BY <1>1 DEF Taken
<1>5. L + 1 \notin Taken(a, m.topic)
  BY <1>1 DEF Taken
<1>6. Cardinality(Taken(b, m.topic)) = Cardinality(Taken(a, m.topic)) + 1
  BY <1>2, <1>3, <1>4, <1>5, FS_AddElement
<1>7. ASSUME Contiguous(a), m.seq = Saturated(Cardinality(Taken(a, m.topic))),
             NEW i \in DOMAIN b
      PROVE  b[i].seq = Saturated(Cardinality({j \in 1 .. i - 1 : b[j].topic = b[i].topic}))
  <2>1. CASE i \in 1 .. L
    <3>1. \A j \in 1 .. i : b[j] = a[j]
      BY <1>1, <2>1
    <3>2. {j \in 1 .. i - 1 : b[j].topic = b[i].topic}
            = {j \in 1 .. i - 1 : a[j].topic = a[i].topic}
      BY <1>1, <2>1, <3>1
    <3>3. b[i] = a[i]
      BY <1>1, <2>1
    <3> QED
      BY <1>1, <1>7, <2>1, <3>2, <3>3 DEF Contiguous
  <2>2. CASE i = L + 1
    <3>1. {j \in 1 .. i - 1 : b[j].topic = b[i].topic} = Taken(a, m.topic)
      BY <1>1, <2>2 DEF Taken
    <3> QED
      BY <1>1, <1>7, <2>2, <3>1
  <2>3. i \in 1 .. L \/ i = L + 1
    BY <1>1
  <2> QED
    BY <2>1, <2>2, <2>3
<1> QED
  BY <1>2, <1>4, <1>6, <1>7 DEF b, Contiguous

\* Every step keeps the counts of the sequence numbers.
LEMMA SequenceStep ==
    ASSUME TypeOK, TypeOK', ChannelInv, SessionInv, SeqInv, Next PROVE SeqInv'
<1>a. started \in Nat /\ MaxSessions \in Nat /\ session \in Sessions \cup {None}
  BY RecorderAssumptions DEF TypeOK
<1>1. CASE UNCHANGED <<session, sequences, started, accepted>> /\ (Waiting("Start")' => Waiting("Start"))
  BY <1>1 DEF SeqInv, SequencesContiguous, Taken
<1>2. ASSUME NEW t \in Topics, NEW id \in Ids, TryRecord(t, id) \/ BadTimestamp,
             session \in Sessions, UNCHANGED <<session, started>>, ~Waiting("Start")'
      PROVE  SeqInv'
  <2>1. CASE Len(queue) < Capacity /\ TryRecord(t, id)
    <3> DEFINE m == [topic |-> t, seq |-> sequences[t], id |-> id]
               a == accepted[session]
    <3>1. /\ m \in Message /\ m.topic = t /\ m.seq = sequences[t] /\ a \in Seq(Message)
          /\ sequences' = [sequences EXCEPT ![t] = SaturatingAdd(sequences[t])]
          /\ accepted' = [accepted EXCEPT ![session] = Append(a, m)]
      BY <1>2, <2>1 DEF TryRecord, TypeOK, Message
    <3> HIDE DEF m
    <3>2. \A u \in Topics : sequences[u] = Saturated(Cardinality(Taken(a, u)))
      BY <1>2 DEF SeqInv, Sessions, None
    <3>3. accepted'[session'] = Append(a, m) /\ session' \in Sessions
          /\ \A n \in Sessions \ {session} : accepted'[n] = accepted[n]
      BY <1>2, <3>1 DEF TypeOK
    <3>4. /\ \A u \in Topics : Cardinality(Taken(a, u)) \in Nat
          /\ Cardinality(Taken(Append(a, m), t)) = Cardinality(Taken(a, t)) + 1
          /\ \A u \in Topics \ {t} : Taken(Append(a, m), u) = Taken(a, u)
          /\ Contiguous(a) => Contiguous(Append(a, m))
      <4> HIDE DEF a
      <4> QED
        BY <3>1, <3>2, TakenAppend
    <3>5. \A u \in Topics : sequences'[u] = Saturated(Cardinality(Taken(Append(a, m), u)))
      <4> SUFFICES ASSUME NEW u \in Topics
                   PROVE  sequences'[u] = Saturated(Cardinality(Taken(Append(a, m), u)))
        OBVIOUS
      <4>1. CASE u # t
        BY <3>1, <3>2, <3>4, <4>1 DEF TypeOK
      <4>2. CASE u = t
        <5>1. sequences'[u] = SaturatingAdd(Saturated(Cardinality(Taken(a, t))))
          BY <3>1, <3>2, <4>2 DEF TypeOK
        <5> QED
          BY <3>4, <4>2, <5>1, RecorderAssumptions DEF SaturatingAdd, Saturated
      <4> QED
        BY <4>1, <4>2
    <3>6. session <= started /\ session \in Nat
      BY <1>2 DEF SessionInv, Sessions
    <3>7. \A n \in Sessions : n > started => accepted'[n] = <<>>
      BY <1>a, <3>3, <3>6 DEF SeqInv, Sessions
    <3>8. SequencesContiguous'
      <4>1. \A n \in Sessions : Contiguous(accepted[n])
        BY ContiguousSessions DEF SeqInv
      <4>2. \A n \in Sessions : Contiguous(accepted'[n])
        BY <1>2, <3>3, <3>4, <4>1
      <4> QED
        BY <4>2 DEF SequencesContiguous, Contiguous, Saturated
    <3> QED
      BY <1>2, <3>3, <3>5, <3>7, <3>8 DEF SeqInv
  <2>2. CASE UNCHANGED <<sequences, accepted>>
    BY <1>1, <1>2, <2>2
  <2> QED
    BY <1>2, <2>1, <2>2 DEF TryRecord, BadTimestamp
<1>3. ASSUME NEW k \in Keys, RecordPayload(k) PROVE SeqInv'
  <2>1. TopicOf[k] \in Topics /\ offered + 1 \in Ids /\ session \in Sessions
    BY <1>3, RecorderAssumptions DEF RecordPayload, TypeOK, Ids
  <2> QED
    BY <1>2, <1>3, <2>1 DEF RecordPayload, Waiting
<1>4. ASSUME EnsureReply PROVE SeqInv'
  <2>1. TopicOf[cmd.key] \in Topics /\ offered \in Ids /\ session \in Sessions
    BY <1>4, <1>a, EventKinds, RecorderAssumptions
       DEF EnsureReply, Answered, TypeOK, Ids, SessionInv, Waiting
  <2>2. CASE reply = "ok"
    BY <1>2, <1>4, <2>1, <2>2 DEF EnsureReply, Waiting
  <2>3. CASE reply # "ok"
    BY <1>1, <1>4, <2>3 DEF EnsureReply, Waiting
  <2> QED
    BY <2>2, <2>3
<1>5. ASSUME NEW p \in BOOLEAN, BagRecord(p) PROVE SeqInv'
  <2>1. started' = started + 1 /\ started + 1 \in Sessions /\ session = None
        /\ UNCHANGED <<session, accepted>>
    BY <1>5, <1>a DEF BagRecord, Sessions
  <2>2. accepted'[started'] = <<>>
    BY <1>a, <2>1 DEF SeqInv, Sessions
  <2>3. \A n \in Sessions : n > started' => accepted'[n] = <<>>
    BY <1>a, <2>1 DEF SeqInv, Sessions
  <2> QED
    BY <2>1, <2>2, <2>3 DEF SeqInv, SequencesContiguous
<1>6. CASE StartReply
  <2>1. reply = "ok" => session' = started /\ sequences' = NoDrops /\ started \in Sessions
    BY <1>6, EventKinds DEF StartReply, Answered, SessionInv, Waiting, TypeOK
  <2>2. UNCHANGED <<accepted, started>> /\ ~Waiting("Start")'
    BY <1>6 DEF StartReply, Waiting, histVars
  <2>3. CASE reply = "ok"
    <3>1. accepted[started] = <<>>
      BY <1>6 DEF StartReply, Answered, Waiting, SeqInv
    <3>2. \A t \in Topics : Taken(accepted'[session'], t) = {}
      BY <2>1, <2>2, <2>3, <3>1 DEF Taken
    <3>3. \A t \in Topics : sequences'[t] = Saturated(Cardinality(Taken(accepted'[session'], t)))
      BY <2>1, <2>3, <3>2, FS_EmptySet, RecorderAssumptions DEF NoDrops, Saturated
    <3> QED
      BY <2>2, <3>3 DEF SeqInv, SequencesContiguous
  <2>4. CASE reply # "ok"
    BY <1>1, <1>6, <2>2, <2>4 DEF StartReply
  <2> QED
    BY <2>3, <2>4
<1>7. CASE StopReply
  BY <1>7 DEF StopReply, SeqInv, SequencesContiguous, Waiting, Taken
<1>8. CASE \/ \E p \in BOOLEAN : SetPaused(p)
           \/ \E k \in Keys : NeedChannel(k)
           \/ Send \/ BagStop \/ CtrlC \/ RuntimeError \/ DropHandle \/ Join
  BY <1>1, <1>8 DEF SetPaused, NeedChannel, Send, BagStop, CtrlC, RuntimeError, DropHandle, Join,
     Issue, EnsureEvent, StopEvent, ShutdownEvent, Waiting, histVars
<1>9. CASE Actor \/ Done
  BY <1>1, <1>9 DEF Actor, ActorData, ActorEnsure, ActorStart, ActorStop, ActorShutdown, Done,
     vars, rtVars, histVars, Waiting
<1> QED
  BY <1>3, <1>4, <1>5, <1>6, <1>7, <1>8, <1>9 DEF Next, Runtime

\* Both are invariants, given the one of the session, the channel and the actor.
LEMMA HistoryInvariant == Spec => [](FileInv /\ SeqInv)
<1>1. Init => FileInv /\ SeqInv
  BY EmptySeq DEF Init, FileInv, SeqInv, SequencesContiguous, Waiting
<1>2. RecorderInv /\ RecorderInv' /\ FileInv /\ SeqInv /\ [Next]_vars => FileInv' /\ SeqInv'
  <2> SUFFICES ASSUME RecorderInv, RecorderInv', FileInv, SeqInv, [Next]_vars
               PROVE  FileInv' /\ SeqInv'
    OBVIOUS
  <2>1. CASE Next
    BY <2>1, FileStep, SequenceStep DEF RecorderInv
  <2>2. CASE UNCHANGED vars
    BY <2>2 DEF FileInv, SeqInv, SequencesContiguous, Waiting, Taken, vars, rtVars, chanVars,
       actorVars, diskVars, histVars
  <2> QED
    BY <2>1, <2>2
<1> QED
  BY <1>1, <1>2, RecorderInvariant, PTL DEF Spec

\* However many messages a full channel drops, the sequence numbers written
\* for a topic count the messages taken for it, without a gap, up to the
\* saturation of u32.
THEOREM SequencesAreContiguous == Spec => []SequencesContiguous
BY HistoryInvariant, PTL DEF SeqInv

\* The runtime thread, the channel and the actor together are a bag: messages
\* enter it one at a time while it is open and leave it only when their write
\* fails, one bag is written at a time, and a closed one never changes.
THEOREM RecorderImplementsBag == Spec => ImplementsBag
<1>1. Init => B!BagInit
  <2> SUFFICES ASSUME Init PROVE B!BagInit
    OBVIOUS
  <2>1. \A n \in Sessions : active # n /\ contents[n] = <<>>
    BY DEF Init, None, Sessions
  <2>2. bagLog = [n \in Sessions |-> <<>>]
    <3>1. <<>> \o <<>> = <<>>
      OBVIOUS
    <3> QED
      BY <2>1, <3>1 DEF bagLog
  <2> QED
    BY <2>2 DEF Init, B!BagInit
<1>2. RecorderInv /\ RecorderInv' /\ FileInv /\ [Next]_vars => [B!BagNext]_(B!bagVars)
  <2> SUFFICES ASSUME RecorderInv, RecorderInv', FileInv, [Next]_vars
               PROVE  B!BagNext \/ UNCHANGED B!bagVars
    OBVIOUS
  <2>1. CASE Next
    BY <2>1, BagStep DEF RecorderInv
  <2>2. CASE UNCHANGED vars
    BY <2>2 DEF vars, chanVars, actorVars, diskVars, B!bagVars, bagLog
  <2> QED
    BY <2>1, <2>2
<1> QED
  BY <1>1, <1>2, RecorderInvariant, HistoryInvariant, PTL DEF Spec, ImplementsBag, B!BagSpec
=============================================================================
