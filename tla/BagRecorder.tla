---------------------------- MODULE BagRecorder ----------------------------
(***************************************************************************)
(* Bag recording: the runtime thread with its RecordingSession             *)
(* (runtime/bag.rs), the bounded channel of RecorderHandle, and the actor  *)
(* thread that owns the MCAP writer (recorder/actor.rs).                   *)
(*                                                                         *)
(* The runtime thread sends data with try_send, which drops when the       *)
(* channel is full, and sends commands with a blocking send, after which   *)
(* it waits for the actor's reply.  The actor handles one event at a time. *)
(* Opening a file, adding a channel, writing a message and finishing a     *)
(* file can each fail (the MCAP library and the file system are external). *)
(***************************************************************************)
EXTENDS Integers, Sequences, FiniteSets

CONSTANTS
    Keys,         \* channel keys of a session: one per RTPS writer or Zenoh topic
    Topics,       \* topic (with its schema): what names an MCAP channel
    TopicOf,      \* the topic of each key; several keys may share one
    Capacity,     \* RECORDER_CHANNEL_CAPACITY
    MaxSequence,  \* u32::MAX, where the sequence number saturates
    MaxSessions,  \* bound: recordings started
    MaxMessages   \* bound: messages that reach the recording session

ASSUME RecorderAssumptions ==
    /\ TopicOf \in [Keys -> Topics]
    /\ Capacity \in Nat \ {0}
    /\ MaxSequence \in Nat
    /\ MaxSessions \in Nat
    /\ MaxMessages \in Nat

Sessions == 1 .. MaxSessions
None == 0                       \* no session, no active recorder

VARIABLES
    \* runtime thread
    pc,           \* idle | send | await | drop | join | exited
    cmd,          \* the command it is sending or waiting on
    exiting,      \* run() has left its loop
    session,      \* recording_session: number of the active session, or None
    paused,       \* RecordingSession.paused
    channels,     \* RecordingSession.channels: keys whose channel is known
    sequences,    \* RecordingSession.channel_sequences, by topic
    dropped,      \* dropped_by_topic
    droppedCount, \* dropped_count
    \* the channel, the reply channel, and the actor thread
    queue,
    reply,        \* none | ok | err
    alive,        \* actor_loop has not returned
    active,       \* the actor's Recorder: its session number, or None
    known,        \* channels of the active Recorder's file
    \* files on disk
    file,         \* none | open | finished | failed, per session
    contents,     \* messages written, per session
    \* history, read by the properties only
    started,      \* recordings requested so far
    offered,      \* messages that reached the session
    accepted,     \* per session: messages try_record took, in order
    lost,         \* per session and topic: messages try_record dropped
    failedWrites, \* ids of messages whose write failed
    report        \* per session: the lost_messages of the stop response

rtVars == <<pc, cmd, exiting, session, paused, channels, sequences,
            dropped, droppedCount>>
chanVars == <<queue, reply>>
actorVars == <<alive, active, known>>
diskVars == <<file, contents>>
histVars == <<started, offered, accepted, lost, failedWrites, report>>
vars == <<rtVars, chanVars, actorVars, diskVars, histVars>>

Ids == 0 .. MaxMessages
Message == [topic : Topics, seq : 0 .. MaxSequence, id : Ids]
Commands == {"EnsureChannel", "Start", "Stop", "Shutdown"}

\* RecorderEvent.  A command has no message; EnsureChannel names the key
\* whose message waits for the channel.
DataEvent(m) == [op |-> "Data", msg |-> m]
StartEvent(n) == [op |-> "Start", session |-> n]
EnsureEvent(k) == [op |-> "EnsureChannel", key |-> k]
StopEvent == [op |-> "Stop"]
ShutdownEvent == [op |-> "Shutdown"]

Event == [op : {"Data"}, msg : Message]
         \cup [op : {"Start"}, session : Sessions]
         \cup [op : {"EnsureChannel"}, key : Keys]
         \cup [op : {"Stop", "Shutdown"}]

NoDrops == [t \in Topics |-> 0]
NoReport == [t \in Topics |-> -1]

\* The messages among the events of a queue.
IsData(e) == e.op = "Data"
DataOf(q) == LET d == SelectSeq(q, IsData)
             IN  IF q = <<>> THEN <<>> ELSE [i \in 1 .. Len(d) |-> d[i].msg]

Init ==
    /\ pc = "idle" /\ cmd = StopEvent /\ exiting = FALSE
    /\ session = None /\ paused = FALSE
    /\ channels = {} /\ sequences = NoDrops
    /\ dropped = NoDrops /\ droppedCount = 0
    /\ queue = <<>> /\ reply = "none"
    /\ alive = TRUE /\ active = None /\ known = {}
    /\ file = [n \in Sessions |-> "none"]
    /\ contents = [n \in Sessions |-> <<>>]
    /\ started = 0 /\ offered = 0
    /\ accepted = [n \in Sessions |-> <<>>]
    /\ lost = [n \in Sessions |-> NoDrops]
    /\ failedWrites = {}
    /\ report = [n \in Sessions |-> NoReport]

----------------------------------------------------------------------------
(* The runtime thread.                                                     *)

\* A command is handed to the blocking send of the channel.
Issue(e) == pc' = "send" /\ cmd' = e

\* Mutant: only the total is reset, the per-topic counts survive.
ResetTotalOnly == droppedCount' = 0 /\ UNCHANGED dropped

\* reset_drop_counts
ResetDropCounts == dropped' = NoDrops /\ droppedCount' = 0

\* handle_bag_record_command, start_recording: refused when a session is
\* active.  The topic filter is already rebuilt (see TopicFilter); what is
\* left is RecorderHandle::start.  `paused` is start_paused, kept for the
\* session that the reply creates.
BagRecord(startPaused) ==
    /\ pc = "idle" /\ session = None /\ started < MaxSessions
    /\ started' = started + 1
    /\ paused' = startPaused
    /\ ResetDropCounts
    /\ Issue(StartEvent(started + 1))
    /\ UNCHANGED <<exiting, session, channels, sequences, chanVars, actorVars,
                   diskVars, offered, accepted, lost, failedWrites, report>>

\* Mutant: commands overtake the data that is already queued.
SendFirst ==
    /\ pc = "send" /\ Len(queue) < Capacity
    /\ queue' = <<cmd>> \o queue
    /\ pc' = IF cmd.op = "Shutdown" THEN "join" ELSE "await"
    /\ UNCHANGED <<cmd, exiting, session, paused, channels, sequences, dropped,
                   droppedCount, reply, actorVars, diskVars, histVars>>

\* SyncSender::send: waits for room.  Drop then joins the thread, every
\* other command waits for its reply.
Send ==
    /\ pc = "send" /\ Len(queue) < Capacity
    /\ queue' = Append(queue, cmd)
    /\ pc' = IF cmd.op = "Shutdown" THEN "join" ELSE "await"
    /\ UNCHANGED <<cmd, exiting, session, paused, channels, sequences, dropped,
                   droppedCount, reply, actorVars, diskVars, histVars>>

Answered(op) == pc = "await" /\ cmd.op = op /\ reply # "none"

\* Mutant: the channel table of the previous session is kept.
StartReplyKeepsChannels ==
    /\ Answered("Start")
    /\ IF reply = "ok" THEN session' = cmd.session ELSE UNCHANGED session
    /\ reply' = "none" /\ pc' = "idle"
    /\ UNCHANGED <<cmd, exiting, paused, channels, sequences, dropped,
                   droppedCount, queue, actorVars, diskVars, histVars>>

\* The session exists only once the actor has opened the file.
StartReply ==
    /\ Answered("Start")
    /\ IF reply = "ok"
       THEN /\ session' = cmd.session
            /\ channels' = {}
            /\ sequences' = NoDrops
       ELSE UNCHANGED <<session, channels, sequences>>
    /\ reply' = "none" /\ pc' = "idle"
    /\ UNCHANGED <<cmd, exiting, paused, dropped, droppedCount, queue,
                   actorVars, diskVars, histVars>>

SaturatingAdd(n) == IF n = MaxSequence THEN n ELSE n + 1

\* Mutant: a dropped message uses up a sequence number.
TryRecordCountsDrops(t, id) ==
    LET m == [topic |-> t, seq |-> sequences[t], id |-> id] IN
    /\ sequences' = [sequences EXCEPT ![t] = SaturatingAdd(@)]
    /\ IF Len(queue) < Capacity
       THEN /\ queue' = Append(queue, DataEvent(m))
            /\ accepted' = [accepted EXCEPT ![session] = Append(@, m)]
            /\ UNCHANGED <<dropped, droppedCount, lost>>
       ELSE /\ dropped' = [dropped EXCEPT ![t] = @ + 1]
            /\ droppedCount' = droppedCount + 1
            /\ lost' = [lost EXCEPT ![session][t] = @ + 1]
            /\ UNCHANGED <<queue, accepted>>

\* try_record with the sequence bookkeeping of record_payload: the sequence
\* number advances only when the channel took the message.
TryRecord(t, id) ==
    LET m == [topic |-> t, seq |-> sequences[t], id |-> id] IN
    IF Len(queue) < Capacity
    THEN /\ queue' = Append(queue, DataEvent(m))
         /\ sequences' = [sequences EXCEPT ![t] = SaturatingAdd(@)]
         /\ accepted' = [accepted EXCEPT ![session] = Append(@, m)]
         /\ UNCHANGED <<dropped, droppedCount, lost>>
    ELSE /\ dropped' = [dropped EXCEPT ![t] = @ + 1]
         /\ droppedCount' = droppedCount + 1
         /\ lost' = [lost EXCEPT ![session][t] = @ + 1]
         /\ UNCHANGED <<queue, sequences, accepted>>

\* system_time_to_nanos refuses a capture time that is no u64 of nanoseconds
\* since the epoch; the message is given up with a warning.
BadTimestamp ==
    UNCHANGED <<queue, sequences, accepted, dropped, droppedCount, lost>>

\* record_payload for a key whose channel is known.
RecordPayload(k) ==
    /\ pc = "idle" /\ session # None /\ ~paused /\ offered < MaxMessages
    /\ k \in channels
    /\ offered' = offered + 1
    /\ TryRecord(TopicOf[k], offered + 1) \/ BadTimestamp
    /\ UNCHANGED <<pc, cmd, exiting, session, paused, channels, reply,
                   actorVars, diskVars, started, failedWrites, report>>

\* record_payload for a new key: ensure_channel first, which blocks.
NeedChannel(k) ==
    /\ pc = "idle" /\ session # None /\ ~paused /\ offered < MaxMessages
    /\ k \notin channels
    /\ offered' = offered + 1
    /\ Issue(EnsureEvent(k))
    /\ UNCHANGED <<exiting, session, paused, channels, sequences, dropped,
                   droppedCount, chanVars, actorVars, diskVars, started,
                   accepted, lost, failedWrites, report>>

\* ... then the message itself, in the same call.  When the channel cannot
\* be created the message is given up with a warning.
EnsureReply ==
    /\ Answered("EnsureChannel")
    /\ IF reply = "ok"
       THEN /\ channels' = channels \cup {cmd.key}
            /\ TryRecord(TopicOf[cmd.key], offered) \/ BadTimestamp
       ELSE UNCHANGED <<channels, queue, sequences, accepted, dropped,
                        droppedCount, lost>>
    /\ reply' = "none" /\ pc' = "idle"
    /\ UNCHANGED <<cmd, exiting, session, paused, actorVars, diskVars,
                   started, offered, failedWrites, report>>

SetPaused(p) ==
    /\ pc = "idle" /\ session # None /\ paused # p
    /\ paused' = p
    /\ UNCHANGED <<pc, cmd, exiting, session, channels, sequences, dropped,
                   droppedCount, chanVars, actorVars, diskVars, histVars>>

\* stop_recording: without a session it answers "not stopped".
BagStop ==
    /\ pc = "idle" /\ session # None
    /\ Issue(StopEvent)
    /\ UNCHANGED <<exiting, session, paused, channels, sequences, dropped,
                   droppedCount, chanVars, actorVars, diskVars, histVars>>

\* The session ends whatever the actor answers.  The drop counts are part of
\* the response to `rp bag` when finish succeeded and so did gid_map.clear;
\* the exit path of run() throws them away.
StopReply ==
    /\ Answered("Stop")
    /\ session' = None
    /\ \/ UNCHANGED report
       \/ /\ reply = "ok" /\ ~exiting
          /\ report' = [report EXCEPT ![session] = dropped]
    /\ reply' = "none"
    /\ pc' = IF exiting THEN "drop" ELSE "idle"
    /\ UNCHANGED <<cmd, exiting, paused, channels, sequences, dropped,
                   droppedCount, queue, actorVars, diskVars, started, offered,
                   accepted, lost, failedWrites>>

\* run() leaves its loop on Ctrl-C and stops an active recording first ...
CtrlC ==
    /\ pc = "idle" /\ ~exiting
    /\ exiting' = TRUE
    /\ IF session # None THEN Issue(StopEvent)
                         ELSE pc' = "drop" /\ UNCHANGED cmd
    /\ UNCHANGED <<session, paused, channels, sequences, dropped, droppedCount,
                   chanVars, actorVars, diskVars, histVars>>

\* ... and on an error of a handler returns at once, the session still open.
RuntimeError ==
    /\ pc = "idle" /\ ~exiting
    /\ exiting' = TRUE /\ pc' = "drop"
    /\ UNCHANGED <<cmd, session, paused, channels, sequences, dropped,
                   droppedCount, chanVars, actorVars, diskVars, histVars>>

\* Drop for RecorderHandle.
DropHandle ==
    /\ pc = "drop"
    /\ Issue(ShutdownEvent)
    /\ UNCHANGED <<exiting, session, paused, channels, sequences, dropped,
                   droppedCount, chanVars, actorVars, diskVars, histVars>>

Join ==
    /\ pc = "join" /\ ~alive
    /\ pc' = "exited"
    /\ UNCHANGED <<cmd, exiting, session, paused, channels, sequences, dropped,
                   droppedCount, chanVars, actorVars, diskVars, histVars>>

Runtime ==
    \/ \E p \in BOOLEAN : BagRecord(p) \/ SetPaused(p)
    \/ \E k \in Keys : RecordPayload(k) \/ NeedChannel(k)
    \/ Send \/ StartReply \/ EnsureReply \/ BagStop \/ StopReply
    \/ CtrlC \/ RuntimeError \/ DropHandle \/ Join

----------------------------------------------------------------------------
(* The recorder actor.                                                     *)

Receive(op) ==
    /\ alive /\ queue # <<>> /\ Head(queue).op = op
    /\ queue' = Tail(queue)

\* Data: written to the active recording, discarded when there is none.
ActorData ==
    /\ Receive("Data")
    /\ LET m == Head(queue).msg IN
       \/ /\ active # None
          /\ contents' = [contents EXCEPT ![active] = Append(@, m)]
          /\ UNCHANGED failedWrites
       \/ /\ active # None
          /\ failedWrites' = failedWrites \cup {m.id}
          /\ UNCHANGED contents
       \/ active = None /\ UNCHANGED <<contents, failedWrites>>
    /\ UNCHANGED <<rtVars, reply, actorVars, file, started, offered, accepted,
                   lost, report>>

\* Recorder::ensure_channel: one MCAP channel per topic and schema.
ActorEnsure ==
    /\ Receive("EnsureChannel")
    /\ \/ /\ active # None /\ reply' = "ok"
          /\ known' = known \cup {TopicOf[Head(queue).key]}
       \/ reply' = "err" /\ UNCHANGED known
    /\ UNCHANGED <<rtVars, alive, active, diskVars, histVars>>

ActorStart ==
    /\ Receive("Start")
    /\ LET n == Head(queue).session IN
       \/ /\ active = None /\ reply' = "ok"
          /\ active' = n /\ known' = {}
          /\ file' = [file EXCEPT ![n] = "open"]
       \/ /\ active = None /\ reply' = "err"
          /\ file' = [file EXCEPT ![n] = "failed"]
          /\ UNCHANGED <<active, known>>
       \/ active # None /\ reply' = "err" /\ UNCHANGED <<active, known, file>>
    /\ UNCHANGED <<rtVars, alive, contents, histVars>>

\* Recorder::finish writes the metadata and the footer; both can fail.
Finish(s) == file' = IF active = None THEN file ELSE [file EXCEPT ![active] = s]

\* Mutant: a failed finish sends no reply.
ActorStopSilent ==
    /\ Receive("Stop")
    /\ \/ Finish("finished") /\ reply' = "ok"
       \/ active # None /\ Finish("failed") /\ UNCHANGED reply
    /\ active' = None
    /\ UNCHANGED <<rtVars, alive, known, contents, histVars>>

ActorStop ==
    /\ Receive("Stop")
    /\ \/ Finish("finished") /\ reply' = "ok"
       \/ active # None /\ Finish("failed") /\ reply' = "err"
    /\ active' = None
    /\ UNCHANGED <<rtVars, alive, known, contents, histVars>>

\* Mutant: the actor returns on Shutdown without finishing the open file.
ActorShutdownAbandons ==
    /\ alive /\ queue # <<>> /\ Head(queue).op = "Shutdown"
    /\ queue' = <<>>
    /\ active' = None /\ alive' = FALSE
    /\ UNCHANGED <<rtVars, reply, known, diskVars, histVars>>

\* Shutdown: what is still queued is written, the open file is finished.
\* (Shutdown is the last event of the only sender, so nothing is queued
\* behind it and the drain's ignored write errors cannot occur.)
ActorShutdown ==
    /\ alive /\ queue # <<>> /\ Head(queue).op = "Shutdown"
    /\ contents' = IF active = None THEN contents
                   ELSE [contents EXCEPT ![active] = @ \o DataOf(Tail(queue))]
    /\ queue' = <<>>
    /\ \E s \in {"finished", "failed"} : Finish(s)
    /\ active' = None /\ alive' = FALSE
    /\ UNCHANGED <<rtVars, reply, known, histVars>>

Actor == ActorData \/ ActorEnsure \/ ActorStart \/ ActorStop \/ ActorShutdown

Done == pc = "exited" /\ UNCHANGED vars

Next == Runtime \/ Actor \/ Done

Spec == Init /\ [][Next]_vars

\* Both threads are scheduled by the OS; nothing obliges a user to stop a
\* recording, so only the steps that follow a request are fair.
Fairness ==
    /\ WF_vars(Actor)
    /\ WF_vars(Send \/ StartReply \/ EnsureReply \/ StopReply \/ DropHandle \/ Join)

FairSpec == Spec /\ Fairness

----------------------------------------------------------------------------
(* Properties.                                                             *)

\* Type invariant of the session, the channel, the actor and the files; it
\* also bounds the channel (RECORDER_CHANNEL_CAPACITY) and keeps the sequence
\* numbers within u32.
TypeOK ==
    /\ pc \in {"idle", "send", "await", "drop", "join", "exited"}
    /\ cmd \in Event /\ exiting \in BOOLEAN
    /\ session \in Sessions \cup {None} /\ paused \in BOOLEAN
    /\ channels \subseteq Keys
    /\ sequences \in [Topics -> 0 .. MaxSequence]
    /\ dropped \in [Topics -> Nat] /\ droppedCount \in Nat
    /\ queue \in Seq(Event) /\ Len(queue) <= Capacity
    /\ reply \in {"none", "ok", "err"} /\ alive \in BOOLEAN
    /\ active \in Sessions \cup {None} /\ known \subseteq Topics
    /\ file \in [Sessions -> {"none", "open", "finished", "failed"}]
    /\ contents \in [Sessions -> Seq(Message)]
    /\ started \in 0 .. MaxSessions /\ offered \in 0 .. MaxMessages
    /\ accepted \in [Sessions -> Seq(Message)]
    /\ lost \in [Sessions -> [Topics -> Nat]]
    /\ failedWrites \subseteq Ids
    /\ report \in [Sessions -> [Topics -> Nat \cup {-1}]]

\* A bag holds only messages that were taken for its own session, each at
\* most once and in the order in which they were taken: nothing that was
\* still queued when a recording stopped reaches the next recording.
BagIsInOrder ==
    \A n \in Sessions : \A i \in 1 .. Len(contents[n]) :
        /\ \E j \in 1 .. Len(accepted[n]) : contents[n][i] = accepted[n][j]
        /\ \A h \in 1 .. i - 1 : contents[n][h].id < contents[n][i].id

\* "Any data messages queued before this call are guaranteed to be written
\* first" (stop): a message that try_record took is in the bag, or its write
\* failed, or it is in the channel and its bag is still open.
NothingForgotten ==
    \A n \in Sessions : \A i \in 1 .. Len(accepted[n]) :
        \/ accepted[n][i].id \in failedWrites
        \/ \E j \in 1 .. Len(contents[n]) : contents[n][j] = accepted[n][i]
        \/ /\ active = n /\ file[n] = "open"
           /\ \E j \in 1 .. Len(queue) : queue[j] = DataEvent(accepted[n][i])

\* The sequence numbers of a channel have no gap however many messages the
\* full channel dropped: the k-th message taken for a topic carries k - 1, or
\* the saturation value.
SequencesContiguous ==
    \A n \in Sessions : \A i \in DOMAIN accepted[n] :
        LET m == accepted[n][i]
            before == {j \in 1 .. i - 1 : accepted[n][j].topic = m.topic}
        IN  m.seq = IF Cardinality(before) < MaxSequence THEN Cardinality(before)
                                                        ELSE MaxSequence

\* The lost_messages of a stop response are exactly the messages that this
\* session dropped, topic by topic; an earlier recording's drops, or those of
\* a recording that failed to start, do not leak into it.
LostReportExact ==
    \A n \in Sessions : report[n] # NoReport => report[n] = lost[n]

\* A queued message always finds the recorder of its own session, and the
\* MCAP channel it names exists in that file (write_record_message would fail
\* otherwise).
WriterKnowsChannel ==
    \A i \in 1 .. Len(queue) :
        queue[i].op = "Data" =>
            /\ active # None /\ active = session
            /\ queue[i].msg.topic \in known

\* Whatever failed before, a new recording never meets a recorder that is
\* still active ("recorder actor already has an active session").
StartNeverRefused ==
    \A i \in 1 .. Len(queue) : queue[i].op = "Start" => active = None

\* A message that try_record took is still queued for its own open bag, or in
\* that bag, once and in order, or its write failed; and a stop that succeeds
\* reports exactly the messages that found the channel full in its session.
\* (A stop that fails and Ctrl-C give no report, and a message that gets no
\* MCAP channel or has a bad timestamp is offered but never counted.)
EveryMessageAccounted == BagIsInOrder /\ NothingForgotten /\ LostReportExact

\* Runtime and actor agree on the recording without sharing state: what the
\* runtime has queued always meets the recorder it was meant for.
ActorInStep == WriterKnowsChannel /\ StartNeverRefused

\* The runtime thread never waits for ever in a blocking send, for a reply or
\* in the join of Drop: it is the only receiver of packets and commands.
RuntimeProgress == (pc # "idle") ~> (pc \in {"idle", "exited"})

\* However run() ends (Ctrl-C or an error), the process exits and leaves no
\* half-written bag behind.
ExitClosesFile ==
    exiting ~> (pc = "exited" /\ \A n \in Sessions : file[n] # "open")

\* The messages that the actor takes from a queue before its first command.
Pending(q) == [i \in {i \in 1 .. Len(q) : \A j \in 1 .. i : IsData(q[j])} |-> q[i].msg]

\* The bag a user sees: what is written, followed by what is queued for it.
bagLog == [n \in Sessions |->
              contents[n] \o (IF active = n THEN Pending(queue) ELSE <<>>)]
B == INSTANCE Bag WITH Messages <- Message, log <- bagLog

\* Session, channel and actor together implement the bag of module Bag, in
\* which a message is recorded at once and a closed bag never changes.
ImplementsBag == B!BagSpec
=============================================================================
