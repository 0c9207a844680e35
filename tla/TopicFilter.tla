---------------------------- MODULE TopicFilter ----------------------------
(***************************************************************************)
(* The kernel topic filter: which writers' DATA the eBPF program lets      *)
(* through (TOPIC_FILTER_GIDS), kept by RecorderTopicGidMap                *)
(* (recorder/gid_map.rs) in step with the recording, the four observers    *)
(* and the publications of the discovery table (runtime/mod.rs,            *)
(* runtime/command.rs, runtime/bag.rs).                                    *)
(*                                                                         *)
(* The runtime changes the kernel map with one system call per GID, and    *)
(* packets are filtered concurrently, so a rebuild is a sequence of steps. *)
(* A system call can fail; the runtime is single-threaded and handles the  *)
(* next command, event or message only when the rebuild is over.           *)
(***************************************************************************)
EXTENDS Integers, FiniteSets

CONSTANTS
    Writers,      \* GIDs of RTPS writers
    InfoReaders,  \* GIDs of readers of /ros_discovery_info
    Topics,       \* topic names
    Info,         \* ROS_DISCOVERY_INFO_TOPIC
    TopicOf,      \* the topic of each writer
    Observers,    \* hz, bw, delay, echo: at most one session of each
    NoTopic,      \* an observer without a session
    NoReader,     \* DATA addressed to no particular reader
    Packets,      \* bound: the DATA packets on the wire
    MaxGids,      \* MAX_TOPIC_GIDS
    MaxFaults     \* bound: kernel map system calls that fail

Gids == Writers \cup InfoReaders
Packet == [writer : Writers, reader : InfoReaders \cup {NoReader}]

ASSUME FilterAssumptions ==
    /\ Info \in Topics /\ NoTopic \notin Topics /\ NoReader \notin Gids
    /\ TopicOf \in [Writers -> Topics]
    /\ Writers \cap InfoReaders = {}
    /\ Packets \subseteq Packet
    /\ MaxGids \in Nat /\ MaxFaults \in Nat

VARIABLES
    published,    \* GIDs the discovery table holds
    recording,    \* recording_session.is_some()
    recTopics,    \* its topics; empty means --all
    noDiscovery,  \* its no_discovery
    observing,    \* per observer: its topic, or NoTopic
    mode,         \* GidMapMode
    previousMode, \* start_recording's previous_mode
    current,      \* RecorderTopicGidMap.current
    outdated,     \* GIDs of current whose metadata the table has changed since
    kernel,       \* the eBPF map TOPIC_FILTER_GIDS
    pc,           \* what the runtime is doing, see Phases
    cont,         \* who asked for the rebuild: decides what an error does
    next,         \* GIDs still to clear, or the selection to establish
    captured,     \* packets the filter let through, not handled yet
    \* history
    synced,       \* the last rebuild completed
    lost,         \* GIDs that a clear removed before it was cut short
    faults,       \* failed system calls
    recorded      \* topics written to the current recording

sessionVars == <<recording, recTopics, noDiscovery, observing>>
mapVars == <<mode, previousMode, current, outdated, kernel>>
histVars == <<synced, lost, faults, recorded>>
filterVars == <<published, sessionVars, mapVars, pc, cont, next, captured, histVars>>

Phases == {"idle", "rebuild", "sync", "start", "clear", "dead"}
Callers == {"command", "event", "record", "rollback"}

\* GidMapMode: All, None and Explicit(topics).  build_mode turns the empty
\* list into All.
Mode(all, topics) == [all |-> all, topics |-> topics]
ModeNone == Mode(FALSE, {})
BuildMode(topics) == IF topics = {} THEN Mode(TRUE, {}) ELSE Mode(FALSE, topics)

\* matches_topic: /ros_discovery_info always passes.
MatchesTopic(m, t) == t = Info \/ m.all \/ t \in m.topics

\* select_from_table
Select(m, gids) ==
    {g \in gids \cap Writers : MatchesTopic(m, TopicOf[g])}
    \cup (gids \cap InfoReaders)

Observed(obs) == {obs[o] : o \in Observers} \ {NoTopic}

\* sync_topic_filter: the mode that the sessions ask for.
WantedMode(rec, topics, obs) ==
    LET explicit == (IF rec THEN topics ELSE {}) \cup Observed(obs) IN
    IF rec /\ topics = {} THEN BuildMode({})
    ELSE IF explicit = {} THEN ModeNone
    ELSE BuildMode(explicit)

FilterInit ==
    /\ published = {}
    /\ recording = FALSE /\ recTopics = {} /\ noDiscovery = FALSE
    /\ observing = [o \in Observers |-> NoTopic]
    /\ mode = ModeNone /\ previousMode = ModeNone
    /\ current = {} /\ outdated = {} /\ kernel = {}
    /\ pc = "idle" /\ cont = "command" /\ next = {} /\ captured = {}
    /\ synced = TRUE /\ lost = {} /\ faults = 0 /\ recorded = {}

----------------------------------------------------------------------------
(* rebuild_from_table and sync.  What a handler no longer needs (its       *)
(* caller, the selection, the previous mode) is reset when it ends.        *)

\* configure followed by rebuild_from_table.
Rebuild(m, caller) == mode' = m /\ pc' = "rebuild" /\ cont' = caller

EndHandler(phase) ==
    pc' = phase /\ cont' = "command" /\ next' = {} /\ previousMode' = ModeNone

\* Mutant: a failed start does not restore the mode.
AbortKeepsMode ==
    \/ /\ cont # "record" /\ synced' = FALSE
       /\ EndHandler(IF cont = "event" THEN "dead" ELSE "idle")
       /\ UNCHANGED mode
    \/ /\ cont = "record" /\ Rebuild(mode, "rollback")
       /\ next' = {} /\ UNCHANGED <<synced, previousMode>>

\* The rebuild returns an error.  A command logs it; a discovery event or the
\* sweep returns it from run(), which ends the process; start_recording
\* restores the previous mode and rebuilds once more.
Abort ==
    \/ /\ cont # "record" /\ synced' = FALSE
       /\ EndHandler(IF cont = "event" THEN "dead" ELSE "idle")
       /\ UNCHANGED mode
    \/ /\ cont = "record" /\ Rebuild(previousMode, "rollback")
       /\ next' = {} /\ UNCHANGED <<synced, previousMode>>

SelectFromTable ==
    /\ pc = "rebuild"
    /\ LET selected == Select(mode, published) IN
       IF Cardinality(selected) > MaxGids
       THEN Abort
       ELSE /\ next' = selected /\ pc' = "sync"
            /\ UNCHANGED <<mode, previousMode, cont, synced>>
    /\ UNCHANGED <<published, sessionVars, current, outdated, kernel, captured,
                   lost, faults, recorded>>

\* A GID leaves the map, or its remove fails: the key is not there, or the
\* kernel refuses.
SyncRemove(g) ==
    /\ pc = "sync" /\ g \in current \ next
    /\ \/ /\ g \in kernel
          /\ kernel' = kernel \ {g} /\ current' = current \ {g}
          /\ outdated' = outdated \ {g}
          /\ UNCHANGED <<mode, previousMode, pc, cont, next, synced, faults>>
       \/ /\ g \in kernel => faults < MaxFaults
          /\ faults' = IF g \in kernel THEN faults + 1 ELSE faults
          /\ Abort /\ UNCHANGED <<kernel, current, outdated>>
    /\ UNCHANGED <<published, sessionVars, captured, lost, recorded>>

\* Mutant: `current` is updated before the insert is known to have worked.
SyncInsertEarly(g) ==
    /\ pc = "sync" /\ current \subseteq next /\ g \in next
    /\ g \in current => g \in outdated
    /\ current' = current \cup {g}
    /\ \/ /\ kernel' = kernel \cup {g}
          /\ outdated' = outdated \ {g} /\ lost' = lost \ {g}
          /\ UNCHANGED <<mode, previousMode, pc, cont, next, synced, faults>>
       \/ /\ faults < MaxFaults /\ faults' = faults + 1
          /\ Abort /\ UNCHANGED <<kernel, outdated, lost>>
    /\ UNCHANGED <<published, sessionVars, captured, recorded>>

\* After the removals the missing GIDs are inserted, and those whose metadata
\* changed are inserted again: it is the one way in which a lost GID returns.
SyncInsert(g) ==
    /\ pc = "sync" /\ current \subseteq next /\ g \in next
    /\ g \in current => g \in outdated
    /\ \/ /\ kernel' = kernel \cup {g} /\ current' = current \cup {g}
          /\ outdated' = outdated \ {g} /\ lost' = lost \ {g}
          /\ UNCHANGED <<mode, previousMode, pc, cont, next, synced, faults>>
       \/ /\ faults < MaxFaults /\ faults' = faults + 1
          /\ Abort /\ UNCHANGED <<kernel, current, outdated, lost>>
    /\ UNCHANGED <<published, sessionVars, captured, recorded>>

\* No GID is left to change.  start_recording goes on to start the
\* recorder, every other caller is done.
SyncDone ==
    /\ pc = "sync" /\ current = next /\ outdated = {}
    /\ IF cont = "record"
       THEN /\ pc' = "start" /\ next' = {}
            /\ UNCHANGED <<cont, previousMode, synced>>
       ELSE EndHandler("idle") /\ synced' = TRUE
    /\ UNCHANGED <<published, sessionVars, mode, current, outdated, kernel,
                   captured, lost, faults, recorded>>

----------------------------------------------------------------------------
(* Commands (handle_runtime_commands).                                     *)

\* BagRecord: refused while a recording is active.  The filter is rebuilt
\* for the recording's own topics before the recorder starts.
BagRecord(topics) ==
    /\ pc = "idle" /\ ~recording
    /\ previousMode' = mode
    /\ Rebuild(BuildMode(topics), "record")
    /\ UNCHANGED <<published, sessionVars, current, outdated, kernel, next,
                   captured, histVars>>

\* RecorderHandle::start succeeds and the filter is rebuilt for all sessions,
\* or it fails and the previous mode is restored.  The requested topics are
\* those of the mode.
StartRecorder(noDisc) ==
    /\ pc = "start"
    /\ \/ /\ recording' = TRUE /\ recTopics' = mode.topics /\ noDiscovery' = noDisc
          /\ Rebuild(WantedMode(TRUE, mode.topics, observing), "command")
       \/ /\ UNCHANGED <<recording, recTopics, noDiscovery>>
          /\ Rebuild(previousMode, "rollback")
    /\ previousMode' = ModeNone
    /\ UNCHANGED <<published, observing, current, outdated, kernel, next,
                   captured, histVars>>

\* BagStop: the session ends and clear empties the map before the rebuild.
BagStop ==
    /\ pc = "idle"
    /\ recording' = FALSE /\ recTopics' = {} /\ noDiscovery' = FALSE
    /\ recorded' = {}
    /\ IF recording
       THEN pc' = "clear" /\ next' = current /\ UNCHANGED <<mode, cont>>
       ELSE /\ Rebuild(WantedMode(FALSE, {}, observing), "command")
            /\ UNCHANGED next
    /\ UNCHANGED <<published, observing, previousMode, current, outdated, kernel,
                   captured, synced, lost, faults>>

\* One remove of clear; a failure leaves `current` as it was, with what clear
\* has removed by then, and goes on to the rebuild of BagStop.
ClearRemove(g) ==
    /\ pc = "clear" /\ g \in next
    /\ \/ /\ g \in kernel
          /\ kernel' = kernel \ {g} /\ next' = next \ {g}
          /\ UNCHANGED <<mode, pc, cont, lost, faults>>
       \/ /\ g \in kernel => faults < MaxFaults
          /\ faults' = IF g \in kernel THEN faults + 1 ELSE faults
          /\ lost' = lost \cup (current \ next)
          /\ Rebuild(WantedMode(recording, recTopics, observing), "command")
          /\ next' = {} /\ UNCHANGED kernel
    /\ UNCHANGED <<published, sessionVars, previousMode, current, outdated,
                   captured, synced, recorded>>

ClearDone ==
    /\ pc = "clear" /\ next = {}
    /\ current' = {} /\ outdated' = {}
    /\ Rebuild(WantedMode(recording, recTopics, observing), "command")
    /\ UNCHANGED <<published, sessionVars, previousMode, kernel, next, captured,
                   histVars>>

\* TopicHzStart, TopicBwStart, TopicDelayStart, TopicEchoStart: one session
\* of each kind.
ObserverStart(o, t) ==
    /\ pc = "idle" /\ observing[o] = NoTopic
    /\ observing' = [observing EXCEPT ![o] = t]
    /\ Rebuild(WantedMode(recording, recTopics, observing'), "command")
    /\ UNCHANGED <<published, recording, recTopics, noDiscovery, previousMode,
                   current, outdated, kernel, next, captured, histVars>>

ObserverStop(o) ==
    /\ pc = "idle"
    /\ observing' = [observing EXCEPT ![o] = NoTopic]
    /\ Rebuild(WantedMode(recording, recTopics, observing'), "command")
    /\ UNCHANGED <<published, recording, recTopics, noDiscovery, previousMode,
                   current, outdated, kernel, next, captured, histVars>>

----------------------------------------------------------------------------
(* Discovery and data (handle_rtps_event, the sweep of run).               *)

\* Mutant: a new endpoint does not rebuild the filter.
SedpInsertedLate(g) ==
    /\ pc = "idle" /\ g \notin published
    /\ published' = published \cup {g}
    /\ UNCHANGED <<sessionVars, mapVars, pc, cont, next, captured, histVars>>

\* A new endpoint rebuilds the filter inline.  The map may hold its GID still,
\* with other metadata, when its removal failed.
SedpInserted(g) ==
    /\ pc = "idle" /\ g \notin published
    /\ published' = published \cup {g}
    /\ \E changed \in SUBSET ({g} \cap current) : outdated' = outdated \cup changed
    /\ Rebuild(WantedMode(recording, recTopics, observing), "event")
    /\ UNCHANGED <<sessionVars, previousMode, current, kernel, next, captured,
                   histVars>>

\* A repeated announcement may change the type or the participant (Updated),
\* or change it back; the filter is not rebuilt.
SedpUpdated(g) ==
    /\ pc = "idle" /\ g \in published \cap current
    /\ outdated' \in {outdated \cup {g}, outdated \ {g}} \ {outdated}
    /\ UNCHANGED <<published, sessionVars, mode, previousMode, current, kernel, pc,
                   cont, next, captured, histVars>>

\* Disposal of an endpoint or a participant, or expiry of several of them in
\* one sweep: one rebuild for all.
Removed(gone) ==
    /\ pc = "idle" /\ gone # {} /\ gone \subseteq published
    /\ published' = published \ gone
    /\ Rebuild(WantedMode(recording, recTopics, observing), "event")
    /\ UNCHANGED <<sessionVars, previousMode, current, outdated, kernel, next,
                   captured, histVars>>

\* The eBPF program accepts a DATA packet whose writer or reader is in the
\* map, whatever the runtime is doing.
KernelAccept(p) ==
    /\ pc # "dead" /\ captured = {}
    /\ {p.writer, p.reader} \cap kernel # {}
    /\ captured' = {p}
    /\ UNCHANGED <<published, sessionVars, mapVars, pc, cont, next, histVars>>

\* metadata_for_message_with_gid: the topic by which the message is handled.
MatchedTopics(p) ==
    IF p.writer \in current THEN {TopicOf[p.writer]}
    ELSE IF p.reader \in current THEN {Info} ELSE {}

\* should_skip_discovery_topic
SkipDiscovery(t) == t = Info /\ (noDiscovery \/ Info \notin recTopics)

\* handle_data_message: the recording takes every message that has metadata.
HandleData(p) ==
    /\ pc = "idle" /\ p \in captured
    /\ captured' = captured \ {p}
    /\ recorded' = IF recording
                   THEN recorded \cup {t \in MatchedTopics(p) : ~SkipDiscovery(t)}
                   ELSE recorded
    /\ UNCHANGED <<published, sessionVars, mapVars, pc, cont, next, synced,
                   lost, faults>>

Dead == pc = "dead" /\ UNCHANGED filterVars

MapStep ==
    \/ SelectFromTable \/ SyncDone \/ ClearDone
    \/ \E noDisc \in BOOLEAN : StartRecorder(noDisc)
    \/ \E g \in Gids : SyncRemove(g) \/ SyncInsert(g) \/ ClearRemove(g)

FilterNext ==
    \/ MapStep
    \/ \E topics \in SUBSET Topics : BagRecord(topics)
    \/ BagStop
    \/ \E o \in Observers : ObserverStop(o) \/ \E t \in Topics : ObserverStart(o, t)
    \/ \E g \in Gids : SedpInserted(g) \/ SedpUpdated(g)
    \/ \E gone \in SUBSET Gids : Removed(gone)
    \/ \E p \in Packets : KernelAccept(p) \/ HandleData(p)
    \/ Dead

FilterSpec == FilterInit /\ [][FilterNext]_filterVars

\* The runtime thread finishes the handler it is in.
FilterFairSpec == FilterSpec /\ WF_filterVars(MapStep)

----------------------------------------------------------------------------
(* Properties.                                                             *)

Wanted == WantedMode(recording, recTopics, observing)

\* Type invariant of the sessions, the two copies of the map and the rebuild.
FilterTypeOK ==
    /\ published \subseteq Gids
    /\ recording \in BOOLEAN /\ recTopics \subseteq Topics /\ noDiscovery \in BOOLEAN
    /\ observing \in [Observers -> Topics \cup {NoTopic}]
    /\ mode \in [all : BOOLEAN, topics : SUBSET Topics]
    /\ previousMode \in [all : BOOLEAN, topics : SUBSET Topics]
    /\ current \subseteq Gids /\ outdated \subseteq current /\ kernel \subseteq Gids
    /\ pc \in Phases /\ cont \in Callers /\ next \subseteq Gids
    /\ captured \subseteq Packets
    /\ synced \in BOOLEAN /\ lost \subseteq Gids
    /\ faults \in Nat /\ recorded \subseteq Topics

\* Whenever the runtime is between handlers and its last rebuild succeeded,
\* its copy is exactly what the active sessions and the discovery table call
\* for, and so is the kernel map ("the kernel filter is up-to-date before the
\* next DATA arrives"): every writer of a topic somebody observes or records,
\* no writer of another topic, and with no session only /ros_discovery_info.
\* It survives a recording that fails to start, and failed and repeated
\* rebuilds.  A clear that is cut short breaks it, and nothing but new metadata
\* of the writer mends it: the copy still lists what the clear had removed, so
\* a later rebuild succeeds without inserting it.  The kernel then lacks
\* exactly those GIDs.
FilterExact ==
    pc = "idle" /\ synced =>
        /\ current = Select(Wanted, published)
        /\ kernel = Select(Wanted, published) \ lost

\* The kernel never lets a GID through that the runtime does not know: a
\* captured message always had metadata when it was accepted.
KernelWithinCurrent == kernel \subseteq current

\* Failed system calls in the middle of a rebuild leave the two copies equal;
\* outside of a clear they differ by what clears lost, and by nothing else.
KernelMirrorsCurrent == pc # "clear" => kernel = current \ lost

\* The filter ends the runtime only for a reason: a system call failed, or
\* more than MAX_TOPIC_GIDS endpoints were selected.
DiesOnlyOnFilterError ==
    pc = "dead" => faults > 0 \/ Cardinality(Select(Wanted, published)) > MaxGids

\* What the kernel lets through after a rebuild that succeeded is what the
\* sessions need, but for what a clear cut short lost; and the runtime ends
\* only with a reason.
FilterSound == FilterExact /\ DiesOnlyOnFilterError

\* The copy of the map in the runtime can be relied on to compute the next
\* difference: it is never behind the kernel, and outside of a clear it is
\* ahead only by what clears lost.
CopiesAgree == KernelWithinCurrent /\ KernelMirrorsCurrent

\* A writer of a wanted topic gets into the kernel map, unless the wish or
\* the writer goes away, the rebuild fails or a clear cut short lost it.
FilterCatchesUp ==
    \A g \in Gids :
        g \in Select(Wanted, published) ~>
            \/ g \in kernel \/ g \notin Select(Wanted, published)
            \/ ~synced \/ g \in lost

\* `rp bag record TOPICS`: "List of topics to record".  What is recorded is
\* one of the selected topics.
RecordsOnlySelected ==
    recording /\ recTopics # {} => recorded \subseteq recTopics

=============================================================================
