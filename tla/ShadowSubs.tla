----------------------------- MODULE ShadowSubs -----------------------------
(***************************************************************************)
(* Shadow subscribers (runtime/command.rs, shadow/sub.rs): for a topic     *)
(* that a session observes and whose publisher may use shared memory, a    *)
(* subprocess subscribes over UDP so that the data crosses the loopback    *)
(* interface and can be captured.  sync_shadow_subs reconciles the running *)
(* subscribers with the sessions and the discovery table.  It is called    *)
(* by the commands and by a discovery sweep that removed something; a      *)
(* discovery event does not call it.                                       *)
(***************************************************************************)
EXTENDS Integers, FiniteSets

CONSTANTS
    Participants, RemoteHost,  \* participants, and those on another host
    Endpoints, Publishers,     \* endpoints, and those that publish
    UserTopics,                \* user topics ("rt/..." on the wire)
    NoTopic,                   \* topic of a service endpoint; idle observer
    TopicOf, Owner,            \* per endpoint
    Shm,                       \* per endpoint: its own locators name SHM,
                               \* name none, or are absent ("default")
    DefaultShm,                \* participants whose default locators name SHM
    Observers,                 \* hz, bw, delay, echo
    MaxFaults                  \* bound: subprocesses that fail to start

ASSUME ShadowAssumptions ==
    /\ RemoteHost \subseteq Participants /\ DefaultShm \subseteq Participants
    /\ Publishers \subseteq Endpoints /\ NoTopic \notin UserTopics
    /\ TopicOf \in [Endpoints -> UserTopics \cup {NoTopic}]
    /\ Owner \in [Endpoints -> Participants]
    /\ Shm \in [Endpoints -> {"yes", "no", "default"}]
    /\ IsFiniteSet(UserTopics) /\ MaxFaults \in Nat

VARIABLES
    participants,  \* participants of the discovery table
    published,     \* its endpoints
    remote,        \* remote_participants
    recording, recTopics, observing,  \* the sessions, as in TopicFilter
    shadow,        \* keys of shadow_subs
    sweepDue,      \* the discovery_sweep interval has elapsed
    \* history
    behind,        \* discovery changed, or a spawn failed, since the last sync
    faults

discVars == <<participants, published, remote>>
sessionVars == <<recording, recTopics, observing>>
subsVars == <<discVars, sessionVars, shadow, sweepDue, behind, faults>>

SubsInit ==
    /\ participants = {} /\ published = {} /\ remote = {}
    /\ recording = FALSE /\ recTopics = {}
    /\ observing = [o \in Observers |-> NoTopic]
    /\ shadow = {} /\ sweepDue = FALSE
    /\ behind = FALSE /\ faults = 0

----------------------------------------------------------------------------
(* What a subscriber is needed for.                                        *)

\* pub_needs_shadow, endpoint_needs_shadow: the participant's locators count
\* when the endpoint announces none.
NeedsShadow(e, parts) ==
    \/ Shm[e] = "yes"
    \/ Shm[e] = "default" /\ Owner[e] \in parts \cap DefaultShm

\* topic_has_shm_publisher; ros2_topic answers None for a service endpoint.
ShmTopics(pubs, parts) ==
    {TopicOf[e] : e \in {d \in pubs \cap Publishers : NeedsShadow(d, parts)}} \ {NoTopic}

\* topic_has_remote_participant: publisher or subscriber.
RemoteTopics(pubs, rem) == {TopicOf[e] : e \in {d \in pubs : Owner[d] \in rem}}

Observed == {observing[o] : o \in Observers} \ {NoTopic}

\* The topics that the sessions name, unless a recording asks for all.
AllTopics == recording /\ recTopics = {}
Candidates == recTopics \cup Observed

WantedShadows ==
    LET shm == ShmTopics(published, participants)
    IN  (IF AllTopics THEN shm ELSE Candidates \cap shm) \ RemoteTopics(published, remote)

\* Mutant: subscribers that are no longer wanted are kept.
SyncWithoutRetain ==
    \E failed \in SUBSET (WantedShadows' \ shadow) :
        /\ faults + Cardinality(failed) <= MaxFaults
        /\ faults' = faults + Cardinality(failed)
        /\ shadow' = shadow \cup (WantedShadows' \ failed)
        /\ behind' = (failed # {})

\* sync_shadow_subs: subscribers are spawned, and a failure is logged; then
\* retain drops, and thereby kills, those that are no longer wanted.
SyncShadowSubs ==
    \E failed \in SUBSET (WantedShadows' \ shadow) :
        /\ faults + Cardinality(failed) <= MaxFaults
        /\ faults' = faults + Cardinality(failed)
        /\ shadow' = (shadow \cup (WantedShadows' \ failed)) \cap WantedShadows'
        /\ behind' = (failed # {})

----------------------------------------------------------------------------
(* Commands.                                                               *)

SessionCommand == UNCHANGED <<discVars, sweepDue>> /\ SyncShadowSubs

BagRecord(topics) ==
    /\ ~recording
    /\ recording' = TRUE /\ recTopics' = topics /\ UNCHANGED observing
    /\ SessionCommand

\* Mutant: the subscribers are left alone when a recording stops.
BagStopOnly ==
    /\ recording' = FALSE /\ recTopics' = {}
    /\ UNCHANGED <<discVars, observing, shadow, sweepDue, behind, faults>>

BagStop ==
    /\ recording' = FALSE /\ recTopics' = {} /\ UNCHANGED observing
    /\ SessionCommand

ObserverStart(o, t) ==
    /\ observing[o] = NoTopic
    /\ observing' = [observing EXCEPT ![o] = t] /\ UNCHANGED <<recording, recTopics>>
    /\ SessionCommand

ObserverStop(o) ==
    /\ observing' = [observing EXCEPT ![o] = NoTopic]
    /\ UNCHANGED <<recording, recTopics>>
    /\ SessionCommand

----------------------------------------------------------------------------
(* Discovery.                                                              *)

\* A discovery event changes the table and nothing else (handle_rtps_event).
DiscoveryOnly ==
    /\ behind' = TRUE
    /\ UNCHANGED <<sessionVars, shadow, sweepDue, faults>>

Spdp(p) ==
    /\ p \notin participants
    /\ participants' = participants \cup {p}
    /\ remote' = remote \cup ({p} \cap RemoteHost)
    /\ DiscoveryOnly /\ UNCHANGED published

Sedp(e) ==
    /\ e \notin published
    /\ published' = published \cup {e}
    /\ DiscoveryOnly /\ UNCHANGED <<participants, remote>>

DisposeEndpoint(e) ==
    /\ e \in published
    /\ published' = published \ {e}
    /\ DiscoveryOnly /\ UNCHANGED <<participants, remote>>

\* remote_participants keeps the disposed participant.
DisposeParticipant(p) ==
    /\ p \in participants
    /\ participants' = participants \ {p}
    /\ published' = {e \in published : Owner[e] # p}
    /\ DiscoveryOnly /\ UNCHANGED remote

\* The interval elapses.
SweepTick == ~sweepDue /\ sweepDue' = TRUE
             /\ UNCHANGED <<discVars, sessionVars, shadow, behind, faults>>

\* The sweep: expired participants leave remote_participants as well.  Only a
\* sweep that removed something, or changed the Zenoh graph, goes on.
Sweep(parts, ends, zenoh) ==
    /\ sweepDue /\ sweepDue' = FALSE
    /\ parts \subseteq participants /\ ends \subseteq published
    /\ participants' = participants \ parts
    /\ published' = published \ ends
    /\ remote' = remote \ parts
    /\ UNCHANGED sessionVars
    /\ IF parts \cup ends # {} \/ zenoh
       THEN SyncShadowSubs
       ELSE UNCHANGED <<shadow, behind, faults>>

SweepStep == \E parts \in SUBSET Participants, ends \in SUBSET Endpoints,
                zenoh \in BOOLEAN : Sweep(parts, ends, zenoh)

SubsNext ==
    \/ \E topics \in SUBSET UserTopics : BagRecord(topics)
    \/ BagStop
    \/ \E o \in Observers : ObserverStop(o) \/ \E t \in UserTopics : ObserverStart(o, t)
    \/ \E p \in Participants : Spdp(p) \/ DisposeParticipant(p)
    \/ \E e \in Endpoints : Sedp(e) \/ DisposeEndpoint(e)
    \/ SweepTick \/ SweepStep

SubsSpec == SubsInit /\ [][SubsNext]_subsVars

----------------------------------------------------------------------------
(* Properties.                                                             *)

\* Type invariant of the table, the sessions and the subscribers.
SubsTypeOK ==
    /\ participants \subseteq Participants /\ published \subseteq Endpoints
    /\ remote \subseteq Participants
    /\ recording \in BOOLEAN /\ recTopics \subseteq UserTopics
    /\ observing \in [Observers -> UserTopics \cup {NoTopic}]
    /\ shadow \subseteq UserTopics
    /\ sweepDue \in BOOLEAN /\ behind \in BOOLEAN /\ faults \in 0 .. MaxFaults

\* No subprocess outlives the sessions that need it: whatever discovery does,
\* a subscriber runs only for a topic that a recording or an observer asks for.
ShadowsAreObserved == AllTopics \/ shadow \subseteq Candidates

\* As long as discovery has not changed and every spawn succeeded since the
\* last synchronisation, there is a subscriber exactly for the observed topics
\* that have a shared-memory publisher and no remote participant.
ShadowsExact == ~behind => shadow = WantedShadows
=============================================================================
