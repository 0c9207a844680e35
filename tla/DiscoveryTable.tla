--------------------------- MODULE DiscoveryTable ---------------------------
(***************************************************************************)
(* The discovery table (discovery/discovery.rs): participants and          *)
(* endpoints learnt from SPDP, SEDP and Zenoh liveliness tokens, their     *)
(* expiration, and the indexes from GID to entry.                          *)
(*                                                                         *)
(* Publications and subscriptions are two maps kept by the same code; an   *)
(* endpoint belongs to one of them for good, so one map stands for both.   *)
(* An RTPS entry has one GID for good; a Zenoh participant has none, and   *)
(* the GID of a Zenoh endpoint is a hash of its key expression, which can  *)
(* change.  The workers stamp samples with their own socket timestamps, so *)
(* observation times come late and out of order.                           *)
(***************************************************************************)
EXTENDS Integers, FiniteSets

CONSTANTS
    Participants,   \* ParticipantIds
    Endpoints,      \* EndpointIds
    Gids,           \* GIDs of endpoints and participants
    None,           \* no GID, no entry, no owner
    ParticipantGid, \* the GID of an RTPS participant, None for Zenoh
    EndpointGids,   \* the GIDs an endpoint may announce
    Owner,          \* the participant an endpoint names, or None
    Leases,         \* lease durations announced; NoLease when absent or negative
    Ttl,            \* default_endpoint_ttl
    MaxDelay,       \* how late a sample may be handled
    MaxTime         \* bound: the clock

NoLease == -1
MaxOf(a, b) == IF a >= b THEN a ELSE b

ASSUME TableAssumptions ==
    /\ None \notin Participants \cup Endpoints \cup Gids
    /\ ParticipantGid \in [Participants -> Gids \cup {None}]
    /\ \A p, q \in Participants :
           ParticipantGid[p] = ParticipantGid[q] => p = q \/ ParticipantGid[p] = None
    /\ EndpointGids \in [Endpoints -> SUBSET Gids]
    /\ \A d, e \in Endpoints : d # e => EndpointGids[d] \cap EndpointGids[e] = {}
    /\ Owner \in [Endpoints -> Participants \cup {None}]
    /\ Leases \subseteq Nat \cup {NoLease}
    /\ Ttl \in Nat /\ MaxDelay \in Nat /\ MaxTime \in Nat

VARIABLES
    participants,   \* ids in DiscoveryTable.participants
    leaseEnd,       \* ParticipantEntry.expires_at, NoLease for None
    participantIndex, \* participant_gid_index
    endpoints,      \* ids in publications or subscriptions
    endpointEnd,    \* EndpointEntry.expires_at (always set, the TTL is finite)
    endpointGid,    \* EndpointEntry.endpoint_gid
    endpointIndex,  \* publication_gid_index, subscription_gid_index
    now,            \* SystemTime::now of the sweep
    change,         \* the DiscoveryChange the last operation returned
    lastHeard       \* history: latest observation of an endpoint or its owner

partVars == <<participants, leaseEnd, participantIndex>>
endVars == <<endpoints, endpointEnd, endpointGid, endpointIndex>>
tableVars == <<partVars, endVars, now, change, lastHeard>>

Changes == {"Inserted", "Updated", "Noop", "RemovedParticipant", "RemovedEndpoint"}

TableInit ==
    /\ participants = {} /\ leaseEnd = [p \in Participants |-> NoLease]
    /\ participantIndex = [g \in Gids |-> None]
    /\ endpoints = {} /\ endpointEnd = [e \in Endpoints |-> 0]
    /\ endpointGid = [e \in Endpoints |-> None]
    /\ endpointIndex = [g \in Gids |-> None]
    /\ now = 0 /\ change = "Noop"
    /\ lastHeard = [e \in Endpoints |-> 0]

ObservationTimes == MaxOf(0, now - MaxDelay) .. now

Hear(e, t) == MaxOf(lastHeard[e], t)

\* BTreeMap::remove; a removed entry leaves its default values behind.
EraseEndpoints(gone) ==
    /\ endpoints' = endpoints \ gone
    /\ endpointEnd' = [e \in Endpoints |-> IF e \in gone THEN 0 ELSE endpointEnd[e]]
    /\ endpointGid' = [e \in Endpoints |-> IF e \in gone THEN None ELSE endpointGid[e]]

EraseParticipants(gone) ==
    /\ participants' = participants \ gone
    /\ leaseEnd' = [p \in Participants |-> IF p \in gone THEN NoLease ELSE leaseEnd[p]]

\* Entries leave the table and their GIDs leave the index
\* (remove_participant_endpoints, expire_endpoints).
DropEndpoints(gone) ==
    /\ EraseEndpoints(gone)
    /\ endpointIndex' = [g \in Gids |->
           IF \E e \in gone : endpointGid[e] = g THEN None ELSE endpointIndex[g]]

DropParticipants(gone) ==
    /\ EraseParticipants(gone)
    /\ participantIndex' = [g \in Gids |->
           IF \E p \in gone : ParticipantGid[p] = g THEN None ELSE participantIndex[g]]

EndpointsOf(p) == {e \in endpoints : Owner[e] = p}

----------------------------------------------------------------------------
(* apply_sample                                                            *)

\* Mutant: the TTL starts when the lease ends.
EndpointDeadlineIsSum(deadline, observed) == MaxOf(deadline, observed) + Ttl

\* Mutant: the endpoint TTL alone decides.
EndpointDeadlineIsTtl(deadline, observed) == observed + Ttl

\* The later of the participant's deadline and the default TTL
\* (endpoint_expires_at, refresh_endpoint_expiration_for_participant).
EndpointDeadline(deadline, observed) == MaxOf(deadline, observed + Ttl)

\* upsert_participant: a known participant is refreshed, and with it all of
\* its endpoints.
ParticipantSample(p, lease, observed) ==
    LET deadline == IF lease = NoLease THEN NoLease ELSE observed + lease IN
    /\ change' = IF p \in participants THEN "Updated" ELSE "Inserted"
    /\ participants' = participants \cup {p}
    /\ leaseEnd' = [leaseEnd EXCEPT ![p] = deadline]
    /\ participantIndex' = [g \in Gids |->
           IF g = ParticipantGid[p] THEN p ELSE participantIndex[g]]
    /\ endpointEnd' = [e \in Endpoints |->
           IF e \in EndpointsOf(p) THEN EndpointDeadline(deadline, observed)
                                   ELSE endpointEnd[e]]
    /\ lastHeard' = [e \in Endpoints |->
           IF Owner[e] = p THEN Hear(e, observed) ELSE lastHeard[e]]
    /\ UNCHANGED <<endpoints, endpointGid, endpointIndex, now>>

\* Mutant: the previous GID stays in the index.
EndpointSampleKeepsIndex(e, gid, observed) ==
    LET deadline == IF Owner[e] \in participants THEN leaseEnd[Owner[e]] ELSE NoLease IN
    /\ change' = IF e \in endpoints THEN "Updated" ELSE "Inserted"
    /\ endpoints' = endpoints \cup {e}
    /\ endpointEnd' = [endpointEnd EXCEPT ![e] = EndpointDeadline(deadline, observed)]
    /\ endpointGid' = [endpointGid EXCEPT ![e] = gid]
    /\ endpointIndex' = [endpointIndex EXCEPT ![gid] = e]
    /\ lastHeard' = [lastHeard EXCEPT ![e] = Hear(e, observed)]
    /\ UNCHANGED <<partVars, now>>

\* upsert_endpoint: the GID the entry had so far leaves the index.
EndpointSample(e, gid, observed) ==
    LET deadline == IF Owner[e] \in participants THEN leaseEnd[Owner[e]] ELSE NoLease IN
    /\ change' = IF e \in endpoints THEN "Updated" ELSE "Inserted"
    /\ endpoints' = endpoints \cup {e}
    /\ endpointEnd' = [endpointEnd EXCEPT ![e] = EndpointDeadline(deadline, observed)]
    /\ endpointGid' = [endpointGid EXCEPT ![e] = gid]
    /\ endpointIndex' = [g \in Gids |->
           IF g = gid THEN e
           ELSE IF g = endpointGid[e] THEN None ELSE endpointIndex[g]]
    /\ lastHeard' = [lastHeard EXCEPT ![e] = Hear(e, observed)]
    /\ UNCHANGED <<partVars, now>>

\* apply_disposal: the index names the entry; an unknown GID is a Noop.
DisposeEndpoint(g) ==
    LET gone == {endpointIndex[g]} \cap endpoints IN
    /\ EraseEndpoints(gone)
    /\ endpointIndex' = [endpointIndex EXCEPT ![g] = None]
    /\ change' = IF gone = {} THEN "Noop" ELSE "RemovedEndpoint"
    /\ UNCHANGED <<partVars, now, lastHeard>>

DisposeParticipant(g) ==
    LET gone == {participantIndex[g]} \cap participants IN
    /\ EraseParticipants(gone)
    /\ participantIndex' = [participantIndex EXCEPT ![g] = None]
    /\ DropEndpoints({e \in endpoints : Owner[e] \in gone})
    /\ change' = IF gone = {} THEN "Noop" ELSE "RemovedParticipant"
    /\ UNCHANGED <<now, lastHeard>>

----------------------------------------------------------------------------
(* Removal by id (Zenoh tokens that are undeclared) and expiration.        *)

RemoveParticipantById(p) ==
    /\ p \in participants
    /\ change' = "RemovedParticipant"
    /\ DropParticipants({p})
    /\ DropEndpoints(EndpointsOf(p))
    /\ UNCHANGED <<now, lastHeard>>

RemoveEndpointById(e) ==
    /\ e \in endpoints
    /\ change' = "RemovedEndpoint"
    /\ DropEndpoints({e})
    /\ UNCHANGED <<partVars, now, lastHeard>>

\* is_expired
IsExpired(deadline) == deadline # NoLease /\ deadline <= now

\* expire_stale.  The sweep acts on the statistics only when something was
\* removed; `change` stands for them.
ExpireStale ==
    LET goneParts == {p \in participants : IsExpired(leaseEnd[p])}
        goneEnds == {e \in endpoints : IsExpired(endpointEnd[e])}
    IN  /\ goneParts \cup goneEnds # {}
        /\ change' = IF goneParts # {} THEN "RemovedParticipant" ELSE "RemovedEndpoint"
        /\ DropParticipants(goneParts)
        /\ DropEndpoints(goneEnds)
        /\ UNCHANGED <<now, lastHeard>>

Tick ==
    /\ now < MaxTime
    /\ now' = now + 1
    /\ UNCHANGED <<partVars, endVars, change, lastHeard>>

TableNext ==
    \/ \E p \in Participants, lease \in Leases, t \in ObservationTimes :
           ParticipantSample(p, lease, t)
    \/ \E e \in Endpoints, t \in ObservationTimes :
           \E g \in EndpointGids[e] : EndpointSample(e, g, t)
    \/ \E g \in Gids : DisposeEndpoint(g) \/ DisposeParticipant(g)
    \/ \E p \in Participants : RemoveParticipantById(p)
    \/ \E e \in Endpoints : RemoveEndpointById(e)
    \/ ExpireStale \/ Tick

TableSpec == TableInit /\ [][TableNext]_tableVars

----------------------------------------------------------------------------
(* Properties.                                                             *)

\* Type invariant; an endpoint always has a finite deadline.
TableTypeOK ==
    /\ participants \subseteq Participants
    /\ leaseEnd \in [Participants -> Nat \cup {NoLease}]
    /\ participantIndex \in [Gids -> Participants \cup {None}]
    /\ endpoints \subseteq Endpoints
    /\ endpointEnd \in [Endpoints -> Nat]
    /\ endpointGid \in [Endpoints -> Gids \cup {None}]
    /\ endpointIndex \in [Gids -> Endpoints \cup {None}]
    /\ now \in Nat /\ change \in Changes
    /\ lastHeard \in [Endpoints -> Nat]

\* The indexes name exactly the entries of the table, each under the GID it
\* carries now: a lookup by GID, and a disposal, which goes through the
\* index, always finds its entry and never another one or a removed one.
IndexExact ==
    /\ \A g \in Gids, p \in Participants :
           participantIndex[g] = p <=> p \in participants /\ ParticipantGid[p] = g
    /\ \A g \in Gids, e \in Endpoints :
           endpointIndex[g] = e <=> e \in endpoints /\ endpointGid[e] = g

\* An endpoint's deadline is never before its participant's, whatever the
\* order and the delay of the samples that set the two.
EndpointOutlivesLease ==
    \A e \in endpoints :
        Owner[e] \in participants => leaseEnd[Owner[e]] <= endpointEnd[e]

\* The sweep never takes an endpoint away from a participant that is alive
\* and announces a lease: SEDP is not repeated, so it would not come back.
SweepKeepsEndpoints ==
    [][ExpireStale =>
          \A e \in endpoints :
              /\ Owner[e] \in participants'
              /\ leaseEnd[Owner[e]] # NoLease
              => e \in endpoints']_tableVars

\* No endpoint lingers: when neither it nor its participant has been heard of
\* for the longest lease and the TTL, the next sweep removes it, even if a
\* late announcement brought it back after its disposal.
NoGhosts ==
    \A e \in endpoints :
        (\A l \in Leases \cup {Ttl} : lastHeard[e] + l <= now)
            => IsExpired(endpointEnd[e])

\* Entries are kept long enough and not too long: until the lease or TTL of
\* the last sample ends, an endpoint not less than its participant.
DeadlinesRight == NoGhosts /\ EndpointOutlivesLease

\* handle_rtps_event rebuilds the topic filter only for Inserted and Removed:
\* an operation that reports Updated or Noop left the set of endpoints alone.
SilentChangeKeepsEndpoints ==
    [][change' \in {"Updated", "Noop"} => endpoints' = endpoints]_tableVars

\* No operation loses an endpoint behind the runtime's back: neither a sweep
\* nor an operation that reports nothing.
EndpointsAreKept == SweepKeepsEndpoints /\ SilentChangeKeepsEndpoints

=============================================================================
