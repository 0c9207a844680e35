-------------------------- MODULE GraphStateProofs --------------------------
(***************************************************************************)
(* Proofs about GraphState: the node table, the freshness of the snapshot, *)
(* the agreement of its views, locality and roles.                         *)
(*                                                                         *)
(* replace_participant_nodes is a loop over the samples of a node list,    *)
(* modelled as a recursive function: that such a function exists, and that *)
(* what holds before the first turn and is kept by every turn holds at the *)
(* end, are Recursion and Induction of CommonLemmas.                       *)
(***************************************************************************)
EXTENDS GraphState, CommonLemmas

----------------------------------------------------------------------------
(* The node table.                                                         *)

\* Tables of the right shape.
NodeTables ==
    [nodes : UNION {[D -> SUBSET Endpoints] : D \in SUBSET Keys},
     index : [Endpoints -> Keys \cup {None}],
     byParticipant : [Participants -> SUBSET Keys]]

\* What NodeIndexExact needs to be inductive: the index by participant holds
\* every node under its own participant, and nothing else.  c stands for the
\* contested endpoints.
TableInv(t, c) ==
    /\ t \in NodeTables
    /\ IsFiniteSet(DOMAIN t.nodes)
    /\ \A e \in Endpoints : t.index[e] # None =>
           t.index[e] \in DOMAIN t.nodes /\ e \in t.nodes[t.index[e]]
    /\ \A k \in DOMAIN t.nodes :
           /\ k \in t.byParticipant[k[1]]
           /\ \A e \in t.nodes[k] \ c : t.index[e] = k
    /\ \A p \in Participants : \A k \in t.byParticipant[p] :
           k \in DOMAIN t.nodes /\ k[1] = p

\* The fields of a table.
LEMMA NodesForm ==
    ASSUME NEW t \in NodeTables
    PROVE  /\ DOMAIN t.nodes \subseteq Keys
           /\ t.nodes = [k \in DOMAIN t.nodes |-> t.nodes[k]]
           /\ \A k \in DOMAIN t.nodes : t.nodes[k] \in SUBSET Endpoints
           /\ t.index \in [Endpoints -> Keys \cup {None}]
           /\ t.byParticipant \in [Participants -> SUBSET Keys]
<1>1. PICK D \in SUBSET Keys : t.nodes \in [D -> SUBSET Endpoints]
  BY DEF NodeTables
<1> QED
  BY <1>1 DEF NodeTables

\* What is needed to be the nodes of a table.
LEMMA IsNodes ==
    ASSUME NEW D \in SUBSET Keys, NEW f \in [D -> SUBSET Endpoints]
    PROVE  f \in UNION {[E -> SUBSET Endpoints] : E \in SUBSET Keys}
OBVIOUS

\* remove_node takes the nodes out, with every trace in the indexes.
LEMMA RemoveForm ==
    ASSUME NEW t \in NodeTables, NEW keys \in SUBSET DOMAIN t.nodes
    PROVE  /\ RemoveNodes(t, keys) \in NodeTables
           /\ RemoveNodes(t, keys).nodes = [k \in DOMAIN t.nodes \ keys |-> t.nodes[k]]
           /\ RemoveNodes(t, keys).index =
                [e \in Endpoints |->
                   IF \E k \in keys : e \in t.nodes[k] THEN None ELSE t.index[e]]
           /\ RemoveNodes(t, keys).byParticipant =
                [p \in Participants |-> t.byParticipant[p] \ keys]
<1> DEFINE kept == [k \in DOMAIN t.nodes \ keys |-> t.nodes[k]]
           named == [e \in Endpoints |->
                       IF \E k \in keys : e \in t.nodes[k] THEN None ELSE t.index[e]]
           by == [p \in Participants |-> t.byParticipant[p] \ keys]
<1>1. /\ DOMAIN t.nodes \ keys \in SUBSET Keys
      /\ kept \in [DOMAIN t.nodes \ keys -> SUBSET Endpoints]
  BY NodesForm
<1>2. kept \in UNION {[E -> SUBSET Endpoints] : E \in SUBSET Keys}
  BY <1>1, IsNodes
<1>3. named \in [Endpoints -> Keys \cup {None}]
  BY NodesForm
<1>4. by \in [Participants -> SUBSET Keys]
  BY NodesForm
<1>5. RemoveNodes(t, keys) = [nodes |-> kept, index |-> named, byParticipant |-> by]
  <2>1. RemoveIndexes(t, keys) = [nodes |-> t.nodes, index |-> named, byParticipant |-> by]
    BY DEF RemoveIndexes
  <2>2. RemoveNodes(t, keys) = [RemoveIndexes(t, keys) EXCEPT !.nodes = kept]
    BY DEF RemoveNodes
  <2> HIDE DEF kept, named, by
  <2> QED
    BY <2>1, <2>2
<1> HIDE DEF kept, named, by
<1>6. RemoveNodes(t, keys) \in NodeTables
  BY <1>2, <1>3, <1>4, <1>5 DEF NodeTables
<1>7. /\ RemoveNodes(t, keys).nodes = kept /\ RemoveNodes(t, keys).index = named
      /\ RemoveNodes(t, keys).byParticipant = by
  BY <1>5
<1> QED
  BY <1>6, <1>7 DEF kept, named, by

\* Removing nodes keeps the table consistent; an endpoint whose index entry goes
\* with another node that claimed it was contested already.
LEMMA RemoveKeeps ==
    ASSUME NEW t, NEW c, TableInv(t, c), NEW keys \in SUBSET DOMAIN t.nodes
    PROVE  /\ TableInv(RemoveNodes(t, keys), c)
           /\ DOMAIN RemoveNodes(t, keys).nodes = DOMAIN t.nodes \ keys
           /\ \A k \in DOMAIN t.nodes \ keys : RemoveNodes(t, keys).nodes[k] = t.nodes[k]
<1>1. t \in NodeTables
  BY DEF TableInv
<1>2. PICK r : r = RemoveNodes(t, keys)
  OBVIOUS
<1>3. /\ r \in NodeTables
      /\ DOMAIN r.nodes = DOMAIN t.nodes \ keys
      /\ \A k \in DOMAIN t.nodes \ keys : r.nodes[k] = t.nodes[k]
      /\ \A e \in Endpoints :
           r.index[e] = IF \E k \in keys : e \in t.nodes[k] THEN None ELSE t.index[e]
      /\ \A p \in Participants : r.byParticipant[p] = t.byParticipant[p] \ keys
  <2>1. /\ r \in NodeTables
        /\ r.nodes = [k \in DOMAIN t.nodes \ keys |-> t.nodes[k]]
        /\ r.index = [e \in Endpoints |->
                        IF \E k \in keys : e \in t.nodes[k] THEN None ELSE t.index[e]]
        /\ r.byParticipant = [p \in Participants |-> t.byParticipant[p] \ keys]
    BY <1>1, <1>2, RemoveForm, Zenon
  <2>2. /\ DOMAIN r.nodes = DOMAIN t.nodes \ keys
        /\ \A k \in DOMAIN t.nodes \ keys : r.nodes[k] = t.nodes[k]
    BY <2>1
  <2>3. \A e \in Endpoints :
           r.index[e] = IF \E k \in keys : e \in t.nodes[k] THEN None ELSE t.index[e]
    BY <2>1
  <2> QED
    BY <2>1, <2>2, <2>3
<1>4. /\ DOMAIN t.nodes \subseteq Participants \X Names
      /\ \A k \in DOMAIN t.nodes : k[1] \in Participants /\ t.nodes[k] \subseteq Endpoints
  BY <1>1, NodesForm DEF Keys
<1>5. IsFiniteSet(DOMAIN r.nodes)
  BY <1>3, FS_Subset DEF TableInv
<1>6. \A e \in Endpoints : r.index[e] # None =>
           r.index[e] \in DOMAIN r.nodes /\ e \in r.nodes[r.index[e]]
  BY <1>3 DEF TableInv
<1>7. ASSUME NEW k \in DOMAIN r.nodes
      PROVE  /\ k \in r.byParticipant[k[1]]
             /\ \A e \in r.nodes[k] \ c : r.index[e] = k
  BY <1>3, <1>4 DEF TableInv
<1>8. \A p \in Participants : \A k \in r.byParticipant[p] : k \in DOMAIN r.nodes /\ k[1] = p
  BY <1>3 DEF TableInv
<1>9. TableInv(r, c)
  BY <1>3, <1>5, <1>6, <1>7, <1>8 DEF TableInv
<1> QED
  BY <1>2, <1>3, <1>9

\* upsert_sample stores one entry and moves the index entries of its endpoints.
LEMMA UpsertForm ==
    ASSUME NEW t \in NodeTables, NEW p \in Participants, NEW sample \in Samples,
           NEW key, key = <<p, sample.name>>
    PROVE  /\ UpsertSample(t, p, sample) \in NodeTables
           /\ UpsertSample(t, p, sample).nodes =
                [k \in DOMAIN t.nodes \cup {key} |->
                   IF k = key THEN sample.endpoints ELSE t.nodes[k]]
           /\ UpsertSample(t, p, sample).index =
                [e \in Endpoints |->
                   IF e \in sample.endpoints THEN key
                   ELSE IF key \in DOMAIN t.nodes /\ e \in t.nodes[key] THEN None
                   ELSE t.index[e]]
           /\ UpsertSample(t, p, sample).byParticipant =
                [q \in Participants |->
                   IF q = p THEN t.byParticipant[q] \cup {key}
                   ELSE IF key \in DOMAIN t.nodes THEN t.byParticipant[q] \ {key}
                   ELSE t.byParticipant[q]]
<1> DEFINE stored == [k \in DOMAIN t.nodes \cup {key} |->
                        IF k = key THEN sample.endpoints ELSE t.nodes[k]]
           named == [e \in Endpoints |->
                       IF e \in sample.endpoints THEN key
                       ELSE IF key \in DOMAIN t.nodes /\ e \in t.nodes[key] THEN None
                       ELSE t.index[e]]
           by == [q \in Participants |->
                    IF q = p THEN t.byParticipant[q] \cup {key}
                    ELSE IF key \in DOMAIN t.nodes THEN t.byParticipant[q] \ {key}
                    ELSE t.byParticipant[q]]
<1>1. key \in Keys /\ key[1] = p /\ sample.endpoints \in SUBSET Endpoints
  BY DEF Keys, Samples
<1>2. /\ DOMAIN t.nodes \subseteq Keys
      /\ \A k \in DOMAIN t.nodes : t.nodes[k] \in SUBSET Endpoints
      /\ t.index \in [Endpoints -> Keys \cup {None}]
      /\ t.byParticipant \in [Participants -> SUBSET Keys]
  BY NodesForm
<1>3. DOMAIN t.nodes \cup {key} \in SUBSET Keys
      /\ stored \in [DOMAIN t.nodes \cup {key} -> SUBSET Endpoints]
  BY <1>1, <1>2
<1>4. stored \in UNION {[E -> SUBSET Endpoints] : E \in SUBSET Keys}
  BY <1>3, IsNodes
<1>5. named \in [Endpoints -> Keys \cup {None}]
  BY <1>1, <1>2
<1>6. by \in [Participants -> SUBSET Keys]
  BY <1>1, <1>2
<1>7. PICK u : u = IF key \in DOMAIN t.nodes THEN RemoveIndexes(t, {key}) ELSE t
  OBVIOUS
<1>8. /\ u = [nodes |-> t.nodes, index |-> u.index, byParticipant |-> u.byParticipant]
      /\ u.index \in [Endpoints -> Keys \cup {None}]
      /\ u.byParticipant \in [Participants -> SUBSET Keys]
      /\ \A e \in Endpoints : u.index[e] =
            IF key \in DOMAIN t.nodes /\ e \in t.nodes[key] THEN None ELSE t.index[e]
      /\ \A q \in Participants : u.byParticipant[q] =
            IF key \in DOMAIN t.nodes THEN t.byParticipant[q] \ {key} ELSE t.byParticipant[q]
  <2>1. CASE key \in DOMAIN t.nodes
    <3> DEFINE i == [e \in Endpoints |->
                       IF \E k \in {key} : e \in t.nodes[k] THEN None ELSE t.index[e]]
               b == [q \in Participants |-> t.byParticipant[q] \ {key}]
    <3>1. u = [nodes |-> t.nodes, index |-> i, byParticipant |-> b]
      BY <1>7, <2>1 DEF RemoveIndexes
    <3>2. i \in [Endpoints -> Keys \cup {None}] /\ b \in [Participants -> SUBSET Keys]
      BY <1>2
    <3>3. \A e \in Endpoints : i[e] = IF e \in t.nodes[key] THEN None ELSE t.index[e]
      OBVIOUS
    <3>4. \A q \in Participants : b[q] = t.byParticipant[q] \ {key}
      OBVIOUS
    <3> HIDE DEF i, b
    <3>5. u.index = i /\ u.byParticipant = b
      BY <3>1
    <3> QED
      BY <2>1, <3>1, <3>2, <3>3, <3>4, <3>5
  <2>2. CASE key \notin DOMAIN t.nodes
    <3>1. u = t
      BY <1>7, <2>2
    <3>2. t = [nodes |-> t.nodes, index |-> t.index, byParticipant |-> t.byParticipant]
      BY DEF NodeTables
    <3> QED
      BY <1>2, <2>2, <3>1, <3>2
  <2> QED
    BY <2>1, <2>2
<1>9. UpsertSample(t, p, sample) = InsertIndexes([u EXCEPT !.nodes = stored], key)
  BY <1>7 DEF UpsertSample
<1>10. PICK w : w = [u EXCEPT !.nodes = stored]
  OBVIOUS
<1>11. w = [nodes |-> stored, index |-> u.index, byParticipant |-> u.byParticipant]
  <2> HIDE DEF stored
  <2> QED
    BY <1>8, <1>10
<1>12. w.nodes = stored /\ w.index = u.index /\ w.byParticipant = u.byParticipant
  <2> HIDE DEF stored
  <2> QED
    BY <1>11
<1>13. w.nodes[key] = sample.endpoints
  BY <1>12
<1>14. [e \in Endpoints |-> IF e \in w.nodes[key] THEN key ELSE w.index[e]] = named
  <2>1. \A e \in Endpoints :
           (IF e \in w.nodes[key] THEN key ELSE w.index[e]) = named[e]
    BY <1>8, <1>12, <1>13
  <2> QED
    BY <2>1
<1>15. [w.byParticipant EXCEPT ![key[1]] = @ \cup {key}] = by
  <2>1. [w.byParticipant EXCEPT ![p] = @ \cup {key}] \in [Participants -> SUBSET Keys]
    BY <1>1, <1>8, <1>12
  <2>2. \A q \in Participants : [w.byParticipant EXCEPT ![p] = @ \cup {key}][q] = by[q]
    <3> DEFINE old == w.byParticipant
    <3>1. old \in [Participants -> SUBSET Keys]
      BY <1>8, <1>12
    <3>2. \A q \in Participants : old[q] =
            IF key \in DOMAIN t.nodes THEN t.byParticipant[q] \ {key} ELSE t.byParticipant[q]
      BY <1>8, <1>12
    <3>3. by[p] = t.byParticipant[p] \cup {key}
      OBVIOUS
    <3>4. \A q \in Participants : q # p => by[q] = old[q]
      BY <3>2
    <3>5. old[p] \cup {key} = by[p]
      BY <3>2, <3>3
    <3> HIDE DEF by, old, stored, named
    <3>6. \A q \in Participants : [old EXCEPT ![p] = @ \cup {key}][q] = by[q]
      BY <3>1, <3>4, <3>5
    <3> QED
      BY <3>6 DEF old
  <2> QED
    BY <1>1, <1>6, <2>1, <2>2
<1>16. InsertIndexes(w, key) = [nodes |-> stored, index |-> named, byParticipant |-> by]
  <2> DEFINE i == [e \in Endpoints |-> IF e \in w.nodes[key] THEN key ELSE w.index[e]]
             b == [w.byParticipant EXCEPT ![key[1]] = @ \cup {key}]
  <2>1. InsertIndexes(w, key) = [[w EXCEPT !.index = i] EXCEPT !.byParticipant = b]
    BY <1>11 DEF InsertIndexes
  <2>2. i = named /\ b = by
    BY <1>14, <1>15
  <2> HIDE DEF i, b, named, by, stored
  <2> QED
    BY <1>11, <2>1, <2>2
<1> HIDE DEF stored, named, by
<1>17. UpsertSample(t, p, sample) = [nodes |-> stored, index |-> named, byParticipant |-> by]
  BY <1>9, <1>10, <1>16
<1>18. UpsertSample(t, p, sample) \in NodeTables
  BY <1>4, <1>5, <1>6, <1>17 DEF NodeTables
<1>19. /\ UpsertSample(t, p, sample).nodes = stored
       /\ UpsertSample(t, p, sample).index = named
       /\ UpsertSample(t, p, sample).byParticipant = by
  BY <1>17
<1> QED
  BY <1>18, <1>19 DEF stored, named, by

\* The endpoints of a sample that another node lists are in d.
ClashesIn(t, key, sample, d) ==
    \A k \in DOMAIN t.nodes \ {key} : sample.endpoints \cap t.nodes[k] \subseteq d

\* r is the table t with the sample stored under its key.
IsStored(t, r, key, sample, d) ==
    /\ TableInv(r, d)
    /\ DOMAIN r.nodes = DOMAIN t.nodes \cup {key}
    /\ r.nodes[key] = sample.endpoints
    /\ \A k \in DOMAIN t.nodes \ {key} : r.nodes[k] = t.nodes[k]

\* A stored sample keeps the table consistent, at the price of the endpoints
\* that another node claims as well.
LEMMA UpsertKeeps ==
    ASSUME NEW t, NEW c, NEW d, TableInv(t, c), c \subseteq d,
           NEW p \in Participants, NEW sample \in Samples,
           NEW key, key = <<p, sample.name>>,
           ClashesIn(t, key, sample, d)
    PROVE  IsStored(t, UpsertSample(t, p, sample), key, sample, d)
<1>1. t \in NodeTables
  BY DEF TableInv
<1> DEFINE r == UpsertSample(t, p, sample)
<1>2. /\ r \in NodeTables
      /\ r.nodes = [k \in DOMAIN t.nodes \cup {key} |->
                      IF k = key THEN sample.endpoints ELSE t.nodes[k]]
      /\ r.index = [e \in Endpoints |->
                      IF e \in sample.endpoints THEN key
                      ELSE IF key \in DOMAIN t.nodes /\ e \in t.nodes[key] THEN None
                      ELSE t.index[e]]
      /\ r.byParticipant = [q \in Participants |->
                      IF q = p THEN t.byParticipant[q] \cup {key}
                      ELSE IF key \in DOMAIN t.nodes THEN t.byParticipant[q] \ {key}
                      ELSE t.byParticipant[q]]
  BY <1>1, UpsertForm
<1> HIDE DEF r
<1>3. /\ r \in NodeTables
      /\ DOMAIN r.nodes = DOMAIN t.nodes \cup {key}
      /\ r.nodes[key] = sample.endpoints
      /\ \A k \in DOMAIN t.nodes \ {key} : r.nodes[k] = t.nodes[k]
      /\ \A e \in Endpoints : r.index[e] =
           IF e \in sample.endpoints THEN key
           ELSE IF key \in DOMAIN t.nodes /\ e \in t.nodes[key] THEN None
           ELSE t.index[e]
      /\ \A q \in Participants : r.byParticipant[q] =
           IF q = p THEN t.byParticipant[q] \cup {key}
           ELSE IF key \in DOMAIN t.nodes THEN t.byParticipant[q] \ {key}
           ELSE t.byParticipant[q]
  <2>2. /\ DOMAIN r.nodes = DOMAIN t.nodes \cup {key}
        /\ r.nodes[key] = sample.endpoints
        /\ \A k \in DOMAIN t.nodes \ {key} : r.nodes[k] = t.nodes[k]
    BY <1>2
  <2>3. \A e \in Endpoints : r.index[e] =
           IF e \in sample.endpoints THEN key
           ELSE IF key \in DOMAIN t.nodes /\ e \in t.nodes[key] THEN None
           ELSE t.index[e]
    BY <1>2
  <2>4. \A q \in Participants : r.byParticipant[q] =
           IF q = p THEN t.byParticipant[q] \cup {key}
           ELSE IF key \in DOMAIN t.nodes THEN t.byParticipant[q] \ {key}
           ELSE t.byParticipant[q]
    BY <1>2
  <2> QED
    BY <1>2, <2>2, <2>3, <2>4
<1>4. /\ DOMAIN t.nodes \subseteq Participants \X Names
      /\ \A k \in DOMAIN t.nodes : k[1] \in Participants /\ t.nodes[k] \subseteq Endpoints
  BY <1>1, NodesForm DEF Keys
<1>5. key[1] = p /\ sample.endpoints \subseteq Endpoints
  BY DEF Samples
<1>6. IsFiniteSet(DOMAIN r.nodes)
  BY <1>3, FS_AddElement DEF TableInv
<1>7. ASSUME NEW e \in Endpoints, r.index[e] # None
      PROVE  r.index[e] \in DOMAIN r.nodes /\ e \in r.nodes[r.index[e]]
  <2>1. CASE e \in sample.endpoints
    BY <1>3, <2>1
  <2>2. CASE e \notin sample.endpoints
    <3>1. r.index[e] = t.index[e] /\ ~(key \in DOMAIN t.nodes /\ e \in t.nodes[key])
      BY <1>3, <1>7, <2>2
    <3>2. t.index[e] \in DOMAIN t.nodes /\ e \in t.nodes[t.index[e]]
      BY <1>7, <3>1 DEF TableInv
    <3>3. t.index[e] # key
      BY <3>1, <3>2
    <3> QED
      BY <1>3, <3>1, <3>2, <3>3
  <2> QED
    BY <2>1, <2>2
<1>8. ASSUME NEW k \in DOMAIN r.nodes
      PROVE  k \in r.byParticipant[k[1]]
  <2>1. CASE k = key
    BY <1>3, <1>5, <2>1
  <2>2. CASE k # key
    <3>1. k \in DOMAIN t.nodes /\ k[1] \in Participants
      BY <1>3, <1>4, <2>2
    <3>2. k \in t.byParticipant[k[1]]
      BY <3>1 DEF TableInv
    <3> QED
      BY <1>3, <2>2, <3>1, <3>2
  <2> QED
    BY <2>1, <2>2
<1>9. ASSUME NEW k \in DOMAIN r.nodes, NEW e \in r.nodes[k] \ d
      PROVE  r.index[e] = k
  <2>1. CASE k = key
    BY <1>3, <1>5, <1>9, <2>1
  <2>2. CASE k # key
    <3>1. k \in DOMAIN t.nodes \ {key} /\ e \in t.nodes[k] /\ e \in Endpoints /\ e \notin c
      BY <1>3, <1>4, <1>9, <2>2
    <3>2. e \notin sample.endpoints
      BY <1>9, <3>1 DEF ClashesIn
    <3>3. t.index[e] = k
      BY <3>1 DEF TableInv
    <3>4. ~(key \in DOMAIN t.nodes /\ e \in t.nodes[key])
      BY <2>2, <3>1, <3>3 DEF TableInv
    <3> QED
      BY <1>3, <3>1, <3>2, <3>3, <3>4
  <2> QED
    BY <2>1, <2>2
<1>10. ASSUME NEW q \in Participants, NEW k \in r.byParticipant[q]
       PROVE  k \in DOMAIN r.nodes /\ k[1] = q
  <2>1. CASE k = key /\ q = p
    BY <1>3, <1>5, <2>1
  <2>2. CASE k \in t.byParticipant[q]
    BY <1>3, <2>2 DEF TableInv
  <2>3. k \in t.byParticipant[q] \/ (k = key /\ q = p)
    BY <1>3, <1>10
  <2> QED
    BY <2>1, <2>2, <2>3
<1>11. TableInv(r, d)
  BY <1>3, <1>6, <1>7, <1>8, <1>9, <1>10 DEF TableInv
<1> QED
  BY <1>3, <1>11 DEF r, IsStored

\* What two nodes claim when a participant announces the samples, given the
\* table (Claimed of the module, for any table).
ClaimedIn(t, p, samples) ==
    {e \in Endpoints :
        \/ \E i, j \in DOMAIN samples :
               i # j /\ e \in samples[i].endpoints \cap samples[j].endpoints
        \/ \E i \in DOMAIN samples, k \in DOMAIN t.nodes :
               e \in samples[i].endpoints \cap t.nodes[k] /\ k # <<p, samples[i].name>>}

\* A node list removes the nodes of its participant that it does not name, and
\* stores one sample after the other.
Pruned(t, p, samples) ==
    RemoveNodes(t, t.byParticipant[p] \ {<<p, samples[i].name>> : i \in DOMAIN samples})
TableSteps(f, t, p, samples) ==
    /\ f[0] = Pruned(t, p, samples)
    /\ \A n \in 1 .. Len(samples) : f[n] = UpsertSample(f[n - 1], p, samples[n])
    /\ ReplaceParticipantNodes(t, p, samples) = f[Len(samples)]

\* replace_participant_nodes is what its recursive definition says: there is
\* such a sequence of tables.
LEMMA ReplaceSteps ==
    ASSUME NEW t \in NodeTables, NEW p \in Participants, NEW samples \in Seq(Samples),
           Pruned(t, p, samples) \in NodeTables
    PROVE  \E f : TableSteps(f, t, p, samples)
<1>p. PICK pruned \in NodeTables :
          /\ pruned = Pruned(t, p, samples)
          /\ pruned = RemoveNodes(t, t.byParticipant[p] \
                                      {<<p, samples[i].name>> : i \in DOMAIN samples})
  BY DEF Pruned
<1> USE <1>p
<1> DEFINE N == Len(samples)
           Step(u, n) == UpsertSample(u, p, samples[n])
           G == [x \in Nat \X NodeTables |->
                    IF x[1] + 1 \in 1 .. N THEN Step(x[2], x[1] + 1) ELSE x[2]]
           stale == t.byParticipant[p] \ {<<p, samples[i].name>> : i \in DOMAIN samples}
           Is(g) == g = [n \in 0 .. N |->
                           IF n = 0 THEN RemoveNodes(t, stale)
                                    ELSE UpsertSample(g[n - 1], p, samples[n])]
<1>0. N \in Nat /\ DOMAIN samples = 1 .. N /\ \A n \in 1 .. N : samples[n] \in Samples
  OBVIOUS
<1>1. ASSUME NEW u \in NodeTables, NEW n \in 1 .. N PROVE Step(u, n) \in NodeTables
  BY <1>0, UpsertForm
<1> HIDE DEF Step
<1>2. G \in [Nat \X NodeTables -> NodeTables]
  BY <1>0, <1>1
<1>3. \A x \in Nat \X NodeTables :
          G[x] = IF x[1] + 1 \in 1 .. N THEN Step(x[2], x[1] + 1) ELSE x[2]
  OBVIOUS
<1> HIDE DEF G
<1>4. PICK f \in [Nat -> NodeTables] :
          f[0] = pruned /\ \A n \in Nat : f[n + 1] = G[<<n, f[n]>>]
  <2>1. Iterations(NodeTables, pruned, G) # {}
    BY <1>2, Recursion DEF Turns
  <2> QED
    BY <2>1 DEF Iterations
<1>5. ASSUME NEW n \in 1 .. N PROVE f[n] = UpsertSample(f[n - 1], p, samples[n])
  <2>1. n - 1 \in Nat /\ (n - 1) + 1 = n
    BY <1>0
  <2>2. f[n - 1] \in NodeTables /\ f[(n - 1) + 1] = G[<<n - 1, f[n - 1]>>]
    BY <1>4, <2>1
  <2>3. <<n - 1, f[n - 1]>> \in Nat \X NodeTables
    BY <2>1, <2>2
  <2>4. G[<<n - 1, f[n - 1]>>] = Step(f[n - 1], n)
    BY <1>3, <2>1, <2>3
  <2> QED
    BY <2>1, <2>2, <2>4 DEF Step
<1> DEFINE g == [n \in 0 .. N |-> f[n]]
<1>6. Is(g)
  <2>1. ASSUME NEW n \in 0 .. N
        PROVE  f[n] = IF n = 0 THEN RemoveNodes(t, stale)
                               ELSE UpsertSample(g[n - 1], p, samples[n])
    <3>1. CASE n = 0
      BY <1>4, <3>1
    <3>2. CASE n # 0
      <4>1. n \in 1 .. N /\ n - 1 \in 0 .. N
        BY <1>0, <3>2
      <4>2. g[n - 1] = f[n - 1]
        BY <4>1
      <4> QED
        BY <1>5, <3>2, <4>1, <4>2
    <3> QED
      BY <3>1, <3>2
  <2> QED
    BY <2>1
<1> DEFINE h == CHOOSE x : Is(x)
<1>7. ReplaceParticipantNodes(t, p, samples) = h[N]
  BY DEF ReplaceParticipantNodes
<1> HIDE DEF g, Is
<1>8. Is(h)
  BY <1>6
<1> HIDE DEF h
<1>9. h = [n \in 0 .. N |-> IF n = 0 THEN RemoveNodes(t, stale)
                                   ELSE UpsertSample(h[n - 1], p, samples[n])]
  BY <1>8 DEF Is
<1>10. h[0] = pruned
  BY <1>0, <1>9
<1>11. ASSUME NEW n \in 1 .. N PROVE h[n] = UpsertSample(h[n - 1], p, samples[n])
  <2>1. n \in 0 .. N /\ n # 0
    BY <1>0
  <2> QED
    BY <1>9, <2>1
<1>12. TableSteps(h, t, p, samples)
  BY <1>7, <1>10, <1>11 DEF TableSteps
<1> QED
  BY <1>12

\* replace_participant_nodes keeps the table consistent whatever the samples are:
\* repeated names, endpoints that move between nodes or are listed twice.  Of the
\* participant only the listed nodes remain.
LEMMA ReplaceKeeps ==
    ASSUME NEW t, NEW c, TableInv(t, c), NEW p \in Participants,
           NEW samples, samples \in Seq(Samples),
           NEW d, d = c \cup ClaimedIn(t, p, samples)
    PROVE  /\ TableInv(ReplaceParticipantNodes(t, p, samples), d)
           /\ \A k \in DOMAIN ReplaceParticipantNodes(t, p, samples).nodes :
                  \/ k \in DOMAIN t.nodes /\ k[1] # p
                  \/ \E i \in DOMAIN samples : k = <<p, samples[i].name>>
<1> DEFINE N == Len(samples)
           retained == {<<p, samples[i].name>> : i \in DOMAIN samples}
           stale == t.byParticipant[p] \ retained
<1>0. N \in Nat /\ DOMAIN samples = 1 .. N /\ \A n \in 1 .. N : samples[n] \in Samples
  OBVIOUS
<1>1. t \in NodeTables /\ stale \in SUBSET DOMAIN t.nodes
  BY DEF TableInv
<1>2. PICK pruned : pruned = RemoveNodes(t, stale)
  OBVIOUS
<1>3. /\ TableInv(pruned, c)
      /\ DOMAIN pruned.nodes = DOMAIN t.nodes \ stale
      /\ \A k \in DOMAIN t.nodes \ stale : pruned.nodes[k] = t.nodes[k]
  <2> HIDE DEF stale
  <2> QED
    BY <1>1, <1>2, RemoveKeeps
<1>4. pruned \in NodeTables
  BY <1>3 DEF TableInv
<1>5. PICK f : /\ f[0] = pruned
               /\ \A n \in 1 .. N : f[n] = UpsertSample(f[n - 1], p, samples[n])
               /\ ReplaceParticipantNodes(t, p, samples) = f[N]
  <2>1. pruned = Pruned(t, p, samples)
    BY <1>2 DEF Pruned
  <2>2. t \in NodeTables /\ Pruned(t, p, samples) \in NodeTables
    BY <1>1, <1>4, <2>1
  <2>3. \E f : TableSteps(f, t, p, samples)
    BY <2>2, ReplaceSteps
  <2> QED
    BY <2>1, <2>3 DEF TableSteps
<1> DEFINE Old(u, k) == /\ k \in DOMAIN t.nodes /\ k \notin stale
                        /\ u.nodes[k] = t.nodes[k]
           New(u, k, m) == k = <<p, samples[m].name>> /\ u.nodes[k] = samples[m].endpoints
           Good(u, n) == /\ TableInv(u, d)
                         /\ \A k \in DOMAIN u.nodes :
                                Old(u, k) \/ \E m \in 1 .. n : New(u, k, m)
           T == {n \in Nat : n <= N => Good(f[n], n)}
<1>6. 0 \in T
  <2>1. TableInv(pruned, d)
    <3>1. c \subseteq d
      OBVIOUS
    <3> QED
      BY <1>3, <3>1 DEF TableInv
  <2>2. \A k \in DOMAIN pruned.nodes : Old(pruned, k)
    <3> HIDE DEF stale
    <3> QED
      BY <1>3
  <2> HIDE DEF Old, New
  <2> QED
    BY <1>5, <2>1, <2>2
<1>7. ASSUME NEW n \in Nat, n \in T PROVE n + 1 \in T
  <2>1. SUFFICES ASSUME n + 1 <= N PROVE Good(f[n + 1], n + 1)
    OBVIOUS
  <2>2. n <= N /\ n + 1 \in 1 .. N /\ (n + 1) - 1 = n
    BY <1>0, <2>1
  <2>3. PICK u : u = f[n]
    OBVIOUS
  <2>4. TableInv(u, d)
    BY <1>7, <2>2, <2>3
  <2>5. \A k \in DOMAIN u.nodes : Old(u, k) \/ \E m \in 1 .. n : New(u, k, m)
    BY <1>7, <2>2, <2>3
  <2>6. PICK sample \in Samples : sample = samples[n + 1]
    BY <1>0, <2>2
  <2>7. PICK key : key = <<p, sample.name>>
    OBVIOUS
  <2>8. f[n + 1] = UpsertSample(u, p, sample)
    BY <1>5, <2>2, <2>3, <2>6
  <2>9. ASSUME NEW k \in DOMAIN u.nodes \ {key}, NEW e \in sample.endpoints \cap u.nodes[k]
        PROVE  e \in d
    <3>1. e \in Endpoints
      BY <2>9 DEF Samples
    <3>2. CASE Old(u, k)
      <4>1. e \in samples[n + 1].endpoints \cap t.nodes[k] /\ k \in DOMAIN t.nodes
            /\ k # <<p, samples[n + 1].name>> /\ n + 1 \in DOMAIN samples
        BY <1>0, <2>2, <2>6, <2>7, <2>9, <3>2
      <4>2. e \in ClaimedIn(t, p, samples)
        BY <3>1, <4>1 DEF ClaimedIn
      <4> QED
        BY <4>2
    <3>3. ASSUME NEW m \in 1 .. n, New(u, k, m) PROVE e \in d
      <4>1. e \in samples[n + 1].endpoints \cap samples[m].endpoints
            /\ m # n + 1 /\ m \in DOMAIN samples /\ n + 1 \in DOMAIN samples
        BY <1>0, <2>2, <2>6, <2>9, <3>3
      <4>2. e \in ClaimedIn(t, p, samples)
        BY <3>1, <4>1 DEF ClaimedIn
      <4> QED
        BY <4>2
    <3> HIDE DEF Old, New
    <3> QED
      BY <2>5, <2>9, <3>2, <3>3
  <2>10. ClashesIn(u, key, sample, d)
    BY <2>9 DEF ClashesIn
  <2>11. PICK r : r = UpsertSample(u, p, sample)
    OBVIOUS
  <2>12. /\ TableInv(r, d)
         /\ DOMAIN r.nodes = DOMAIN u.nodes \cup {key}
         /\ r.nodes[key] = sample.endpoints
         /\ \A k \in DOMAIN u.nodes \ {key} : r.nodes[k] = u.nodes[k]
    <3>1. d \subseteq d /\ sample \in Samples
      OBVIOUS
    <3> HIDE DEF Old, New
    <3>2. IsStored(u, UpsertSample(u, p, sample), key, sample, d)
      BY <2>4, <2>7, <2>10, <3>1, UpsertKeeps
    <3> QED
      BY <2>11, <3>2 DEF IsStored
  <2>13. ASSUME NEW k \in DOMAIN r.nodes
         PROVE  Old(r, k) \/ \E m \in 1 .. n + 1 : New(r, k, m)
    <3>1. CASE k = key
      <4>1. New(r, k, n + 1) /\ n + 1 \in 1 .. n + 1
        BY <2>6, <2>7, <2>12, <3>1
      <4> QED
        BY <4>1
    <3>2. CASE k # key
      <4>1. k \in DOMAIN u.nodes /\ r.nodes[k] = u.nodes[k]
        BY <2>12, <2>13, <3>2
      <4>2. CASE Old(u, k)
        BY <4>1, <4>2
      <4>3. ASSUME NEW m \in 1 .. n, New(u, k, m) PROVE New(r, k, m) /\ m \in 1 .. n + 1
        BY <4>1, <4>3
      <4> QED
        BY <2>5, <4>1, <4>2, <4>3
    <3> QED
      BY <3>1, <3>2
  <2> HIDE DEF Old, New
  <2> QED
    BY <2>8, <2>11, <2>12, <2>13
<1> HIDE DEF T
<1>8. Nat \subseteq T
  BY <1>6, <1>7, Induction
<1>9. Good(f[N], N)
  <2> HIDE DEF Good
  <2> QED
    BY <1>0, <1>8 DEF T
<1>10. ASSUME NEW k \in DOMAIN f[N].nodes
       PROVE  \/ k \in DOMAIN t.nodes /\ k[1] # p
              \/ \E i \in DOMAIN samples : k = <<p, samples[i].name>>
  <2>1. CASE Old(f[N], k)
    <3>1. k[1] = p => k \in t.byParticipant[p]
      BY <2>1 DEF TableInv
    <3> QED
      BY <2>1, <3>1
  <2>2. ASSUME NEW m \in 1 .. N, New(f[N], k, m)
        PROVE  \E i \in DOMAIN samples : k = <<p, samples[i].name>>
    BY <1>0, <2>2
  <2> QED
    BY <1>9, <2>1, <2>2
<1> QED
  BY <1>5, <1>9, <1>10

----------------------------------------------------------------------------
(* The snapshot.                                                           *)

\* The snapshot is a function of the tables.
LEMMA ViewOfSources ==
    ASSUME endpoints' = endpoints, table' = table, remote' = remote
    PROVE  View' = View
<1>1. \A e : EndpointNode(e)' = EndpointNode(e)
  BY DEF EndpointNode
<1>2. NodeNames' = NodeNames
  BY DEF NodeNames
<1>3. \A n : NodeEndpoints(n)' = NodeEndpoints(n)
  BY DEF NodeEndpoints
<1>4. \A n : NodeDetails(n)' = NodeDetails(n)
  BY <1>3 DEF NodeDetails
<1>5. \A e : EndpointInfo(e)' = EndpointInfo(e)
  BY <1>1 DEF EndpointInfo
<1>6. \A m : LocalOnly(m)' = LocalOnly(m)
  BY DEF LocalOnly
<1>7. Topics' = Topics
  <2> DEFINE shown == {e \in endpoints : Wire[e].prefix \in {"rt", ""} /\ IsTopicEndpoint(e)}
             Members(w) == {e \in shown : WireTopic(e) = w}
             Shown(w) == [name |-> w[2],
                          publishers |-> {EndpointInfo(e) : e \in Members(w) \ Readers},
                          subscriptions |-> {EndpointInfo(e) : e \in Members(w) \cap Readers},
                          localOnly |-> LocalOnly(Members(w))]
  <2>1. shown' = shown
    OBVIOUS
  <2>2. Topics = {Shown(w) : w \in {WireTopic(e) : e \in shown}}
    BY DEF Topics
  <2>2a. Topics' = {Shown(w)' : w \in {WireTopic(e) : e \in shown'}}
    BY DEF Topics
  <2> HIDE DEF shown
  <2>3. \A w : Members(w)' = Members(w)
    BY <2>1
  <2> HIDE DEF Members
  <2>4. ASSUME NEW w PROVE Shown(w)' = Shown(w)
    <3>1. LocalOnly(Members(w))' = LocalOnly(Members(w))
      BY <2>3 DEF LocalOnly
    <3>2. {EndpointInfo(e) : e \in Members(w) \ Readers}' =
          {EndpointInfo(e) : e \in Members(w) \ Readers}
      BY <1>5, <2>3
    <3>3. {EndpointInfo(e) : e \in Members(w) \cap Readers}' =
          {EndpointInfo(e) : e \in Members(w) \cap Readers}
      BY <1>5, <2>3
    <3> QED
      BY <3>1, <3>2, <3>3
  <2> HIDE DEF Shown
  <2> QED
    BY <2>1, <2>2, <2>2a, <2>4
<1>8. Actions' = Actions
  BY <1>1 DEF Actions
<1> QED
  BY <1>2, <1>4, <1>7, <1>8 DEF View

\* The snapshot of empty tables is the initial one.
LEMMA ViewOfNothing ==
    ASSUME endpoints = {}, table = EmptyTable
    PROVE  View = [nodeDetails |-> {}, services |-> {}, topics |-> {}, actions |-> {},
                   dds |-> FALSE]
<1>1. table.nodes = << >> /\ DOMAIN table.nodes = {}
  BY DEF EmptyTable
<1>2. NodeNames = {}
  BY <1>1 DEF NodeNames
<1>3. Topics = {}
  BY DEF Topics
<1>4. Actions = {}
  BY DEF Actions
<1>5. {NodeDetails(n) : n \in NodeNames} = {}
  BY <1>2
<1>6. UNION {d.servers \cup d.clients : d \in {NodeDetails(n) : n \in NodeNames}} = {}
  BY <1>5
<1>7. (endpoints # {} \/ table.nodes # << >>) = FALSE
  BY <1>1
<1> QED
  BY <1>3, <1>4, <1>5, <1>6, <1>7 DEF View

----------------------------------------------------------------------------
(* The inductive invariant.                                                *)

\* The snapshot is that of the tables, or a rebuild is due before the burst
\* ends.
Fresh == /\ dirty \/ published = View
         /\ burst = 0 => ~dirty

\* remote_participants has forgotten only those whom a sweep dropped.
RemoteKnown == heardRemote \subseteq remote \cup expired /\ expired \cap participants = {}

\* Types, the consistent table, nodes that follow their participants, known
\* remote participants, and a fresh snapshot.
GraphInv ==
    /\ participants \subseteq Participants /\ endpoints \subseteq Endpoints
    /\ remote \subseteq Participants
    /\ burst \in 0 .. MaxBurst /\ dirty \in BOOLEAN
    /\ TableInv(table, contested)
    /\ NodesFollowParticipants
    /\ RemoteKnown
    /\ Fresh

\* From the assumptions.
LEMMA BurstBound == MaxBurst \in Nat
BY GraphAssumptions DEF GraphAssumptions

\* The empty tables satisfy the invariant.
LEMMA InitGraphInv == Init => GraphInv
<1> SUFFICES ASSUME Init PROVE GraphInv
  OBVIOUS
<1>1. table = EmptyTable /\ contested = {}
  BY DEF Init
<1>2. table.nodes = << >> /\ DOMAIN table.nodes = {}
  BY <1>1 DEF EmptyTable
<1>3. table \in NodeTables
  <2>1. {} \in SUBSET Keys
    OBVIOUS
  <2>2. << >> \in [{} -> SUBSET Endpoints]
    OBVIOUS
  <2>3. << >> \in UNION {[E -> SUBSET Endpoints] : E \in SUBSET Keys}
    BY <2>1, <2>2, IsNodes
  <2>4. [e \in Endpoints |-> None] \in [Endpoints -> Keys \cup {None}]
    OBVIOUS
  <2>5. [p \in Participants |-> {}] \in [Participants -> SUBSET Keys]
    OBVIOUS
  <2> QED
    BY <1>1, <2>3, <2>4, <2>5 DEF EmptyTable, NodeTables
<1>4. /\ \A e \in Endpoints : table.index[e] = None
      /\ \A p \in Participants : table.byParticipant[p] = {}
  BY <1>1 DEF EmptyTable
<1>5. IsFiniteSet(DOMAIN table.nodes)
  BY <1>2, FS_EmptySet
<1>6. TableInv(table, contested)
  BY <1>2, <1>3, <1>4, <1>5 DEF TableInv
<1>7. Fresh
  BY ViewOfNothing DEF Init, Fresh
<1>8. NodesFollowParticipants /\ RemoteKnown
  BY <1>2 DEF Init, NodesFollowParticipants, RemoteKnown
<1> QED
  <2>1. 0 \in 0 .. MaxBurst
    BY BurstBound
  <2> QED
    BY <1>6, <1>7, <1>8, <2>1 DEF Init, GraphInv

\* What leaves the sources alone, or asks for a rebuild, keeps the snapshot fresh.
LEMMA HandleKeepsFresh ==
    ASSUME Fresh, burst \in Nat, dirty \in BOOLEAN, Handle, UNCHANGED published,
           dirty' = TRUE \/ (dirty' = dirty /\ UNCHANGED <<endpoints, table, remote>>)
    PROVE  Fresh'
<1>1. burst' # 0
  BY DEF Handle
<1>2. CASE dirty' = TRUE
  BY <1>1, <1>2 DEF Fresh
<1>3. CASE dirty' = dirty /\ UNCHANGED <<endpoints, table, remote>>
  <2>1. View' = View
    BY <1>3, ViewOfSources
  <2> QED
    BY <1>1, <1>3, <2>1 DEF Fresh
<1> QED
  BY <1>2, <1>3

\* Every step keeps the invariant.
LEMMA StepGraphInv == GraphInv /\ [Next]_vars => GraphInv'
<1> SUFFICES ASSUME GraphInv, [Next]_vars PROVE GraphInv'
  OBVIOUS
<1>a. /\ participants \subseteq Participants /\ endpoints \subseteq Endpoints
      /\ remote \subseteq Participants
      /\ burst \in 0 .. MaxBurst /\ burst \in Nat /\ MaxBurst \in Nat /\ dirty \in BOOLEAN
      /\ TableInv(table, contested)
      /\ RemoteKnown
      /\ Fresh
      /\ \A k \in DOMAIN table.nodes : k[1] \in participants \cup orphans
  BY BurstBound DEF GraphInv, NodesFollowParticipants
<1>b. Handle => burst' \in 0 .. MaxBurst
  BY <1>a DEF Handle
<1>1. ASSUME NEW p \in Participants, NEW source \in Sources[p], Spdp(p, source)
      PROVE  GraphInv'
  <2>1. /\ participants' \subseteq Participants /\ endpoints' = endpoints
        /\ remote' \subseteq Participants /\ RemoteKnown'
        /\ dirty' \in BOOLEAN /\ burst' \in 0 .. MaxBurst
        /\ table' = table /\ contested' = contested /\ orphans' = orphans
        /\ participants \subseteq participants'
    BY <1>1, <1>a, <1>b DEF Spdp, Heard, RemoteKnown
  <2>2. Fresh'
    BY <1>1, <1>a, HandleKeepsFresh DEF Spdp
  <2> QED
    BY <1>a, <2>1, <2>2 DEF GraphInv, NodesFollowParticipants
<1>2. ASSUME NEW p \in Participants, DisposeParticipant(p)
      PROVE  GraphInv'
  <2>1. /\ participants' = participants \ {p} /\ endpoints' \subseteq Endpoints
        /\ remote' = remote /\ RemoteKnown'
        /\ dirty' = TRUE /\ burst' \in 0 .. MaxBurst
        /\ contested' = contested /\ orphans' = orphans \ {p}
    BY <1>2, <1>a, <1>b DEF DisposeParticipant, RemoteKnown
  <2>2. Fresh'
    BY <1>2, <1>a, HandleKeepsFresh DEF DisposeParticipant
  <2>3. table' = ReplaceParticipantNodes(table, p, << >>)
    BY <1>2 DEF DisposeParticipant
  <2>4. << >> \in Seq(Samples) /\ DOMAIN << >> = {}
    OBVIOUS
  <2>5. contested = contested \cup ClaimedIn(table, p, << >>)
    BY <2>4 DEF ClaimedIn
  <2>6. /\ TableInv(table', contested)
        /\ \A k \in DOMAIN table'.nodes : k \in DOMAIN table.nodes /\ k[1] # p
    BY <1>a, <2>3, <2>4, <2>5, ReplaceKeeps
  <2> QED
    BY <1>a, <2>1, <2>2, <2>6 DEF GraphInv, NodesFollowParticipants
<1>3. ASSUME NEW p \in Participants, NEW info \in Infos[p], DiscoveryInfo(p, info)
      PROVE  GraphInv'
  <2>1. /\ participants' = participants /\ endpoints' = endpoints
        /\ remote' = remote /\ RemoteKnown'
        /\ dirty' = TRUE /\ burst' \in 0 .. MaxBurst
        /\ contested' = contested \cup Claimed(p, info)
        /\ orphans' = orphans \cup ({p} \ participants)
        /\ table' = ReplaceParticipantNodes(table, p, info)
    BY <1>3, <1>a, <1>b DEF DiscoveryInfo, RemoteKnown
  <2>2. Fresh'
    BY <1>3, <1>a, HandleKeepsFresh DEF DiscoveryInfo
  <2>3. info \in Seq(Samples)
    BY GraphAssumptions
  <2>4. contested' = contested \cup ClaimedIn(table, p, info)
    BY <2>1 DEF Claimed, ClaimedIn
  <2>5. /\ TableInv(table', contested')
        /\ \A k \in DOMAIN table'.nodes :
               \/ k \in DOMAIN table.nodes /\ k[1] # p
               \/ \E i \in DOMAIN info : k = <<p, info[i].name>>
    BY <1>a, <2>1, <2>3, <2>4, ReplaceKeeps
  <2>6. \A k \in DOMAIN table'.nodes : k[1] \in participants \cup orphans'
    BY <1>a, <2>1, <2>5
  <2> QED
    BY <1>a, <2>1, <2>2, <2>5, <2>6 DEF GraphInv, NodesFollowParticipants
<1>4. ASSUME NEW e \in Endpoints, Sedp(e)
      PROVE  GraphInv'
  <2>1. /\ participants' = participants /\ endpoints' \subseteq Endpoints
        /\ remote' = remote /\ RemoteKnown'
        /\ dirty' = TRUE /\ burst' \in 0 .. MaxBurst
        /\ table' = table /\ contested' = contested /\ orphans' = orphans
    BY <1>4, <1>a, <1>b DEF Sedp, RemoteKnown
  <2>2. Fresh'
    BY <1>4, <1>a, HandleKeepsFresh DEF Sedp
  <2> QED
    BY <1>a, <2>1, <2>2 DEF GraphInv, NodesFollowParticipants
<1>5. ASSUME NEW e \in Endpoints, DisposeEndpoint(e)
      PROVE  GraphInv'
  <2>1. /\ participants' = participants /\ endpoints' \subseteq Endpoints
        /\ remote' = remote /\ RemoteKnown'
        /\ dirty' \in BOOLEAN /\ burst' \in 0 .. MaxBurst
        /\ table' = table /\ contested' = contested /\ orphans' = orphans
        /\ published' = published
    BY <1>5, <1>a, <1>b DEF DisposeEndpoint, RemoteKnown
  <2>2. \/ dirty' = TRUE
        \/ dirty' = dirty /\ endpoints' = endpoints
    BY <1>5, <1>a DEF DisposeEndpoint
  <2>3. Handle
    BY <1>5 DEF DisposeEndpoint
  <2>4. Fresh'
    BY <1>a, <2>1, <2>2, <2>3, HandleKeepsFresh
  <2>5. TableInv(table', contested') /\ NodesFollowParticipants'
    BY <1>a, <2>1 DEF NodesFollowParticipants
  <2> QED
    BY <1>a, <2>1, <2>4, <2>5 DEF GraphInv
<1>6. CASE EndDrain
  <2>1. /\ UNCHANGED <<participants, endpoints, table, remote, contested, orphans>>
        /\ RemoteKnown'
        /\ published' = IF dirty THEN View ELSE published
        /\ burst' = 0 /\ dirty' = FALSE
    BY <1>6, <1>a DEF EndDrain, sources, RemoteKnown
  <2>2. View' = View
    BY <2>1, ViewOfSources
  <2>3. published' = View'
    BY <1>a, <2>1, <2>2 DEF Fresh
  <2>4. Fresh'
    BY <2>1, <2>3 DEF Fresh
  <2>5. TableInv(table', contested') /\ NodesFollowParticipants'
    BY <1>a, <2>1 DEF NodesFollowParticipants
  <2>6. burst' \in 0 .. MaxBurst /\ dirty' \in BOOLEAN
    <3>1. burst' = 0 /\ dirty' = FALSE
      BY <2>1, Zenon
    <3>2. burst' \in 0 .. MaxBurst
      BY <3>1, BurstBound
    <3>3. dirty' \in BOOLEAN
      BY <3>1
    <3> QED
      BY <3>2, <3>3
  <2> QED
    BY <1>a, <2>1, <2>4, <2>5, <2>6 DEF GraphInv
<1>7. ASSUME NEW gone \in SUBSET participants, NEW goneEnds \in SUBSET endpoints,
             Sweep(gone, goneEnds)
      PROVE  GraphInv'
  <2> DEFINE keys == UNION {table.byParticipant[p] : p \in gone}
  <2>1. /\ participants' = participants \ gone /\ endpoints' \subseteq Endpoints
        /\ remote' = remote \ gone /\ RemoteKnown'
        /\ orphans' = orphans \ gone
        /\ dirty' = dirty /\ burst' = burst /\ burst = 0
        /\ contested' = contested /\ published' = View'
        /\ table' = DropNodes(table, gone)
    BY <1>7, <1>a DEF Sweep, RemoteKnown
  <2>2. Fresh'
    BY <1>a, <2>1 DEF Fresh
  <2>3. keys \in SUBSET DOMAIN table.nodes
    BY <1>a DEF TableInv
  <2>4. \A k \in DOMAIN table.nodes : k[1] \in gone => k \in keys
    BY <1>a DEF TableInv
  <2>5. table' = RemoveNodes(table, keys)
    BY <2>1 DEF DropNodes
  <2> HIDE DEF keys
  <2>6. /\ TableInv(table', contested)
        /\ DOMAIN table'.nodes = DOMAIN table.nodes \ keys
    BY <1>a, <2>3, <2>5, RemoveKeeps
  <2>7. \A k \in DOMAIN table'.nodes : k[1] \in participants' \cup orphans'
    BY <1>a, <2>1, <2>4, <2>6
  <2> QED
    BY <1>a, <2>1, <2>2, <2>6, <2>7 DEF GraphInv, NodesFollowParticipants
<1>8. CASE UNCHANGED vars
  <2>1. /\ UNCHANGED <<participants, endpoints, table, remote, burst, dirty, published,
                       contested, orphans>>
        /\ RemoteKnown'
    BY <1>8, <1>a DEF vars, sources, RemoteKnown
  <2>2. View' = View
    BY <2>1, ViewOfSources
  <2>3. Fresh'
    BY <1>a, <2>1, <2>2 DEF Fresh
  <2> QED
    BY <1>a, <2>1, <2>3 DEF GraphInv, NodesFollowParticipants
<1> QED
  BY <1>1, <1>2, <1>3, <1>4, <1>5, <1>6, <1>7, <1>8 DEF Next

\* The inductive invariant holds after any sequence of announcements, node lists,
\* disposals, bursts and sweeps.
THEOREM GraphInvariant == Spec => []GraphInv
<1>1. Init => GraphInv
  BY InitGraphInv
<1>2. GraphInv /\ [Next]_vars => GraphInv'
  BY StepGraphInv
<1> QED
  BY <1>1, <1>2, PTL DEF Spec

----------------------------------------------------------------------------
(* The theorems.                                                           *)

\* The invariant implies the properties of the run, one after the other.
LEMMA NodeTableFollows == GraphInv => NodeTableExact
<1> SUFFICES ASSUME GraphInv PROVE NodeTableExact
  OBVIOUS
<1>1. TableInv(table, contested) /\ table \in NodeTables
  BY DEF GraphInv, TableInv
<1>2. /\ DOMAIN table.nodes \subseteq Keys
      /\ \A k \in DOMAIN table.nodes : table.nodes[k] \in SUBSET Endpoints
      /\ table.index \in [Endpoints -> Keys \cup {None}]
      /\ table.byParticipant \in [Participants -> SUBSET Keys]
  BY <1>1, NodesForm
<1>3. table.index \in [Endpoints -> DOMAIN table.nodes \cup {None}]
  BY <1>1, <1>2 DEF TableInv
<1>4. table.byParticipant \in [Participants -> SUBSET DOMAIN table.nodes]
  <2>1. \A p \in Participants : table.byParticipant[p] \in SUBSET DOMAIN table.nodes
    BY <1>1 DEF TableInv
  <2> QED
    BY <1>2, <2>1
<1>5. TypeOK
  BY <1>2, <1>3, <1>4 DEF GraphInv, TypeOK
<1>6. NodeIndexExact
  BY <1>1 DEF NodeIndexExact, TableInv
<1> QED
  BY <1>5, <1>6 DEF GraphInv, NodeTableExact

\* Outside a burst nothing is dirty.
LEMMA SnapshotFollows == GraphInv => SnapshotFresh
BY DEF GraphInv, Fresh, SnapshotFresh

\* A node that endpoint_node names lists the endpoint, or is the only node of
\* the endpoint's participant.
LEMMA EndpointNodeIsRight ==
    ASSUME GraphInv, NEW e \in Endpoints, EndpointNode(e) # None
    PROVE  LET k == EndpointNode(e)
           IN  /\ k \in DOMAIN table.nodes
               /\ \/ e \in table.nodes[k]
                  \/ \A j \in DOMAIN table.nodes : j[1] = Owner[e] => j = k
<1>1. TableInv(table, contested) /\ table \in NodeTables
  BY DEF GraphInv, TableInv
<1>2. DOMAIN table.nodes \subseteq Keys /\ None \notin Keys /\ Owner[e] \in Participants
  BY <1>1, NodesForm, GraphAssumptions DEF GraphAssumptions
<1> DEFINE siblings == table.byParticipant[Owner[e]] \cap DOMAIN table.nodes
<1>3. IsFiniteSet(siblings)
  BY <1>1, FS_Subset DEF TableInv
<1>4. CASE table.index[e] \in DOMAIN table.nodes
  <2>1. EndpointNode(e) = table.index[e]
    BY <1>4 DEF EndpointNode
  <2>2. table.index[e] # None
    BY <1>2, <1>4
  <2> QED
    BY <1>1, <2>1, <2>2 DEF TableInv
<1>5. CASE table.index[e] \notin DOMAIN table.nodes
  <2>1. Cardinality(siblings) = 1 /\ EndpointNode(e) = CHOOSE k \in siblings : TRUE
    BY <1>5 DEF EndpointNode
  <2> HIDE DEF siblings
  <2>2. PICK k : siblings = {k}
    BY <1>3, <2>1, FS_Singleton
  <2>3. EndpointNode(e) = k
    BY <2>1, <2>2
  <2>4. k \in DOMAIN table.nodes
    BY <2>2 DEF siblings
  <2>5. ASSUME NEW j \in DOMAIN table.nodes, j[1] = Owner[e] PROVE j = k
    <3>1. j \in siblings
      BY <1>1, <2>5 DEF TableInv, siblings
    <3> QED
      BY <2>2, <3>1
  <2> QED
    BY <2>3, <2>4, <2>5
<1> QED
  BY <1>4, <1>5

\* An endpoint that is neither part of an action nor of a service has no request
\* or reply prefix.
LEMMA TopicsAreNamed ==
    ASSUME NEW e \in Endpoints, IsRosName(e), IsTopicEndpoint(e)
    PROVE  Wire[e].prefix \in {"rt", ""}
<1>1. Wire[e].prefix \in {"rt", "rq", "rr", "", "other"}
  BY GraphAssumptions DEF GraphAssumptions
<1>2. Wire[e].action = "none" /\ Wire[e].kind # "srv" /\ Wire[e].prefix # "other"
  BY DEF IsRosName, IsTopicEndpoint, IsAction, IsService
<1>3. Wire[e].prefix \notin {"rq", "rr"}
  BY <1>2, NamingConvention DEF NamingConvention
<1> QED
  BY <1>1, <1>2, <1>3

\* The two parts of ViewsAgree, of the view itself.
LEMMA TopicNodesAreListed ==
    ASSUME GraphInv, NEW t \in Topics, NEW i \in t.publishers \cup t.subscriptions,
           i.node # None
    PROVE  \/ \E d \in {NodeDetails(n) : n \in NodeNames} :
                  d.name = i.node[2] /\ t.name \in d.publishers \cup d.subscribers
           \/ \A k \in DOMAIN table.nodes : k[1] = Owner[i.endpoint] => k = i.node
<1> DEFINE shown == {e \in endpoints : Wire[e].prefix \in {"rt", ""} /\ IsTopicEndpoint(e)}
           Members(w) == {e \in shown : WireTopic(e) = w}
           Shown(w) == [name |-> w[2],
                        publishers |-> {EndpointInfo(e) : e \in Members(w) \ Readers},
                        subscriptions |-> {EndpointInfo(e) : e \in Members(w) \cap Readers},
                        localOnly |-> LocalOnly(Members(w))]
<1>1. PICK w : t = Shown(w)
  BY DEF Topics
<1>2. PICK e \in Members(w) : i = EndpointInfo(e)
  <2>1. /\ t.publishers = {EndpointInfo(e) : e \in Members(w) \ Readers}
        /\ t.subscriptions = {EndpointInfo(e) : e \in Members(w) \cap Readers}
    <3> HIDE DEF Members
    <3> QED
      BY <1>1
  <2> QED
    BY <2>1
<1>3. t.name = w[2]
  <2> HIDE DEF Members
  <2> QED
    BY <1>1
<1>4. /\ e \in endpoints /\ e \in Endpoints /\ IsTopicEndpoint(e) /\ IsRosName(e)
      /\ w = WireTopic(e)
  BY DEF GraphInv, IsRosName
<1>5. i.node = EndpointNode(e) /\ i.endpoint = e
  BY <1>2 DEF EndpointInfo
<1>6. t.name = TopicName(e)
  BY <1>3, <1>4 DEF WireTopic
<1> HIDE DEF Members, Shown, shown
<1>7. PICK k : k = EndpointNode(e)
  OBVIOUS
<1>8. k \in DOMAIN table.nodes
      /\ (e \in table.nodes[k] \/ \A j \in DOMAIN table.nodes : j[1] = Owner[e] => j = k)
  BY <1>4, <1>5, <1>7, EndpointNodeIsRight
<1>9. CASE e \in table.nodes[k]
  <2>1. k[2] \in NodeNames
    BY <1>8 DEF NodeNames
  <2>2. e \in NodeEndpoints(k[2])
    BY <1>4, <1>8, <1>9 DEF NodeEndpoints
  <2>3. NodeDetails(k[2]).name = k[2]
    BY DEF NodeDetails
  <2>4. TopicName(e) \in NodeDetails(k[2]).publishers \cup NodeDetails(k[2]).subscribers
    <3> DEFINE topics == {s \in {x \in NodeEndpoints(k[2]) : IsRosName(x) /\ ~IsAction(x)} :
                             ~IsService(s)}
    <3>1. e \in topics
      BY <1>4, <2>2 DEF IsTopicEndpoint
    <3>2. /\ NodeDetails(k[2]).publishers = {TopicName(s) : s \in topics \ Readers}
          /\ NodeDetails(k[2]).subscribers = {TopicName(s) : s \in topics \cap Readers}
      BY DEF NodeDetails
    <3> HIDE DEF topics
    <3> QED
      BY <3>1, <3>2
  <2> QED
    BY <1>5, <1>6, <1>7, <2>1, <2>3, <2>4
<1>10. CASE \A j \in DOMAIN table.nodes : j[1] = Owner[e] => j = k
  BY <1>5, <1>7, <1>10
<1> QED
  BY <1>8, <1>9, <1>10

\* A topic that a node lists is in the topic list.
LEMMA NodeTopicsAreListed ==
    ASSUME GraphInv, NEW n \in NodeNames
    PROVE  NodeDetails(n).publishers \cup NodeDetails(n).subscribers
             \subseteq {t.name : t \in Topics}
<1> DEFINE topics == {s \in {x \in NodeEndpoints(n) : IsRosName(x) /\ ~IsAction(x)} :
                         ~IsService(s)}
<1>1. /\ NodeDetails(n).publishers = {TopicName(s) : s \in topics \ Readers}
      /\ NodeDetails(n).subscribers = {TopicName(s) : s \in topics \cap Readers}
  BY DEF NodeDetails
<1>2. ASSUME NEW e \in topics PROVE TopicName(e) \in {t.name : t \in Topics}
  <2>1. e \in endpoints /\ e \in Endpoints /\ IsRosName(e) /\ IsTopicEndpoint(e)
    BY DEF NodeEndpoints, GraphInv, IsTopicEndpoint
  <2>2. Wire[e].prefix \in {"rt", ""}
    BY <2>1, TopicsAreNamed
  <2> DEFINE shown == {s \in endpoints : Wire[s].prefix \in {"rt", ""} /\ IsTopicEndpoint(s)}
             Members(w) == {s \in shown : WireTopic(s) = w}
             Shown(w) == [name |-> w[2],
                          publishers |-> {EndpointInfo(s) : s \in Members(w) \ Readers},
                          subscriptions |-> {EndpointInfo(s) : s \in Members(w) \cap Readers},
                          localOnly |-> LocalOnly(Members(w))]
  <2>3. e \in shown
    BY <2>1, <2>2
  <2>4. Topics = {Shown(w) : w \in {WireTopic(s) : s \in shown}}
    BY DEF Topics
  <2>5. Shown(WireTopic(e)).name = TopicName(e)
    <3> HIDE DEF Members
    <3> QED
      BY DEF WireTopic
  <2> HIDE DEF shown, Shown
  <2> QED
    BY <2>3, <2>4, <2>5
<1> HIDE DEF topics
<1> QED
  BY <1>1, <1>2

\* Both directions, for the published snapshot.
LEMMA ViewsFollow == GraphInv => ViewsAgree
<1> SUFFICES ASSUME GraphInv, burst = 0 PROVE ViewsAgree
  BY DEF ViewsAgree
<1>1. published = View
  BY DEF GraphInv, Fresh
<1>2. /\ published.topics = Topics
      /\ published.nodeDetails = {NodeDetails(n) : n \in NodeNames}
  BY <1>1 DEF View
<1>3. ASSUME NEW t \in published.topics, NEW i \in t.publishers \cup t.subscriptions,
             i.node # None
      PROVE  \/ \E d \in published.nodeDetails :
                    /\ d.name = i.node[2]
                    /\ t.name \in d.publishers \cup d.subscribers
             \/ \A k \in DOMAIN table.nodes : k[1] = Owner[i.endpoint] => k = i.node
  <2>1. t \in Topics
    BY <1>2
  <2>2. \/ \E d \in {NodeDetails(n) : n \in NodeNames} :
               d.name = i.node[2] /\ t.name \in d.publishers \cup d.subscribers
        \/ \A k \in DOMAIN table.nodes : k[1] = Owner[i.endpoint] => k = i.node
    BY <1>3, <2>1, TopicNodesAreListed
  <2> QED
    BY <1>2, <2>2
<1>4. ASSUME NEW d \in published.nodeDetails
      PROVE  d.publishers \cup d.subscribers \subseteq {t.name : t \in published.topics}
  <2>1. PICK n \in NodeNames : d = NodeDetails(n)
    BY <1>2
  <2> QED
    BY <1>2, <2>1, NodeTopicsAreListed
<1> QED
  BY <1>3, <1>4 DEF ViewsAgree

\* A topic in the view that is shown as local has no endpoint whose participant
\* is remote.
LEMMA LocalTopics ==
    ASSUME NEW t \in Topics, t.localOnly, NEW i \in t.publishers \cup t.subscriptions
    PROVE  Owner[i.endpoint] \notin remote
<1> DEFINE shown == {e \in endpoints : Wire[e].prefix \in {"rt", ""} /\ IsTopicEndpoint(e)}
           Members(w) == {e \in shown : WireTopic(e) = w}
           Shown(w) == [name |-> w[2],
                        publishers |-> {EndpointInfo(e) : e \in Members(w) \ Readers},
                        subscriptions |-> {EndpointInfo(e) : e \in Members(w) \cap Readers},
                        localOnly |-> LocalOnly(Members(w))]
<1>1. PICK w : t = Shown(w)
  BY DEF Topics
<1> HIDE DEF Members
<1>2. /\ t.publishers = {EndpointInfo(e) : e \in Members(w) \ Readers}
      /\ t.subscriptions = {EndpointInfo(e) : e \in Members(w) \cap Readers}
      /\ t.localOnly = LocalOnly(Members(w))
  BY <1>1
<1>3. PICK e \in Members(w) : i = EndpointInfo(e)
  BY <1>2
<1>4. i.endpoint = e
  BY <1>3 DEF EndpointInfo
<1>5. LocalOnly(Members(w))
  BY <1>2
<1> QED
  BY <1>4, <1>5 DEF LocalOnly

\* remote_participants holds everybody who was heard from another host and has
\* not expired.
LEMMA LocalFollows == GraphInv => LocalOnlySound
<1> SUFFICES ASSUME GraphInv, burst = 0, NEW t \in published.topics, t.localOnly,
                    NEW i \in t.publishers \cup t.subscriptions
             PROVE  Owner[i.endpoint] \in heardRemote => Owner[i.endpoint] \in expired
  BY DEF LocalOnlySound
<1>1. t \in Topics
  BY DEF GraphInv, Fresh, View
<1>2. Owner[i.endpoint] \notin remote
  BY <1>1, LocalTopics
<1> QED
  BY <1>2 DEF GraphInv, RemoteKnown

\* The node table and both indexes agree with each other and with the
\* participants after any sequence of node lists (NodeTable), disposals and
\* sweeps.
THEOREM NodeTableIsExact == Spec => []NodeTableExact
BY GraphInvariant, NodeTableFollows, PTL

\* Between bursts list and info commands read the tables as they are
\* (drain_capture_events, discovery_sweep).
THEOREM SnapshotIsFresh == Spec => []SnapshotFresh
BY GraphInvariant, SnapshotFollows, PTL

\* Topics and nodes of the snapshot agree (refresh_from_discovery).
THEOREM ViewsAlwaysAgree == Spec => []ViewsAgree
BY GraphInvariant, ViewsFollow, PTL

\* A topic with an endpoint heard from another host is shown as local only
\* after a sweep dropped the endpoint's participant (topic_details_from_view,
\* handle_rtps_event, discovery_sweep).
THEOREM LocalOnlyIsSound == Spec => []LocalOnlySound
BY GraphInvariant, LocalFollows, PTL
=============================================================================
