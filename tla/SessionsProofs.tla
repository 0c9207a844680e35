--------------------------- MODULE SessionsProofs ---------------------------
(***************************************************************************)
(* Proofs about Sessions, for any number of clients, connections, topics   *)
(* and scenarios.                                                          *)
(***************************************************************************)
EXTENDS Sessions, FiniteSetTheorems, SequenceTheorems, TLAPS

----------------------------------------------------------------------------
(* The invariant.                                                          *)

Procs == Clients \cup {Monitor, Recorder}

\* The request a process waits for, by its phase.
CallOf(ph) ==
    CASE ph = "starting" -> "start" [] ph = "polling" -> "status"
      [] ph = "pausing" -> "pause" [] ph = "stopping" -> "stop" [] OTHER -> "none"

\* An answer that suits the request.
Fits(req, reply) ==
    /\ reply \in Replies
    /\ reply.outcome = "ok" => IF req.kind = "panel" THEN reply.val \in Panel
                               ELSE reply.val \in SessionType \cup {None}
    /\ reply.outcome = "ok" /\ req.op = "start" => reply.val # None

\* A connection whose caller, if it still waits, waits for this request.
CallOK(c) ==
    /\ c.stage \in {"replied", "answered"} => Fits(c.req, c.reply)
    /\ c.owner \in Clients => c.req.kind = Kind[c.owner] /\ c.req.op = CallOf(phase[c.owner])
    /\ c.owner = Recorder => c.req.kind = "bag"
    /\ c.owner = Monitor => IF worker.todo = <<>> THEN c.req = Status("panel")
                            ELSE c.req = Head(worker.todo)

\* Each caller waits for one call, the one it made.
CallsInv ==
    /\ \A s, r \in Slots : /\ conns[s] # None /\ conns[r] # None
                           /\ conns[s].owner # None /\ conns[s].owner = conns[r].owner
                           => s = r
    /\ \A s \in Slots : conns[s] # None => CallOK(conns[s])

\* Only those who take part act.
Present ==
    /\ \A c \in Clients : phase[c] # "absent" => c \in scenario.procs
    /\ Monitor \notin scenario.procs =>
           inbox = <<>> /\ worker.todo = <<>> /\ worker.active = None
    /\ Recorder \notin scenario.procs => page.inbox = <<>>

\* The inductive invariant.
SessionInv == TypeOK /\ CallsInv /\ Present /\ HandlersExact /\ FilterFollows

----------------------------------------------------------------------------
(* The calls.                                                              *)

\* A call takes a free connection.
LEMMA IssueForm ==
    ASSUME NEW p, NEW req, Issue(p, req)
    PROVE  /\ Calls(p) = {}
           /\ \E s \in Slots :
                  /\ conns[s] = None
                  /\ conns' = [conns EXCEPT ![s] = [stage |-> "connected", owner |-> p,
                                                    req |-> req, reply |-> None]]
<1> DEFINE s == CHOOSE s \in Slots : conns[s] = None
<1>1. s \in Slots /\ conns[s] = None
  BY DEF Issue
<1>2. conns' = [conns EXCEPT ![s] = [stage |-> "connected", owner |-> p,
                                     req |-> req, reply |-> None]]
  BY DEF Issue
<1> HIDE DEF s
<1> QED
  BY <1>1, <1>2 DEF Issue

\* The processes, kinds and connections are told apart.
LEMMA Sorts ==
    /\ Clients \subseteq Procs /\ Monitor \in Procs /\ Recorder \in Procs
    /\ Monitor \notin Clients /\ Recorder \notin Clients /\ Recorder # Monitor
    /\ None \notin Procs /\ None \notin Topics /\ None \notin Slots
    /\ None \notin SessionType /\ None \notin Connection
    /\ \A c \in Clients : Kind[c] \in Kinds /\ Topic[c] \in Topics
    /\ \A x \in Scenarios : x.procs \subseteq Procs /\ x.faults \subseteq Faults /\ x.inputs \in Nat
BY SessionAssumptions DEF Procs

\* What HandlersExact says of a connection and the runtime's channel q.
Waits(s) == conns[s] # None /\ conns[s].stage = "waiting"
Matched(q, s) ==
    /\ Waits(s) => \E i \in DOMAIN q : /\ q[i].slot = s /\ q[i].req = conns[s].req
                                       /\ \A j \in DOMAIN q : q[j].slot = s => j = i
    /\ ~Waits(s) => \A j \in DOMAIN q : q[j].slot # s

\* Every connection, and the count of the handlers.
AllMatched == \A s \in Slots : Matched(queue, s)
Counted == inFlight = Cardinality(Handlers) /\ inFlight <= MaxInFlight

\* HandlersExact says this of every connection.
LEMMA MatchedAll == HandlersExact <=> Counted /\ AllMatched
<1> DEFINE Own(s) == {i \in DOMAIN queue : queue[i].slot = s}
           Has(s) == \E i \in Own(s) : Own(s) = {i} /\ queue[i].req = conns[s].req
<1>1. ASSUME NEW s \in Slots
      PROVE  (IF Waits(s) THEN Has(s) ELSE Own(s) = {}) <=> Matched(queue, s)
  <2>1. Own(s) = {} <=> \A j \in DOMAIN queue : queue[j].slot # s
    OBVIOUS
  <2>2. Has(s) <=> \E i \in DOMAIN queue : /\ queue[i].slot = s /\ queue[i].req = conns[s].req
                                           /\ \A j \in DOMAIN queue : queue[j].slot = s => j = i
    OBVIOUS
  <2> HIDE DEF Own, Has
  <2> QED
    BY <2>1, <2>2 DEF Matched
<1>2. HandlersExact <=> /\ inFlight = Cardinality(Handlers) /\ inFlight <= MaxInFlight
                        /\ \A s \in Slots : IF Waits(s) THEN Has(s) ELSE Own(s) = {}
  BY DEF HandlersExact, Waits
<1> HIDE DEF Own, Has
<1> QED
  BY <1>1, <1>2 DEF Counted, AllMatched

\* The same after a step.
LEMMA MatchedNext == HandlersExact' <=> Counted' /\ AllMatched'
BY MatchedAll, PTL

\* A step that no handler takes part in.
LEMMA HandlersKept ==
    ASSUME HandlersExact, UNCHANGED <<inFlight, queue>>,
           \A s \in Slots : /\ s \in Handlers' <=> s \in Handlers
                            /\ Waits(s)' <=> Waits(s)
                            /\ Waits(s) => conns'[s].req = conns[s].req
    PROVE  HandlersExact'
<1>1. Handlers' = Handlers
  BY DEF Handlers
<1>2. \A s \in Slots : Matched(queue, s)
  BY MatchedAll DEF AllMatched
<1>3. \A s \in Slots : Matched(queue, s)'
  <2> SUFFICES ASSUME NEW s \in Slots PROVE Matched(queue, s)'
    OBVIOUS
  <2>1. Matched(queue, s) /\ (Waits(s)' <=> Waits(s)) /\ (Waits(s) => conns'[s].req = conns[s].req)
    BY <1>2
  <2> QED
    BY <2>1 DEF Matched
<1>4. inFlight = Cardinality(Handlers) /\ inFlight <= MaxInFlight
  BY DEF HandlersExact
<1>5. inFlight' = Cardinality(Handlers') /\ inFlight' <= MaxInFlight
  BY <1>1, <1>4
<1> QED
  BY <1>3, <1>5, MatchedNext DEF Counted, AllMatched

\* The part of the invariant that only looks at the connections.
ConnsTyped ==
    /\ conns \in [Slots -> Connection \cup {None}]
    /\ \A s \in Slots : conns[s] # None =>
           /\ conns[s].stage = "answered" => conns[s].owner # None
           /\ conns[s].owner \in scenario.procs \cup {None}

\* Each caller has one call.
OneCall ==
    \A s, r \in Slots : /\ conns[s] # None /\ conns[r] # None
                        /\ conns[s].owner # None /\ conns[s].owner = conns[r].owner
                        => s = r

\* A new call.
LEMMA IssueKeeps ==
    ASSUME ConnsTyped, OneCall, HandlersExact, NEW p \in Procs, p \in scenario.procs,
           NEW req \in Requests, Issue(p, req), UNCHANGED <<scenario, inFlight, queue>>
    PROVE  /\ ConnsTyped' /\ OneCall' /\ HandlersExact'
           /\ \A s \in Slots : conns[s] # None => conns[s].owner # p
           /\ \A s \in Slots : conns'[s] # None =>
                  \/ conns[s] # None /\ conns'[s] = conns[s]
                  \/ conns'[s] = [stage |-> "connected", owner |-> p, req |-> req, reply |-> None]
<1> DEFINE new == [stage |-> "connected", owner |-> p, req |-> req, reply |-> None]
<1>1. PICK n \in Slots : conns[n] = None /\ conns' = [conns EXCEPT ![n] = new]
  BY IssueForm
<1>2. \A s \in Slots : conns[s] # None => conns[s].owner # p
  BY IssueForm DEF Calls
<1>3. new \in Connection /\ new # None /\ new.owner = p /\ new.stage = "connected" /\ p # None
  BY Sorts DEF Connection, Procs
<1>4. \A s \in Slots : conns'[s] = IF s = n THEN new ELSE conns[s]
  BY <1>1 DEF ConnsTyped
<1>5. conns' \in [Slots -> Connection \cup {None}]
  BY <1>1, <1>3 DEF ConnsTyped
<1> HIDE DEF new
<1>6. ConnsTyped'
  BY <1>3, <1>4, <1>5 DEF ConnsTyped
<1>7. OneCall'
  BY <1>2, <1>3, <1>4 DEF OneCall
<1>8. HandlersExact'
  <2>1. ASSUME NEW s \in Slots
        PROVE  /\ s \in Handlers' <=> s \in Handlers
               /\ Waits(s)' <=> Waits(s)
               /\ Waits(s) => conns'[s].req = conns[s].req
    <3>1. CASE s = n
      BY <1>1, <1>3, <1>4, <3>1 DEF Handlers, Waits
    <3>2. CASE s # n
      BY <1>4, <3>2 DEF Handlers, Waits
    <3> QED
      BY <3>1, <3>2
  <2> QED
    BY <2>1, HandlersKept
<1> QED
  BY <1>2, <1>4, <1>6, <1>7, <1>8 DEF new

\* The calls of p are closed or, where a handler is at work, left to it.
Drops(p) ==
    /\ conns' = [s \in Slots |-> conns'[s]]
    /\ \A s \in Slots :
        \/ conns'[s] = conns[s] /\ (conns[s] # None => conns[s].owner # p)
        \/ conns[s] # None /\ conns[s].stage = "answered" /\ conns'[s] = None
        \/ /\ conns[s] # None /\ conns[s].stage # "answered"
           /\ conns'[s] = [conns[s] EXCEPT !.owner = None]

\* A client that leaves.
LEMMA AbandonDrops ==
    ASSUME NEW p, conns' = Abandon(p) PROVE Drops(p)
BY DEF Abandon, Drops, Calls

\* A call that ends, with the answer or without.
LEMMA ReturnsDrops ==
    ASSUME NEW p \in Procs, NEW out, ConnsTyped, OneCall, Returns(p, out)
    PROVE  /\ Drops(p)
           /\ \/ /\ UNCHANGED faults
                 /\ \E s \in Calls(p) : conns[s].stage = "answered" /\ out = conns[s].reply
              \/ out = Failed /\ Strikes("giveup")
<1>1. CASE \E s \in Calls(p) : /\ conns[s].stage = "answered" /\ out = conns[s].reply
                               /\ conns' = [conns EXCEPT ![s] = None] /\ UNCHANGED faults
  <2>1. PICK n \in Calls(p) : /\ conns[n].stage = "answered" /\ out = conns[n].reply
                              /\ conns' = [conns EXCEPT ![n] = None] /\ UNCHANGED faults
    BY <1>1
  <2>2. n \in Slots /\ conns[n] # None /\ conns[n].owner = p /\ p # None
    BY Sorts DEF Calls
  <2>3. \A s \in Slots : conns'[s] = IF s = n THEN None ELSE conns[s]
    BY <2>1 DEF ConnsTyped
  <2>4. Drops(p)
    BY <2>1, <2>2, <2>3 DEF Drops, ConnsTyped, OneCall
  <2> QED
    BY <2>1, <2>4
<1>2. CASE out = Failed /\ Strikes("giveup") /\ conns' = Abandon(p)
  BY <1>2, AbandonDrops
<1> QED
  BY <1>1, <1>2 DEF Returns

\* What is left of the calls then.
LEMMA DropsKeeps ==
    ASSUME ConnsTyped, OneCall, HandlersExact, NEW p \in Procs, Drops(p),
           UNCHANGED <<scenario, inFlight, queue>>
    PROVE  /\ ConnsTyped' /\ OneCall' /\ HandlersExact'
           /\ \A s \in Slots : conns'[s] # None =>
                  /\ conns[s] # None /\ conns'[s].owner # p
                  /\ conns'[s].owner \in {conns[s].owner, None}
                  /\ conns'[s].stage = conns[s].stage /\ conns'[s].req = conns[s].req
                  /\ conns'[s].reply = conns[s].reply
<1>a. \A s \in Slots : conns[s] # None => /\ conns[s] \in Connection
                                          /\ [conns[s] EXCEPT !.owner = None] \in Connection
  BY DEF ConnsTyped, Connection
<1>b. p # None /\ None \notin Connection
  BY Sorts
<1>1. ASSUME NEW s \in Slots, conns'[s] # None
      PROVE  /\ conns[s] # None /\ conns'[s].owner # p
             /\ conns'[s].owner \in {conns[s].owner, None}
             /\ conns'[s].stage = conns[s].stage /\ conns'[s].req = conns[s].req
             /\ conns'[s].reply = conns[s].reply
             /\ conns'[s] \in Connection
             /\ conns[s].stage = "answered" => conns'[s].owner = conns[s].owner
  <2>1. conns[s] # None /\ conns[s] \in Connection
    BY <1>1, <1>a DEF Drops
  <2>2. CASE conns'[s] = conns[s] /\ (conns[s] # None => conns[s].owner # p)
    BY <1>1, <2>1, <2>2
  <2>3. CASE conns[s].stage # "answered" /\ conns'[s] = [conns[s] EXCEPT !.owner = None]
    BY <1>1, <1>a, <1>b, <2>1, <2>3 DEF Connection
  <2> QED
    BY <1>1, <2>1, <2>2, <2>3 DEF Drops
<1>2. conns' \in [Slots -> Connection \cup {None}]
  BY <1>1 DEF Drops
<1>3. ConnsTyped'
  BY <1>1, <1>2 DEF ConnsTyped
<1>4. OneCall'
  BY <1>1 DEF OneCall
<1>5. HandlersExact'
  <2>1. ASSUME NEW s \in Slots
        PROVE  /\ s \in Handlers' <=> s \in Handlers
               /\ Waits(s)' <=> Waits(s)
               /\ Waits(s) => conns'[s].req = conns[s].req
    <3>1. conns'[s] # None /\ conns[s] # None => conns'[s].stage = conns[s].stage
                                                 /\ conns'[s].req = conns[s].req
      BY <1>1
    <3>2. conns'[s] # None => conns[s] # None
      BY <1>1
    <3>3. conns[s] # None /\ conns[s].stage # "answered" => conns'[s] # None
      <4>1. ASSUME conns[s] # None PROVE [conns[s] EXCEPT !.owner = None] # None
        BY <1>a, <1>b, <4>1
      <4> QED
        BY <4>1 DEF Drops
    <3> QED
      BY <3>1, <3>2, <3>3 DEF Handlers, Waits
  <2> QED
    BY <2>1, HandlersKept
<1> QED
  BY <1>1, <1>3, <1>4, <1>5

----------------------------------------------------------------------------
(* The command server and the runtime.                                     *)

\* The runtime's channel.
Queued == queue \in Seq([slot : Slots \cup {None}, req : Requests])

\* What a step of theirs does to a connection: it may close it, or take it to
\* the next stage with an answer that suits the request.
Advances ==
    /\ conns' \in [Slots -> Connection \cup {None}]
    /\ \A r \in Slots : conns'[r] # None =>
           /\ conns[r] # None /\ conns'[r].req = conns[r].req
           /\ conns'[r].owner = conns[r].owner
           /\ conns'[r].stage = "answered" => conns'[r].owner # None
           /\ conns'[r].stage \in {"replied", "answered"} =>
                  \/ conns[r].stage \in {"replied", "answered"} /\ conns'[r].reply = conns[r].reply
                  \/ Fits(conns'[r].req, conns'[r].reply)

\* What becomes of the calls then.
LEMMA AdvancesKeeps ==
    ASSUME ConnsTyped, OneCall, Advances, UNCHANGED scenario
    PROVE  ConnsTyped' /\ OneCall'
BY DEF ConnsTyped, OneCall, Advances

\* What may become of a connection.
Follows(s, c) ==
    c # None => /\ c \in Connection /\ c.req = conns[s].req /\ c.owner = conns[s].owner
                /\ c.stage = "answered" => c.owner # None
                /\ c.stage \in {"replied", "answered"} =>
                       \/ conns[s].stage \in {"replied", "answered"} /\ c.reply = conns[s].reply
                       \/ Fits(c.req, c.reply)

\* One connection changes.
LEMMA AdvancesOne ==
    ASSUME ConnsTyped, NEW s \in Slots, conns[s] # None, NEW c,
           conns' = [conns EXCEPT ![s] = c],
           Follows(s, c)
    PROVE  /\ Advances
           /\ \A r \in Slots : conns'[r] = IF r = s THEN c ELSE conns[r]
<1>1. \A r \in Slots : conns'[r] = IF r = s THEN c ELSE conns[r]
  BY DEF ConnsTyped
<1>2. conns' \in [Slots -> Connection \cup {None}]
  BY DEF ConnsTyped, Follows
<1>3. \A r \in Slots : conns[r] # None /\ conns[r].stage = "answered" => conns[r].owner # None
  BY DEF ConnsTyped
<1> QED
  BY <1>1, <1>2, <1>3 DEF Advances, Follows

\* An error suits every request.
LEMMA ErrorsFit == \A req : Fits(req, Error) /\ Fits(req, Failed)
BY DEF Fits, Error, Failed, Reply, Replies

\* There are finitely many handlers.
LEMMA HandlersFinite == IsFiniteSet(Handlers) /\ Cardinality(Handlers) \in Nat
<1>1. Handlers \in SUBSET Slots
  BY DEF Handlers
<1>2. IsFiniteSet(Handlers)
  BY <1>1, SessionAssumptions, FS_Subset
<1> QED
  BY <1>2, FS_CardinalityType

\* A handler starts, goes on, or ends.
LEMMA HandlerStarts ==
    ASSUME Counted, NEW s, s \notin Handlers, Handlers' = Handlers \cup {s},
           inFlight < MaxInFlight, inFlight' = inFlight + 1
    PROVE  Counted'
<1> DEFINE H == Handlers
<1>1. IsFiniteSet(H) /\ Cardinality(H) \in Nat
  BY HandlersFinite
<1>2. s \notin H
  OBVIOUS
<1> HIDE DEF H
<1>3. Cardinality(H \cup {s}) = Cardinality(H) + 1
  BY <1>1, <1>2, FS_AddElement
<1>4. Cardinality(Handlers') = Cardinality(H) + 1
  BY <1>3 DEF H
<1> QED
  BY <1>1, <1>4, BoundAssumption DEF Counted, H

\* A handler that ends.
LEMMA HandlerEnds ==
    ASSUME Counted, NEW s, s \in Handlers, Handlers' = Handlers \ {s}, inFlight' = inFlight - 1
    PROVE  Counted'
<1> DEFINE H == Handlers
<1>1. IsFiniteSet(H) /\ Cardinality(H) \in Nat
  BY HandlersFinite
<1>2. s \in H
  OBVIOUS
<1> HIDE DEF H
<1>3. Cardinality(H \ {s}) = Cardinality(H) - 1
  BY <1>1, <1>2, FS_RemoveElement
<1>4. Cardinality(Handlers') = Cardinality(H) - 1
  BY <1>3 DEF H
<1> QED
  BY <1>1, <1>4, BoundAssumption DEF Counted, H

\* What writing the response makes of a connection.
LEMMA WrittenForm ==
    ASSUME ConnsTyped, NEW s \in Slots, conns[s] # None, NEW reply \in Replies
    PROVE  \/ Written(s, reply) = None
           \/ /\ conns[s].owner # None
              /\ Written(s, reply) \in Connection /\ Written(s, reply) # None
              /\ Written(s, reply).req = conns[s].req
              /\ Written(s, reply).owner = conns[s].owner
              /\ Written(s, reply).stage = "answered" /\ Written(s, reply).reply = reply
<1>1. conns[s] \in Connection
  BY DEF ConnsTyped
<1>2. CASE conns[s].owner = None
  BY <1>2 DEF Written
<1>3. CASE conns[s].owner # None
  <2>1. Written(s, reply) = [conns[s] EXCEPT !.stage = "answered", !.reply = reply]
    BY <1>3 DEF Written
  <2>2. Written(s, reply) \in Connection
    BY <1>1, <2>1 DEF Connection
  <2> QED
    BY <1>1, <1>3, <2>1, <2>2, Sorts DEF Connection
<1> QED
  BY <1>2, <1>3

\* The server's steps: a connection is admitted or told the server is busy, ...
LEMMA AcceptKeeps ==
    ASSUME ConnsTyped, OneCall, HandlersExact, Queued, NEW s \in Slots, Accept(s)
    PROVE  HandlersExact' /\ Queued' /\ Advances
<1>1. conns[s] # None /\ conns[s].stage = "connected" /\ conns[s] \in Connection
      /\ Counted /\ AllMatched
  BY MatchedAll DEF Accept, ConnsTyped
<1>2. CASE inFlight < MaxInFlight /\ inFlight' = inFlight + 1
           /\ conns' = [conns EXCEPT ![s].stage = "reading"]
  <2> DEFINE c == [conns[s] EXCEPT !.stage = "reading"]
  <2>1. c \in Connection /\ c.req = conns[s].req /\ c.owner = conns[s].owner
        /\ c.stage = "reading"
    BY <1>1 DEF Connection
  <2>2. conns' = [conns EXCEPT ![s] = c] /\ c # None
    BY <1>2, <2>1, Sorts
  <2> HIDE DEF c
  <2>f. Follows(s, c)
    BY <2>1 DEF Follows
  <2>3. Advances /\ \A r \in Slots : conns'[r] = IF r = s THEN c ELSE conns[r]
    BY <1>1, <2>2, <2>f, AdvancesOne
  <2>4. Counted'
    <3>1. s \notin Handlers /\ Handlers' = Handlers \cup {s}
      BY <1>1, <2>1, <2>2, <2>3 DEF Handlers
    <3> QED
      BY <1>1, <1>2, <3>1, HandlerStarts
  <2>5. AllMatched'
    BY <1>1, <2>1, <2>2, <2>3 DEF Accept, AllMatched, Matched, Waits
  <2> QED
    BY <2>3, <2>4, <2>5, MatchedNext DEF Accept, Queued
<1>3. ASSUME NEW busy \in {Error, Failed}, conns' = [conns EXCEPT ![s] = Written(s, busy)],
             UNCHANGED inFlight
      PROVE  HandlersExact' /\ Queued' /\ Advances
  <2> DEFINE c == Written(s, busy)
  <2>1. busy \in Replies /\ Fits(conns[s].req, busy)
    BY ErrorsFit DEF Fits
  <2>2. c = None \/ /\ conns[s].owner # None /\ c \in Connection /\ c.req = conns[s].req
                    /\ c.owner = conns[s].owner /\ c.stage = "answered" /\ c.reply = busy
    BY <1>1, <2>1, WrittenForm
  <2>3. conns' = [conns EXCEPT ![s] = c]
    BY <1>3
  <2> HIDE DEF c
  <2>f. Follows(s, c)
    BY <2>1, <2>2 DEF Follows
  <2>4. Advances /\ \A r \in Slots : conns'[r] = IF r = s THEN c ELSE conns[r]
    BY <1>1, <2>3, <2>f, AdvancesOne
  <2>5. HandlersExact'
    <3>1. ASSUME NEW r \in Slots
          PROVE  /\ r \in Handlers' <=> r \in Handlers
                 /\ Waits(r)' <=> Waits(r)
                 /\ Waits(r) => conns'[r].req = conns[r].req
      BY <1>1, <2>2, <2>4 DEF Handlers, Waits
    <3> QED
      BY <1>3, <3>1, HandlersKept DEF Accept
  <2> QED
    BY <2>4, <2>5 DEF Accept, Queued
<1> QED
  BY <1>2, <1>3 DEF Accept

\* ... its request is handed to the runtime, or cannot be read, ...
LEMMA HandleClientKeeps ==
    ASSUME ConnsTyped, OneCall, HandlersExact, Queued, NEW s \in Slots, HandleClient(s)
    PROVE  HandlersExact' /\ Queued' /\ Advances
<1>1. conns[s] # None /\ conns[s].stage = "reading" /\ conns[s] \in Connection
      /\ Counted /\ AllMatched
  BY MatchedAll DEF HandleClient, ConnsTyped
<1>2. CASE conns' = [conns EXCEPT ![s].stage = "waiting"] /\ UNCHANGED inFlight
           /\ queue' = Append(queue, [slot |-> s, req |-> conns[s].req])
  <2> DEFINE c == [conns[s] EXCEPT !.stage = "waiting"]
             m == [slot |-> s, req |-> conns[s].req]
  <2>1. c \in Connection /\ c.req = conns[s].req /\ c.owner = conns[s].owner
        /\ c.stage = "waiting"
    BY <1>1 DEF Connection
  <2>2. conns' = [conns EXCEPT ![s] = c] /\ c # None
    BY <1>2, <2>1, Sorts
  <2> HIDE DEF c
  <2>f. Follows(s, c)
    BY <2>1 DEF Follows
  <2>3. Advances /\ \A r \in Slots : conns'[r] = IF r = s THEN c ELSE conns[r]
    BY <1>1, <2>2, <2>f, AdvancesOne
  <2>4. Counted'
    <3>1. Handlers' = Handlers
      BY <1>1, <2>1, <2>2, <2>3 DEF Handlers
    <3> QED
      BY <1>1, <1>2, <3>1 DEF Counted
  <2>5. m \in [slot : Slots \cup {None}, req : Requests] /\ m.slot = s /\ m.req = conns[s].req
    BY <1>1 DEF Connection
  <2>6. queue' = Append(queue, m)
    BY <1>2
  <2> HIDE DEF m
  <2>7. /\ Queued' /\ Len(queue) \in Nat /\ DOMAIN queue = 1 .. Len(queue)
        /\ DOMAIN queue' = 1 .. Len(queue) + 1 /\ queue'[Len(queue) + 1] = m
        /\ \A i \in 1 .. Len(queue) : queue'[i] = queue[i]
    BY <2>5, <2>6, AppendProperties, LenProperties DEF Queued
  <2>8. AllMatched'
    <3> SUFFICES ASSUME NEW r \in Slots PROVE Matched(queue, r)'
      BY DEF AllMatched
    <3>1. Matched(queue, r)
      BY <1>1 DEF AllMatched
    <3>2. CASE r = s
      <4>1. Waits(r)' /\ conns'[r].req = m.req /\ ~Waits(r)
        BY <1>1, <2>1, <2>2, <2>3, <2>5, <3>2 DEF Waits
      <4>2. \A j \in DOMAIN queue : queue[j].slot # s
        BY <3>1, <3>2, <4>1 DEF Matched
      <4> QED
        BY <2>5, <2>7, <3>2, <4>1, <4>2 DEF Matched
    <3>3. CASE r # s
      <4>1. (Waits(r)' <=> Waits(r)) /\ conns'[r] = conns[r]
        BY <2>3, <3>3 DEF Waits
      <4>2. CASE Waits(r)
        <5>1. PICK i \in DOMAIN queue : /\ queue[i].slot = r /\ queue[i].req = conns[r].req
                                        /\ \A j \in DOMAIN queue : queue[j].slot = r => j = i
          BY <3>1, <4>2 DEF Matched
        <5>2. i \in DOMAIN queue' /\ queue'[i] = queue[i]
          BY <2>7
        <5>3. \A j \in DOMAIN queue' : queue'[j].slot = r => j = i
          BY <2>5, <2>7, <3>3, <5>1
        <5> QED
          BY <4>1, <4>2, <5>1, <5>2, <5>3 DEF Matched
      <4>3. CASE ~Waits(r)
        <5>1. \A j \in DOMAIN queue' : queue'[j].slot # r
          BY <2>5, <2>7, <3>1, <3>3, <4>3 DEF Matched
        <5> QED
          BY <4>1, <4>3, <5>1 DEF Matched
      <4> QED
        BY <4>2, <4>3
    <3> QED
      BY <3>2, <3>3
  <2> QED
    BY <2>3, <2>4, <2>7, <2>8, MatchedNext
<1>3. CASE conns[s].owner = None /\ conns' = [conns EXCEPT ![s] = None]
           /\ inFlight' = inFlight - 1 /\ UNCHANGED queue
  <2>1. Advances /\ \A r \in Slots : conns'[r] = IF r = s THEN None ELSE conns[r]
    <3>1. PICK c : c = None
      OBVIOUS
    <3>2. Follows(s, c) /\ conns' = [conns EXCEPT ![s] = c]
      BY <1>3, <3>1 DEF Follows
    <3>3. Advances /\ \A r \in Slots : conns'[r] = IF r = s THEN c ELSE conns[r]
      BY <1>1, <3>2, AdvancesOne
    <3> QED
      BY <3>1, <3>3
  <2>2. Counted'
    <3>1. s \in Handlers /\ Handlers' = Handlers \ {s}
      BY <1>1, <2>1 DEF Handlers
    <3> QED
      BY <1>1, <1>3, <3>1, HandlerEnds
  <2>3. AllMatched'
    BY <1>1, <1>3, <2>1 DEF AllMatched, Matched, Waits
  <2> QED
    BY <1>3, <2>1, <2>2, <2>3, MatchedNext DEF Queued
<1> QED
  BY <1>2, <1>3 DEF HandleClient

\* A function on 1 .. n is a sequence.
LEMMA FunctionIsSeq == ASSUME NEW S, NEW n \in Nat, NEW f \in [1 .. n -> S] PROVE f \in Seq(S)
BY SeqDef

\* ... the handler stops waiting for the runtime, ...
LEMMA CommandTimeoutKeeps ==
    ASSUME ConnsTyped, OneCall, HandlersExact, Queued, NEW s \in Slots, CommandTimeout(s)
    PROVE  HandlersExact' /\ Queued' /\ Advances
<1> DEFINE d == [conns[s] EXCEPT !.stage = "replied", !.reply = Error]
           q == [i \in DOMAIN queue |->
                    IF queue[i].slot = s THEN [queue[i] EXCEPT !.slot = None] ELSE queue[i]]
<1>1. /\ conns[s] # None /\ conns[s].stage = "waiting" /\ conns[s] \in Connection
      /\ Counted /\ AllMatched /\ conns' = [conns EXCEPT ![s] = d] /\ queue' = q
      /\ UNCHANGED inFlight
  BY MatchedAll DEF CommandTimeout, ConnsTyped
<1>2. d \in Connection /\ d.req = conns[s].req /\ d.owner = conns[s].owner
      /\ d.stage = "replied" /\ d.reply = Error
  BY <1>1, ErrorsFit DEF Connection, Fits
<1> DEFINE c == d
<1>3. Follows(s, c) /\ c # None
  BY <1>2, ErrorsFit, Sorts DEF Follows
<1>4. Len(queue) \in Nat /\ DOMAIN queue = 1 .. Len(queue)
      /\ \A i \in DOMAIN queue : queue[i] \in [slot : Slots \cup {None}, req : Requests]
  BY LenProperties, ElementOfSeq DEF Queued
<1>5. DOMAIN q = DOMAIN queue
      /\ \A i \in DOMAIN queue : /\ q[i] \in [slot : Slots \cup {None}, req : Requests]
                                 /\ q[i].slot = IF queue[i].slot = s THEN None ELSE queue[i].slot
                                 /\ q[i].req = queue[i].req
  BY <1>4
<1> HIDE DEF d, q
<1>6. Queued'
  <2>1. q \in [1 .. Len(queue) -> [slot : Slots \cup {None}, req : Requests]]
    <3>1. q = [i \in 1 .. Len(queue) |-> q[i]]
      BY <1>4 DEF q
    <3> QED
      BY <1>4, <1>5, <3>1
  <2>2. q \in Seq([slot : Slots \cup {None}, req : Requests])
    BY <1>4, <2>1, FunctionIsSeq
  <2> QED
    BY <1>1, <2>2 DEF Queued
<1>7. Advances /\ \A r \in Slots : conns'[r] = IF r = s THEN c ELSE conns[r]
  BY <1>1, <1>3, AdvancesOne
<1>8. Counted'
  <2>1. Handlers' = Handlers
    BY <1>1, <1>2, <1>3, <1>7 DEF Handlers
  <2> QED
    BY <1>1, <2>1 DEF Counted
<1>9. AllMatched'
  <2> SUFFICES ASSUME NEW r \in Slots PROVE Matched(queue, r)'
    BY DEF AllMatched
  <2>1. Matched(queue, r) /\ s # None
    BY <1>1, Sorts DEF AllMatched
  <2>2. CASE r = s
    <3>1. ~Waits(r)'
      BY <1>2, <1>7, <2>2 DEF Waits
    <3>2. \A j \in DOMAIN queue' : queue'[j].slot # r
      BY <1>1, <1>5, <2>1, <2>2
    <3> QED
      BY <3>1, <3>2 DEF Matched
  <2>3. CASE r # s
    <3>1. (Waits(r)' <=> Waits(r)) /\ conns'[r] = conns[r]
      BY <1>7, <2>3 DEF Waits
    <3>2. \A j \in DOMAIN queue : (queue'[j].slot = r <=> queue[j].slot = r)
                                  /\ queue'[j].req = queue[j].req
      BY <1>1, <1>5, <2>3, Sorts
    <3>3. DOMAIN queue' = DOMAIN queue
      BY <1>1, <1>5
    <3> QED
      BY <2>1, <3>1, <3>2, <3>3 DEF Matched
  <2> QED
    BY <2>2, <2>3
<1> QED
  BY <1>6, <1>7, <1>8, <1>9, MatchedNext

\* ... and answers.
LEMMA RespondKeeps ==
    ASSUME ConnsTyped, OneCall, HandlersExact, Queued, NEW s \in Slots, Respond(s),
           CallOK(conns[s])
    PROVE  HandlersExact' /\ Queued' /\ Advances
<1> DEFINE c == Written(s, conns[s].reply)
<1>1. /\ conns[s] # None /\ conns[s].stage = "replied" /\ conns[s] \in Connection
      /\ Counted /\ AllMatched /\ conns' = [conns EXCEPT ![s] = c] /\ UNCHANGED queue
      /\ inFlight' = inFlight - 1
  BY MatchedAll DEF Respond, ConnsTyped
<1>2. conns[s].reply \in Replies
  BY <1>1 DEF CallOK, Fits
<1>3. c = None \/ /\ conns[s].owner # None /\ c \in Connection /\ c.req = conns[s].req
                  /\ c.owner = conns[s].owner /\ c.stage = "answered"
                  /\ c.reply = conns[s].reply
  BY <1>1, <1>2, WrittenForm
<1> HIDE DEF c
<1>4. Follows(s, c)
  BY <1>1, <1>3 DEF Follows
<1>5. Advances /\ \A r \in Slots : conns'[r] = IF r = s THEN c ELSE conns[r]
  BY <1>1, <1>4, AdvancesOne
<1>6. Counted'
  <2>1. s \in Handlers /\ Handlers' = Handlers \ {s}
    BY <1>1, <1>3, <1>5 DEF Handlers
  <2> QED
    BY <1>1, <2>1, HandlerEnds
<1>7. AllMatched'
  <2>1. ~Waits(s) /\ ~Waits(s)'
    BY <1>1, <1>3, <1>5 DEF Waits
  <2> QED
    BY <1>1, <1>5, <2>1 DEF AllMatched, Matched, Waits
<1> QED
  BY <1>1, <1>5, <1>6, <1>7, MatchedNext DEF Queued

\* The runtime's answer suits the request.
LEMMA ReplyFits ==
    ASSUME sessions \in [Kinds -> SessionType \cup {None}], NEW req \in Requests,
           NEW fails \in BOOLEAN
    PROVE  /\ SessionsAfter(req, fails) \in [Kinds -> SessionType \cup {None}]
           /\ Fits(req, ReplyTo(req, fails))
<1>a. /\ req.op \in {"start", "stop", "status", "pause"} /\ req.kind \in Kinds \cup {"panel"}
      /\ req.topic \in Topics \cup {None} /\ req.flag \in BOOLEAN
      /\ req.op = "start" => req.topic \in Topics
      /\ req.kind = "panel" => req.op = "status"
      /\ req.op = "pause" => req.kind = "bag"
      /\ "panel" \notin Kinds /\ "bag" \in Kinds
  BY DEF Requests, Kinds
<1> DEFINE after == SessionsAfter(req, fails)
<1>1. after \in [Kinds -> SessionType \cup {None}]
  <2>1. CASE req.op = "start" /\ ~Refused(req) /\ ~fails
    <3>1. [topic |-> req.topic, flag |-> req.flag] \in SessionType
      BY <1>a, <2>1 DEF SessionType
    <3> QED
      BY <1>a, <2>1, <3>1 DEF SessionsAfter
  <2>2. CASE req.op = "stop"
    BY <1>a, <2>2 DEF SessionsAfter
  <2>3. CASE req.op = "pause" /\ sessions["bag"] # None
    <3>1. sessions["bag"] \in SessionType
      BY <1>a, <2>3
    <3>2. [sessions["bag"] EXCEPT !.flag = req.flag] \in SessionType
      BY <1>a, <3>1 DEF SessionType
    <3> QED
      BY <1>a, <2>3, <3>2 DEF SessionsAfter
  <2> QED
    BY <1>a, <2>1, <2>2, <2>3 DEF SessionsAfter
<1>2. req.op = "start" /\ ~Refused(req) /\ ~fails => after[req.kind] # None
  <2> SUFFICES ASSUME req.op = "start", ~Refused(req), ~fails PROVE after[req.kind] # None
    OBVIOUS
  <2>1. [topic |-> req.topic, flag |-> req.flag] \in SessionType
    BY <1>a DEF SessionType
  <2>2. after[req.kind] = [topic |-> req.topic, flag |-> req.flag]
    BY <1>a DEF SessionsAfter
  <2> QED
    BY <2>1, <2>2, Sorts
<1> HIDE DEF after
<1>3. CASE (req.op = "start" /\ (Refused(req) \/ fails)) \/ (req.op = "stop" /\ fails)
  <2>1. ReplyTo(req, fails) = Error
    BY <1>3 DEF ReplyTo
  <2> QED
    BY <1>1, <2>1, ErrorsFit DEF after
<1>4. CASE req.op = "stop" /\ ~fails
  <2>1. ReplyTo(req, fails) = Reply("ok", None)
    BY <1>4 DEF ReplyTo
  <2> QED
    BY <1>1, <1>4, <1>a, <2>1 DEF after, Fits, Reply, Replies
<1>5. CASE req.op = "status" /\ req.kind = "panel"
  <2> DEFINE v == [k \in {"hz", "bw", "delay"} |-> sessions[k]]
  <2>1. ReplyTo(req, fails) = Reply("ok", v)
    BY <1>5 DEF ReplyTo
  <2>2. v \in Panel
    BY DEF Panel, Kinds
  <2> HIDE DEF v
  <2> QED
    BY <1>1, <1>5, <2>1, <2>2 DEF after, Fits, Reply, Replies
<1>6. CASE \/ req.op = "start" /\ ~Refused(req) /\ ~fails
           \/ req.op = "status" /\ req.kind # "panel"
           \/ req.op = "pause"
  <2>1. ReplyTo(req, fails) = Reply("ok", after[req.kind])
    BY <1>6, <1>a DEF ReplyTo, after
  <2>2. req.kind \in Kinds /\ after[req.kind] \in SessionType \cup {None}
    BY <1>1, <1>6, <1>a DEF after
  <2> QED
    BY <1>1, <1>2, <1>6, <1>a, <2>1, <2>2 DEF after, Fits, Reply, Replies
<1> QED
  BY <1>3, <1>4, <1>5, <1>6, <1>a

\* Sessions that start and stop are those the filter is told of; others keep
\* their topics.
LEMMA FilterStep ==
    ASSUME sessions \in [Kinds -> SessionType \cup {None}], FilterFollows,
           NEW req \in Requests, NEW fails \in BOOLEAN, fails => MayFail(req)
    PROVE  (IF Syncs(req, fails) THEN ObservedTopics(SessionsAfter(req, fails)) ELSE wanted)
               = ObservedTopics(SessionsAfter(req, fails))
<1> DEFINE after == SessionsAfter(req, fails)
<1> SUFFICES ASSUME ~Syncs(req, fails) PROVE wanted = ObservedTopics(after)
  OBVIOUS
<1>1. req.op # "stop" /\ ~(req.op = "start" /\ ~Refused(req) /\ ~fails)
  BY DEF Syncs
<1>2. CASE req.op = "pause" /\ sessions["bag"] # None
  <2>1. sessions["bag"] \in SessionType /\ "bag" \in Kinds
    BY <1>2 DEF Kinds
  <2>2. after = [sessions EXCEPT !["bag"].flag = req.flag]
    BY <1>2 DEF SessionsAfter
  <2>3. [sessions["bag"] EXCEPT !.flag = req.flag] \in SessionType
        /\ [sessions["bag"] EXCEPT !.flag = req.flag].topic = sessions["bag"].topic
    BY <2>1 DEF SessionType, Requests
  <2>4. \A k \in Kinds : /\ after[k] # None <=> sessions[k] # None
                         /\ sessions[k] # None => after[k].topic = sessions[k].topic
    BY <1>2, <2>1, <2>2, <2>3, Sorts
  <2> HIDE DEF after
  <2>5. Active(after) = Active(sessions)
    BY <2>4 DEF Active
  <2>6. ObservedTopics(after) = ObservedTopics(sessions)
    BY <2>4, <2>5 DEF ObservedTopics, Active
  <2> QED
    BY <2>6 DEF FilterFollows
<1>3. CASE ~(req.op = "pause" /\ sessions["bag"] # None)
  <2>1. after = sessions
    BY <1>1, <1>3 DEF SessionsAfter
  <2> QED
    BY <2>1 DEF FilterFollows
<1> QED
  BY <1>2, <1>3

\* The topics of the sessions are topics.
LEMMA ObservedTyped ==
    \A ss \in [Kinds -> SessionType \cup {None}] : ObservedTopics(ss) \subseteq Topics
BY DEF ObservedTopics, Active, SessionType

\* The runtime answers the handler of the first command, if it still waits.
LEMMA RuntimeKeeps ==
    ASSUME ConnsTyped, OneCall, HandlersExact, Queued, FilterFollows,
           sessions \in [Kinds -> SessionType \cup {None}], HandleRuntimeCommand
    PROVE  /\ HandlersExact' /\ Queued' /\ Advances
           /\ FilterFollows' /\ sessions' \in [Kinds -> SessionType \cup {None}]
           /\ wanted' \subseteq Topics
<1> DEFINE m == Head(queue)
           req == Head(queue).req
<1>1. PICK fails \in IF MayFail(req) THEN BOOLEAN ELSE {FALSE} :
          /\ sessions' = SessionsAfter(req, fails)
          /\ wanted' = IF Syncs(req, fails) THEN ObservedTopics(sessions') ELSE wanted
          /\ conns' = SendReply(m.slot, ReplyTo(req, fails))
  BY DEF HandleRuntimeCommand
<1>2. queue # <<>> /\ queue' = Tail(queue) /\ UNCHANGED inFlight
  BY DEF HandleRuntimeCommand
<1>3. /\ m \in [slot : Slots \cup {None}, req : Requests]
      /\ Tail(queue) \in Seq([slot : Slots \cup {None}, req : Requests])
      /\ Len(Tail(queue)) = Len(queue) - 1 /\ Len(queue) \in Nat \ {0} /\ m = queue[1]
      /\ DOMAIN queue = 1 .. Len(queue) /\ DOMAIN queue' = 1 .. Len(queue) - 1
      /\ \A i \in 1 .. Len(queue) - 1 : queue'[i] = queue[i + 1]
  <2> DEFINE M == [slot : Slots \cup {None}, req : Requests]
  <2>1. queue \in Seq(M) /\ queue # <<>>
    BY <1>2 DEF Queued
  <2> HIDE DEF M
  <2>2. /\ m \in M /\ Tail(queue) \in Seq(M) /\ Len(Tail(queue)) = Len(queue) - 1
        /\ \A i \in 1 .. Len(Tail(queue)) : Tail(queue)[i] = queue[i + 1]
    BY <2>1, HeadTailProperties
  <2>3. Len(queue) \in Nat \ {0} /\ DOMAIN queue = 1 .. Len(queue)
        /\ DOMAIN Tail(queue) = 1 .. Len(Tail(queue))
    BY <2>1, <2>2, EmptySeq, LenProperties
  <2>4. m = queue[1]
    BY <2>1
  <2> QED
    BY <1>2, <2>2, <2>3, <2>4 DEF M
<1>4. m.slot \in Slots \cup {None} /\ req \in Requests /\ fails \in BOOLEAN
      /\ (fails => MayFail(req)) /\ m.req = req
  BY <1>3
<1> DEFINE reply == ReplyTo(req, fails)
<1>5. sessions' \in [Kinds -> SessionType \cup {None}] /\ Fits(req, reply)
  BY <1>1, <1>4, ReplyFits
<1>6. FilterFollows' /\ wanted' \subseteq Topics
  <2>1. wanted' = ObservedTopics(sessions')
    BY <1>1, <1>4, FilterStep
  <2> QED
    BY <1>5, <2>1, ObservedTyped DEF FilterFollows
<1>7. Counted /\ AllMatched
  BY MatchedAll
<1> HIDE DEF reply, m, req
<1>8. CASE m.slot = None
  <2>1. conns' = conns
    BY <1>1, <1>8 DEF SendReply
  <2>2. Advances
    BY <2>1 DEF Advances, ConnsTyped
  <2>3. Counted'
    BY <1>2, <1>7, <2>1 DEF Counted, Handlers
  <2>4. ASSUME NEW r \in Slots PROVE Matched(queue, r)'
    <3>1. Matched(queue, r) /\ (Waits(r)' <=> Waits(r)) /\ conns'[r] = conns[r] /\ r # None
      BY <1>7, <2>1, Sorts DEF AllMatched, Waits
    <3>2. CASE Waits(r)
      <4>1. PICK i \in DOMAIN queue : /\ queue[i].slot = r /\ queue[i].req = conns[r].req
                                      /\ \A j \in DOMAIN queue : queue[j].slot = r => j = i
        BY <3>1, <3>2 DEF Matched
      <4>2. i # 1
        BY <1>3, <1>8, <3>1, <4>1
      <4>3. i - 1 \in DOMAIN queue' /\ queue'[i - 1] = queue[i]
        BY <1>3, <4>2
      <4>4. ASSUME NEW j \in DOMAIN queue', queue'[j].slot = r PROVE j = i - 1
        <5>1. j + 1 \in DOMAIN queue /\ queue[j + 1].slot = r /\ j \in Int /\ i \in Int
          BY <1>3, <4>4
        <5>2. j + 1 = i
          BY <4>1, <5>1
        <5> QED
          BY <5>1, <5>2
      <4> QED
        BY <3>1, <3>2, <4>1, <4>3, <4>4 DEF Matched
    <3>3. CASE ~Waits(r)
      <4>1. \A j \in DOMAIN queue' : queue'[j].slot # r
        BY <1>3, <3>1, <3>3 DEF Matched
      <4> QED
        BY <3>1, <3>3, <4>1 DEF Matched
    <3> QED
      BY <3>2, <3>3
  <2> QED
    BY <1>2, <1>3, <1>5, <1>6, <2>2, <2>3, <2>4, MatchedNext DEF Queued, AllMatched
<1>9. CASE m.slot # None
  <2> DEFINE s == m.slot
             c == [conns[s] EXCEPT !.stage = "replied", !.reply = reply]
  <2>1. s \in Slots /\ conns' = [conns EXCEPT ![s] = c]
    BY <1>1, <1>4, <1>9 DEF SendReply, reply, ConnsTyped
  <2>2. Waits(s) /\ conns[s].req = req /\ \A j \in DOMAIN queue : queue[j].slot = s => j = 1
    <3>1. Matched(queue, s) /\ 1 \in DOMAIN queue /\ queue[1].slot = s /\ queue[1].req = req
      BY <1>3, <1>4, <1>7, <2>1 DEF AllMatched
    <3> QED
      BY <3>1 DEF Matched
  <2>3. conns[s] # None /\ conns[s].stage = "waiting" /\ conns[s] \in Connection
    BY <2>1, <2>2 DEF Waits, ConnsTyped
  <2>4. /\ c \in Connection /\ c.req = conns[s].req /\ c.owner = conns[s].owner
        /\ c.stage = "replied" /\ c.reply = reply
    BY <1>5, <2>3 DEF Connection, Fits
  <2> HIDE DEF c, s
  <2>5. Follows(s, c) /\ c # None
    BY <1>5, <2>2, <2>4, Sorts DEF Follows
  <2>6. Advances /\ \A r \in Slots : conns'[r] = IF r = s THEN c ELSE conns[r]
    BY <2>1, <2>3, <2>5, AdvancesOne
  <2>7. Counted'
    <3>1. Handlers' = Handlers
      BY <2>3, <2>4, <2>5, <2>6 DEF Handlers
    <3> QED
      BY <1>2, <1>7, <3>1 DEF Counted
  <2>8. ASSUME NEW r \in Slots PROVE Matched(queue, r)'
    <3>1. Matched(queue, r)
      BY <1>7 DEF AllMatched
    <3>2. CASE r = s
      <4>1. ~Waits(r)'
        BY <2>4, <2>6, <3>2 DEF Waits
      <4>2. \A j \in DOMAIN queue' : queue'[j].slot # r
        <5> SUFFICES ASSUME NEW j \in DOMAIN queue', queue'[j].slot = s PROVE FALSE
          BY <3>2
        <5>1. j + 1 \in DOMAIN queue /\ queue[j + 1].slot = s /\ j + 1 # 1
          BY <1>3
        <5> QED
          BY <2>2, <5>1
      <4> QED
        BY <4>1, <4>2 DEF Matched
    <3>3. CASE r # s
      <4>1. (Waits(r)' <=> Waits(r)) /\ conns'[r] = conns[r]
        BY <2>6, <3>3 DEF Waits
      <4>2. CASE Waits(r)
        <5>1. PICK i \in DOMAIN queue : /\ queue[i].slot = r /\ queue[i].req = conns[r].req
                                        /\ \A j \in DOMAIN queue : queue[j].slot = r => j = i
          BY <3>1, <4>2 DEF Matched
        <5>2. i # 1
          BY <1>3, <3>3, <5>1 DEF s
        <5>3. i - 1 \in DOMAIN queue' /\ queue'[i - 1] = queue[i]
          BY <1>3, <5>2
        <5>4. ASSUME NEW j \in DOMAIN queue', queue'[j].slot = r PROVE j = i - 1
          <6>1. j + 1 \in DOMAIN queue /\ queue[j + 1].slot = r /\ j \in Int /\ i \in Int
            BY <1>3, <5>4
          <6>2. j + 1 = i
            BY <5>1, <6>1
          <6> QED
            BY <6>1, <6>2
        <5> QED
          BY <4>1, <4>2, <5>1, <5>3, <5>4 DEF Matched
      <4>3. CASE ~Waits(r)
        <5>1. \A j \in DOMAIN queue' : queue'[j].slot # r
          BY <1>3, <3>1, <4>3 DEF Matched
        <5> QED
          BY <4>1, <4>3, <5>1 DEF Matched
      <4> QED
        BY <4>2, <4>3
    <3> QED
      BY <3>2, <3>3
  <2> QED
    BY <1>2, <1>3, <1>5, <1>6, <2>6, <2>7, <2>8, MatchedNext DEF Queued, AllMatched
<1> QED
  BY <1>8, <1>9

----------------------------------------------------------------------------
(* Every step keeps the invariant.                                         *)

\* What the invariant says, part by part.
RuntimeTyped == sessions \in [Kinds -> SessionType \cup {None}] /\ wanted \subseteq Topics
ScenarioTyped == scenario \in Scenarios /\ faults \subseteq Faults
Phases == {"absent", "starting", "watching", "polling", "pausing", "leaving", "stopping",
           "untyped", "gone"}
ClientsTyped == phase \in [Clients -> Phases] /\ paused \in [Clients -> BOOLEAN]
UiTyped == ui \in [selected : Topics \cup {None}, echo : BOOLEAN, panel : SUBSET Topics]
WorkerTyped ==
    /\ inbox \in Seq(MonitorCommands) /\ events \in Seq(SUBSET Topics)
    /\ worker \in [todo : Seq(Work), active : Topics \cup {None}, echo : BOOLEAN, okay : BOOLEAN]
PageTyped ==
    page \in [shown : SessionType \cup {None}, inbox : Seq(BagRequests),
              events : Seq(SessionType \cup {None}), pc : {"recv", "command", "poll", "polling"}]

\* The command server's part.
ServerInv == ConnsTyped /\ Queued /\ CallsInv /\ HandlersExact

\* Those who act take part.
ClientsPresent == \A c \in Clients : phase[c] # "absent" => c \in scenario.procs
MonitorPresent ==
    Monitor \notin scenario.procs => inbox = <<>> /\ worker.todo = <<>> /\ worker.active = None
RecorderPresent == Recorder \notin scenario.procs => page.inbox = <<>>

\* The invariant is these parts.
LEMMA Parts ==
    SessionInv <=> /\ ServerInv /\ RuntimeTyped /\ ScenarioTyped /\ ClientsTyped /\ UiTyped
                   /\ WorkerTyped /\ PageTyped /\ ClientsPresent /\ MonitorPresent
                   /\ RecorderPresent /\ FilterFollows
BY DEF SessionInv, TypeOK, ServerInv, ConnsTyped, Queued, RuntimeTyped, ScenarioTyped, ClientsTyped,
       Phases, UiTyped, WorkerTyped, PageTyped, Present, ClientsPresent, MonitorPresent,
       RecorderPresent

\* The same after a step.
LEMMA PartsNext ==
    SessionInv' <=> /\ ServerInv' /\ RuntimeTyped' /\ ScenarioTyped' /\ ClientsTyped' /\ UiTyped'
                    /\ WorkerTyped' /\ PageTyped' /\ ClientsPresent' /\ MonitorPresent'
                    /\ RecorderPresent' /\ FilterFollows'
BY Parts, PTL

\* The calls of a step that makes none and ends none.
LEMMA CallsStay ==
    ASSUME ServerInv, UNCHANGED <<scenario, serverVars, phase>>,
           worker' = worker \/ \A s \in Slots : conns[s] # None => conns[s].owner # Monitor
    PROVE  ServerInv'
<1>1. ConnsTyped' /\ Queued' /\ OneCall
  BY DEF ServerInv, ConnsTyped, Queued, serverVars, CallsInv, OneCall
<1>2. HandlersExact'
  BY DEF ServerInv, serverVars, HandlersExact, Handlers
<1>3. CallsInv'
  BY DEF ServerInv, serverVars, CallsInv, CallOK, CallOf, Fits
<1> QED
  BY <1>1, <1>2, <1>3 DEF ServerInv

\* The calls of a step that makes one.
LEMMA CallMade ==
    ASSUME ServerInv, NEW p \in Procs, p \in scenario.procs, NEW req \in Requests,
           Issue(p, req), UNCHANGED <<scenario, inFlight, queue, worker>>,
           \A c \in Clients : c # p => phase'[c] = phase[c],
           p \in Clients => req.kind = Kind[p] /\ req.op = CallOf(phase'[p]),
           p = Recorder => req.kind = "bag",
           p = Monitor => IF worker.todo = <<>> THEN req = Status("panel")
                          ELSE req = Head(worker.todo)
    PROVE  ServerInv'
<1> DEFINE new == [stage |-> "connected", owner |-> p, req |-> req, reply |-> None]
<1>1. ConnsTyped /\ OneCall /\ HandlersExact /\ Queued
      /\ \A s \in Slots : conns[s] # None => CallOK(conns[s])
  BY DEF ServerInv, CallsInv, OneCall
<1>2. /\ ConnsTyped' /\ OneCall' /\ HandlersExact'
      /\ \A s \in Slots : conns[s] # None => conns[s].owner # p
      /\ \A s \in Slots : conns'[s] # None =>
             \/ conns[s] # None /\ conns'[s] = conns[s]
             \/ conns'[s] = new
  BY <1>1, IssueKeeps
<1>3. new.stage = "connected" /\ new.owner = p /\ new.req = req
  OBVIOUS
<1> HIDE DEF new
<1>4. ASSUME NEW s \in Slots, conns'[s] # None PROVE CallOK(conns[s])'
  <2>1. CASE conns[s] # None /\ conns'[s] = conns[s]
    <3>1. CallOK(conns[s]) /\ conns[s].owner # p
      BY <1>1, <1>2, <2>1
    <3> QED
      BY <2>1, <3>1 DEF CallOK
  <2>2. CASE conns'[s] = new
    BY <1>3, <2>2 DEF CallOK
  <2> QED
    BY <1>2, <1>4, <2>1, <2>2
<1>5. CallsInv'
  BY <1>2, <1>4 DEF CallsInv, OneCall
<1>6. Queued'
  BY <1>1 DEF Queued
<1> QED
  BY <1>2, <1>5, <1>6 DEF ServerInv

\* The calls of a step that ends those of p.
LEMMA CallEnded ==
    ASSUME ServerInv, NEW p \in Procs, Drops(p), UNCHANGED <<scenario, inFlight, queue>>,
           \A c \in Clients : c # p => phase'[c] = phase[c],
           p # Monitor => worker' = worker
    PROVE  ServerInv'
<1>1. ConnsTyped /\ OneCall /\ HandlersExact /\ Queued
      /\ \A s \in Slots : conns[s] # None => CallOK(conns[s])
  BY DEF ServerInv, CallsInv, OneCall
<1>2. /\ ConnsTyped' /\ OneCall' /\ HandlersExact'
      /\ \A s \in Slots : conns'[s] # None =>
             /\ conns[s] # None /\ conns'[s].owner # p
             /\ conns'[s].owner \in {conns[s].owner, None}
             /\ conns'[s].stage = conns[s].stage /\ conns'[s].req = conns[s].req
             /\ conns'[s].reply = conns[s].reply
  BY <1>1, DropsKeeps
<1>3. ASSUME NEW s \in Slots, conns'[s] # None PROVE CallOK(conns[s])'
  <2>1. CallOK(conns[s]) /\ None \notin Clients /\ None # Monitor /\ None # Recorder
    BY <1>1, <1>2, <1>3, Sorts DEF Procs
  <2> QED
    BY <1>2, <1>3, <2>1 DEF CallOK
<1>4. CallsInv'
  BY <1>2, <1>3 DEF CallsInv, OneCall
<1>5. Queued'
  BY <1>1 DEF Queued
<1> QED
  BY <1>2, <1>4, <1>5 DEF ServerInv

\* The calls of a step of the server or the runtime.
LEMMA CallsAdvance ==
    ASSUME ServerInv, Advances, HandlersExact', Queued', UNCHANGED <<scenario, phase, worker>>
    PROVE  ServerInv'
<1>1. ConnsTyped /\ OneCall /\ \A s \in Slots : conns[s] # None => CallOK(conns[s])
  BY DEF ServerInv, CallsInv, OneCall
<1>2. ConnsTyped' /\ OneCall'
  BY <1>1, AdvancesKeeps
<1>3. ASSUME NEW s \in Slots, conns'[s] # None PROVE CallOK(conns[s])'
  <2>1. CallOK(conns[s])
    BY <1>1, <1>3 DEF Advances
  <2> QED
    BY <1>3, <2>1 DEF Advances, CallOK
<1>4. CallsInv'
  BY <1>2, <1>3 DEF CallsInv, OneCall
<1> QED
  BY <1>2, <1>4 DEF ServerInv

\* The parts of the invariant a step leaves alone.
LEMMA RuntimeStays ==
    ASSUME RuntimeTyped, FilterFollows, UNCHANGED runtimeVars
    PROVE  RuntimeTyped' /\ FilterFollows'
BY DEF runtimeVars, RuntimeTyped, FilterFollows, ObservedTopics, Active

\* The Topic Monitor, ...
LEMMA MonitorStays ==
    ASSUME UiTyped, WorkerTyped, MonitorPresent, UNCHANGED <<scenario, monitorVars>>
    PROVE  UiTyped' /\ WorkerTyped' /\ MonitorPresent'
BY DEF monitorVars, UiTyped, WorkerTyped, MonitorPresent

\* ... the Bag Recorder page, ...
LEMMA PageStays ==
    ASSUME PageTyped, RecorderPresent, UNCHANGED <<scenario, page>>
    PROVE  PageTyped' /\ RecorderPresent'
BY DEF PageTyped, RecorderPresent

\* ... the processes, ...
LEMMA ClientsStay ==
    ASSUME ClientsTyped, ClientsPresent, UNCHANGED <<scenario, clientVars>>
    PROVE  ClientsTyped' /\ ClientsPresent'
BY DEF clientVars, ClientsTyped, ClientsPresent

\* ... and the scenario, with at most one fault more.
LEMMA ScenarioStays ==
    ASSUME ScenarioTyped, UNCHANGED scenario, faults' = faults \/ \E f \in Faults : faults' = faults \cup {f}
    PROVE  ScenarioTyped'
BY DEF ScenarioTyped

\* A fault is one of Faults.
LEMMA StrikesTyped ==
    ASSUME ScenarioTyped, NEW f, Strikes(f)
    PROVE  \E g \in Faults : faults' = faults \cup {g}
<1>1. f \in scenario.faults /\ faults' = faults \cup {f}
  BY DEF Strikes
<1> QED
  BY <1>1, Sorts DEF ScenarioTyped

\* The server's threads and the runtime.
LEMMA ServerStep ==
    ASSUME SessionInv, NEW s \in Slots,
           Accept(s) \/ HandleClient(s) \/ Respond(s) \/ CommandTimeout(s)
    PROVE  SessionInv'
<1>1. /\ ServerInv /\ RuntimeTyped /\ ScenarioTyped /\ ClientsTyped /\ UiTyped /\ WorkerTyped
      /\ PageTyped /\ ClientsPresent /\ MonitorPresent /\ RecorderPresent /\ FilterFollows
  BY Parts
<1>2. UNCHANGED <<scenario, runtimeVars, clientVars, monitorVars, page>>
  BY DEF Accept, HandleClient, Respond, CommandTimeout
<1>3. ConnsTyped /\ OneCall /\ HandlersExact /\ Queued
      /\ \A r \in Slots : conns[r] # None => CallOK(conns[r])
  BY <1>1 DEF ServerInv, CallsInv, OneCall
<1>4. HandlersExact' /\ Queued' /\ Advances
  <2>1. CASE Accept(s)
    BY <1>3, <2>1, AcceptKeeps
  <2>2. CASE HandleClient(s)
    BY <1>3, <2>2, HandleClientKeeps
  <2>3. CASE Respond(s)
    <3>1. CallOK(conns[s])
      BY <1>3, <2>3 DEF Respond
    <3> QED
      BY <1>3, <2>3, <3>1, RespondKeeps
  <2>4. CASE CommandTimeout(s)
    BY <1>3, <2>4, CommandTimeoutKeeps
  <2> QED
    BY <2>1, <2>2, <2>3, <2>4
<1>5. ServerInv'
  BY <1>1, <1>2, <1>4, CallsAdvance DEF clientVars, monitorVars
<1>6. ScenarioTyped'
  <2>1. faults' = faults \/ \E f \in Faults : faults' = faults \cup {f}
    <3>1. CASE CommandTimeout(s)
      BY <1>1, <3>1, StrikesTyped DEF CommandTimeout
    <3>2. CASE Accept(s) \/ HandleClient(s) \/ Respond(s)
      BY <3>2 DEF Accept, HandleClient, Respond, Faults
    <3> QED
      BY <3>1, <3>2
  <2> QED
    BY <1>1, <1>2, <2>1, ScenarioStays
<1> QED
  BY <1>1, <1>2, <1>5, <1>6, PartsNext, RuntimeStays, MonitorStays, PageStays, ClientsStay

\* The runtime.
LEMMA RuntimeStep ==
    ASSUME SessionInv, HandleRuntimeCommand \/ DelayFlag
    PROVE  SessionInv'
<1>1. /\ ServerInv /\ RuntimeTyped /\ ScenarioTyped /\ ClientsTyped /\ UiTyped /\ WorkerTyped
      /\ PageTyped /\ ClientsPresent /\ MonitorPresent /\ RecorderPresent /\ FilterFollows
  BY Parts
<1>2. UNCHANGED <<scenario, faults, clientVars, monitorVars, page>>
  BY DEF HandleRuntimeCommand, DelayFlag
<1>3. ConnsTyped /\ OneCall /\ HandlersExact /\ Queued
      /\ sessions \in [Kinds -> SessionType \cup {None}]
  BY <1>1 DEF ServerInv, CallsInv, OneCall, RuntimeTyped
<1>4. CASE HandleRuntimeCommand
  <2>1. /\ HandlersExact' /\ Queued' /\ Advances
        /\ FilterFollows' /\ sessions' \in [Kinds -> SessionType \cup {None}]
        /\ wanted' \subseteq Topics
    BY <1>1, <1>3, <1>4, RuntimeKeeps
  <2>2. ServerInv'
    BY <1>1, <1>2, <2>1, CallsAdvance DEF clientVars, monitorVars
  <2>3. RuntimeTyped'
    BY <2>1 DEF RuntimeTyped
  <2> QED
    BY <1>1, <1>2, <2>1, <2>2, <2>3, PartsNext, MonitorStays, PageStays, ClientsStay, ScenarioStays
<1>5. CASE DelayFlag
  <2>1. /\ sessions["delay"] \in SessionType /\ "delay" \in Kinds
        /\ sessions' = [sessions EXCEPT !["delay"].flag = TRUE]
        /\ UNCHANGED <<serverVars, wanted>>
    BY <1>3, <1>5 DEF DelayFlag, Kinds
  <2>2. [sessions["delay"] EXCEPT !.flag = TRUE] \in SessionType
        /\ [sessions["delay"] EXCEPT !.flag = TRUE].topic = sessions["delay"].topic
    BY <2>1 DEF SessionType
  <2>3. \A k \in Kinds : /\ sessions'[k] # None <=> sessions[k] # None
                         /\ sessions[k] # None => sessions'[k].topic = sessions[k].topic
    BY <1>3, <2>1, <2>2, Sorts
  <2>4. Active(sessions') = Active(sessions)
    BY <2>3 DEF Active
  <2>5. ObservedTopics(sessions') = ObservedTopics(sessions)
    BY <2>3, <2>4 DEF ObservedTopics, Active
  <2>6. FilterFollows' /\ RuntimeTyped'
    BY <1>1, <1>3, <2>1, <2>2, <2>5 DEF FilterFollows, RuntimeTyped
  <2>7. ServerInv'
    BY <1>1, <1>2, <2>1, CallsStay DEF clientVars, monitorVars
  <2> QED
    BY <1>1, <1>2, <2>6, <2>7, PartsNext, MonitorStays, PageStays, ClientsStay, ScenarioStays
<1> QED
  BY <1>4, <1>5

\* The requests of the processes.
LEMMA RequestsTyped ==
    /\ \A k \in Kinds, t \in Topics : Start(k, t) \in Requests
    /\ \A k \in Kinds : Stop(k) \in Requests
    /\ \A k \in Kinds \cup {"panel"} : Status(k) \in Requests
    /\ \A f \in BOOLEAN : Request("pause", "bag", None, f) \in BagRequests
    /\ \A t \in Topics, f \in BOOLEAN : Request("start", "bag", t, f) \in BagRequests
    /\ Stop("bag") \in BagRequests
    /\ BagRequests \subseteq Requests
BY DEF Start, Stop, Status, Request, Requests, BagRequests, Kinds

\* A process of the command line makes a call.
LEMMA ClientCallStep ==
    ASSUME SessionInv, NEW c \in Clients,
           ClientStart(c) \/ ClientPoll(c) \/ ClientPause(c) \/ ClientStop(c)
    PROVE  SessionInv'
<1>1. /\ ServerInv /\ RuntimeTyped /\ ScenarioTyped /\ ClientsTyped /\ UiTyped /\ WorkerTyped
      /\ PageTyped /\ ClientsPresent /\ MonitorPresent /\ RecorderPresent /\ FilterFollows
  BY Parts
<1>2. UNCHANGED <<scenario, faults, inFlight, queue, runtimeVars, paused, monitorVars, page>>
  BY DEF ClientStart, ClientPoll, ClientPause, ClientStop
<1>3. \E req \in Requests, ph \in Phases :
          /\ Issue(c, req) /\ phase' = [phase EXCEPT ![c] = ph]
          /\ req.kind = Kind[c] /\ req.op = CallOf(ph)
          /\ c \in scenario.procs
  <2>a. Kind[c] \in Kinds /\ Topic[c] \in Topics /\ paused[c] \in BOOLEAN
    BY <1>1, Sorts DEF ClientsTyped
  <2>b. phase[c] # "absent" => c \in scenario.procs
    BY <1>1 DEF ClientsPresent
  <2>1. CASE ClientStart(c)
    <3>1. Start(Kind[c], Topic[c]) \in Requests /\ "starting" \in Phases
          /\ Start(Kind[c], Topic[c]).kind = Kind[c]
          /\ Start(Kind[c], Topic[c]).op = CallOf("starting")
      BY <2>a, RequestsTyped DEF Phases, Start, Request, CallOf
    <3> QED
      BY <2>1, <3>1 DEF ClientStart
  <2>2. CASE ClientPoll(c)
    <3>1. Status(Kind[c]) \in Requests /\ "polling" \in Phases
          /\ Status(Kind[c]).kind = Kind[c] /\ Status(Kind[c]).op = CallOf("polling")
      BY <2>a, RequestsTyped DEF Phases, Status, Request, CallOf
    <3> QED
      BY <2>2, <2>b, <3>1 DEF ClientPoll
  <2>3. CASE ClientPause(c)
    <3> DEFINE r == Request("pause", "bag", None, ~paused[c])
    <3>1. r \in Requests /\ "pausing" \in Phases
          /\ r.kind = "bag" /\ r.op = CallOf("pausing")
      BY <2>a, RequestsTyped DEF Phases, Request, CallOf
    <3> QED
      BY <2>3, <2>b, <3>1 DEF ClientPause
  <2>4. CASE ClientStop(c)
    <3>1. Stop(Kind[c]) \in Requests /\ "stopping" \in Phases
          /\ Stop(Kind[c]).kind = Kind[c] /\ Stop(Kind[c]).op = CallOf("stopping")
      BY <2>a, RequestsTyped DEF Phases, Stop, Request, CallOf
    <3> QED
      BY <2>4, <2>b, <3>1 DEF ClientStop
  <2> QED
    BY <2>1, <2>2, <2>3, <2>4
<1>4. PICK req \in Requests, ph \in Phases :
          /\ Issue(c, req) /\ phase' = [phase EXCEPT ![c] = ph]
          /\ req.kind = Kind[c] /\ req.op = CallOf(ph)
          /\ c \in scenario.procs
  BY <1>3
<1>5. ServerInv'
  <2>1. phase'[c] = ph /\ \A d \in Clients : d # c => phase'[d] = phase[d]
    BY <1>1, <1>4 DEF ClientsTyped
  <2>2. c \in Procs /\ c # Monitor /\ c # Recorder /\ UNCHANGED worker
    BY <1>2, Sorts DEF monitorVars
  <2> QED
    BY <1>1, <1>2, <1>4, <2>1, <2>2, CallMade
<1>6. ClientsTyped' /\ ClientsPresent'
  BY <1>1, <1>2, <1>4 DEF ClientsTyped, ClientsPresent
<1> QED
  BY <1>1, <1>2, <1>5, <1>6, PartsNext, RuntimeStays, MonitorStays, PageStays, ScenarioStays

\* The answer a process gets suits its request.
LEMMA ReturnsFit ==
    ASSUME ServerInv, ScenarioTyped, NEW p \in Procs, NEW out, Returns(p, out)
    PROVE  /\ Drops(p)
           /\ faults' = faults \/ \E f \in Faults : faults' = faults \cup {f}
           /\ \E s \in Calls(p) : CallOK(conns[s]) /\ Fits(conns[s].req, out)
           /\ \A s, r \in Calls(p) : s = r
<1>1. ConnsTyped /\ OneCall /\ \A s \in Slots : conns[s] # None => CallOK(conns[s])
  BY DEF ServerInv, CallsInv, OneCall
<1>2. /\ Drops(p)
      /\ \/ /\ UNCHANGED faults
            /\ \E s \in Calls(p) : conns[s].stage = "answered" /\ out = conns[s].reply
         \/ out = Failed /\ Strikes("giveup")
  BY <1>1, ReturnsDrops
<1>3. \E s \in Calls(p) : CallOK(conns[s]) /\ Fits(conns[s].req, out)
  <2>1. \A s \in Calls(p) : CallOK(conns[s])
    BY <1>1 DEF Calls
  <2>2. CASE \E s \in Calls(p) : conns[s].stage = "answered" /\ out = conns[s].reply
    BY <2>1, <2>2 DEF CallOK
  <2>3. CASE out = Failed
    <3>1. Calls(p) # {}
      BY DEF Returns
    <3> QED
      BY <2>1, <2>3, <3>1, ErrorsFit
  <2> QED
    BY <1>2, <2>2, <2>3
<1>4. \A s, r \in Calls(p) : s = r
  BY <1>1, Sorts DEF Calls, OneCall
<1>5. faults' = faults \/ \E f \in Faults : faults' = faults \cup {f}
  BY <1>2, StrikesTyped
<1> QED
  BY <1>2, <1>3, <1>4, <1>5

\* A process of the command line gets its answer, or gives up.
LEMMA ClientReturnStep ==
    ASSUME SessionInv, NEW c \in Clients, ClientReturn(c)
    PROVE  SessionInv'
<1>1. /\ ServerInv /\ RuntimeTyped /\ ScenarioTyped /\ ClientsTyped /\ UiTyped /\ WorkerTyped
      /\ PageTyped /\ ClientsPresent /\ MonitorPresent /\ RecorderPresent /\ FilterFollows
  BY Parts
<1>2. PICK out \in Answers(c) :
          /\ Returns(c, out)
          /\ \/ phase' = [phase EXCEPT ![c] = PhaseAfter(c, out)]
             \/ phase' = [phase EXCEPT ![c] = "untyped"]
          /\ paused' = IF phase[c] \in {"starting", "pausing"} /\ phase'[c] = "watching"
                       THEN [paused EXCEPT ![c] = out.val.flag]
                       ELSE paused
  BY DEF ClientReturn
<1>3. UNCHANGED <<scenario, inFlight, queue, runtimeVars, monitorVars, page>>
  BY DEF ClientReturn
<1>4. c \in Procs /\ c # Monitor /\ c # Recorder /\ Kind[c] \in Kinds /\ "panel" \notin Kinds
  BY Sorts DEF Kinds
<1>5. /\ Drops(c)
      /\ faults' = faults \/ \E f \in Faults : faults' = faults \cup {f}
      /\ \E s \in Calls(c) : CallOK(conns[s]) /\ Fits(conns[s].req, out)
  BY <1>1, <1>2, <1>4, ReturnsFit
<1>6. PICK s \in Calls(c) : CallOK(conns[s]) /\ Fits(conns[s].req, out)
  BY <1>5
<1>7. conns[s].req.kind = Kind[c] /\ conns[s].req.op = CallOf(phase[c])
      /\ conns[s].req \in Requests
  BY <1>1, <1>6 DEF Calls, CallOK, ServerInv, ConnsTyped, Connection
<1>8. phase[c] \in {"starting", "polling", "pausing", "stopping"}
  <2>1. conns[s].req.op \in {"start", "stop", "status", "pause"} /\ phase[c] \in Phases
    BY <1>1, <1>7 DEF Requests, ClientsTyped
  <2> QED
    BY <1>7, <2>1 DEF CallOf, Phases
<1>9. PhaseAfter(c, out) \in Phases
  BY <1>8 DEF PhaseAfter, Phases
<1>a. phase' = [phase EXCEPT ![c] = phase'[c]] /\ phase'[c] \in {PhaseAfter(c, out), "untyped"}
  BY <1>1, <1>2 DEF ClientsTyped
<1>10. ServerInv'
  <2>1. \A d \in Clients : d # c => phase'[d] = phase[d]
    BY <1>1, <1>a DEF ClientsTyped
  <2>2. UNCHANGED worker
    BY <1>3 DEF monitorVars
  <2> QED
    BY <1>1, <1>3, <1>4, <1>5, <2>1, <2>2, CallEnded
<1>11. ClientsTyped'
  <2>1. phase' \in [Clients -> Phases]
    BY <1>1, <1>9, <1>a DEF ClientsTyped, Phases
  <2>2. paused' \in [Clients -> BOOLEAN]
    <3>1. CASE phase[c] \in {"starting", "pausing"} /\ phase'[c] = "watching"
      <4>1. PhaseAfter(c, out) = "watching"
        BY <1>a, <3>1
      <4>2. out.outcome = "ok" /\ (phase[c] = "pausing" => out.val # None)
        BY <3>1, <4>1 DEF PhaseAfter
      <4>3. out.val \in SessionType \cup {None} /\ (phase[c] = "starting" => out.val # None)
        BY <1>4, <1>6, <1>7, <4>2 DEF Fits, CallOf
      <4>4. out.val \in SessionType
        BY <3>1, <4>2, <4>3
      <4>5. out.val.flag \in BOOLEAN
        BY <4>4 DEF SessionType
      <4> QED
        BY <1>1, <1>2, <3>1, <4>5 DEF ClientsTyped
    <3>2. CASE ~(phase[c] \in {"starting", "pausing"} /\ phase'[c] = "watching")
      BY <1>1, <1>2, <3>2 DEF ClientsTyped
    <3> QED
      BY <3>1, <3>2
  <2> QED
    BY <2>1, <2>2 DEF ClientsTyped
<1>12. ClientsPresent'
  <2>1. c \in scenario.procs
    BY <1>1, <1>8 DEF ClientsPresent
  <2> QED
    BY <1>1, <1>3, <1>a, <2>1 DEF ClientsPresent, ClientsTyped
<1> QED
  BY <1>1, <1>3, <1>5, <1>10, <1>11, <1>12, PartsNext, RuntimeStays, MonitorStays, PageStays, ScenarioStays

\* A process of the command line is killed.
LEMMA KillStep ==
    ASSUME SessionInv, NEW c \in Clients, Kill(c)
    PROVE  SessionInv'
<1>1. /\ ServerInv /\ RuntimeTyped /\ ScenarioTyped /\ ClientsTyped /\ UiTyped /\ WorkerTyped
      /\ PageTyped /\ ClientsPresent /\ MonitorPresent /\ RecorderPresent /\ FilterFollows
  BY Parts
<1>2. /\ phase' = [phase EXCEPT ![c] = "gone"] /\ phase[c] # "absent"
      /\ conns' = Abandon(c) /\ Strikes("kill")
      /\ UNCHANGED <<scenario, inFlight, queue, runtimeVars, paused, monitorVars, page>>
  BY DEF Kill, Running
<1>3. Drops(c) /\ c \in Procs /\ c # Monitor
  BY <1>2, AbandonDrops, Sorts
<1>4. ServerInv'
  <2>1. \A d \in Clients : d # c => phase'[d] = phase[d]
    BY <1>1, <1>2 DEF ClientsTyped
  <2>2. UNCHANGED worker
    BY <1>2 DEF monitorVars
  <2> QED
    BY <1>1, <1>2, <1>3, <2>1, <2>2, CallEnded
<1>5. ClientsTyped' /\ ClientsPresent'
  BY <1>1, <1>2 DEF ClientsTyped, ClientsPresent, Phases
<1>6. ScenarioTyped'
  BY <1>1, <1>2, StrikesTyped, ScenarioStays
<1> QED
  BY <1>1, <1>2, <1>4, <1>5, <1>6, PartsNext, RuntimeStays, MonitorStays, PageStays

\* What the user asks of the Topic Monitor.
LEMMA InputStep ==
    ASSUME SessionInv,
           (\E t \in Topics : ClickTopic(t)) \/ ToggleEcho \/ ChangeWindow \/ PauseForLeave \/ DrainEvents
    PROVE  SessionInv'
<1>1. /\ ServerInv /\ RuntimeTyped /\ ScenarioTyped /\ ClientsTyped /\ UiTyped /\ WorkerTyped
      /\ PageTyped /\ ClientsPresent /\ MonitorPresent /\ RecorderPresent /\ FilterFollows
  BY Parts
<1>2. UNCHANGED <<scenario, faults, serverVars, runtimeVars, clientVars, worker, page>>
  BY DEF ClickTopic, ToggleEcho, ChangeWindow, PauseForLeave, DrainEvents, Input
<1>3. UiTyped' /\ WorkerTyped' /\ MonitorPresent'
  <2>a. \A t \in Topics : Command("select", t) \in MonitorCommands
    BY DEF Command, MonitorCommands
  <2>b. Command("deselect", None) \in MonitorCommands /\ Command("window", None) \in MonitorCommands
        /\ \A b \in BOOLEAN : Command("echo", b) \in MonitorCommands
    BY DEF Command, MonitorCommands
  <2>c. \A a, b \in Seq(MonitorCommands) : a \o b \in Seq(MonitorCommands)
    BY ConcatProperties
  <2>d. \A cmd \in MonitorCommands : <<cmd>> \in Seq(MonitorCommands)
    OBVIOUS
  <2>e. \A x, y \in MonitorCommands : <<x, y>> \in Seq(MonitorCommands)
    OBVIOUS
  <2>f. (~ui.echo) \in BOOLEAN /\ inbox \in Seq(MonitorCommands)
    BY <1>1 DEF UiTyped, WorkerTyped
  <2>1. CASE DrainEvents
    <3>1. events # <<>> /\ events \in Seq(SUBSET Topics) /\ events' = <<>> /\ UNCHANGED inbox
          /\ ui' = [ui EXCEPT !.panel = Last(events)]
      BY <1>1, <2>1 DEF DrainEvents, WorkerTyped
    <3>2. Last(events) \in SUBSET Topics
      <4>1. Len(events) \in 1 .. Len(events)
        BY <3>1, EmptySeq, LenProperties
      <4>2. events[Len(events)] \in SUBSET Topics
        BY <3>1, <4>1, ElementOfSeq
      <4> QED
        BY <4>2 DEF Last
    <3>3. <<>> \in Seq(SUBSET Topics)
      OBVIOUS
    <3> HIDE <2>a, <2>b, <2>c, <2>d, <2>e
    <3> QED
      BY <1>1, <1>2, <3>1, <3>2, <3>3 DEF UiTyped, WorkerTyped, MonitorPresent
  <2>2. CASE (\E t \in Topics : ClickTopic(t)) \/ ToggleEcho \/ ChangeWindow \/ PauseForLeave
    <3>1. \E commands \in Seq(MonitorCommands) : Input(commands)
      <4>1. ASSUME NEW t \in Topics, ClickTopic(t)
            PROVE  \E commands \in Seq(MonitorCommands) : Input(commands)
        BY <2>a, <2>b, <2>d, <4>1 DEF ClickTopic
      <4>2. CASE ToggleEcho
        BY <2>b, <2>d, <2>f, <4>2 DEF ToggleEcho
      <4>3. CASE ChangeWindow
        BY <2>b, <2>d, <4>3 DEF ChangeWindow
      <4>4. CASE PauseForLeave
        BY <2>b, <2>e, <4>4 DEF PauseForLeave
      <4> QED
        BY <2>2, <4>1, <4>2, <4>3, <4>4
    <3>2. PICK commands \in Seq(MonitorCommands) : Input(commands)
      BY <3>1
    <3>3. Monitor \in scenario.procs /\ inbox' = inbox \o commands /\ UNCHANGED <<events, worker, scenario>>
      BY <3>2 DEF Input
    <3>4. inbox' \in Seq(MonitorCommands)
      BY <2>c, <2>f, <3>3
    <3>5. WorkerTyped' /\ MonitorPresent'
      BY <1>1, <3>3, <3>4 DEF WorkerTyped, MonitorPresent
    <3>6. UiTyped'
      <4>1. ASSUME NEW t \in Topics, ClickTopic(t) PROVE UiTyped'
        BY <1>1, <4>1 DEF ClickTopic, UiTyped
      <4>2. CASE ToggleEcho
        BY <1>1, <4>2 DEF ToggleEcho, UiTyped
      <4>3. CASE ChangeWindow
        BY <1>1, <4>3 DEF ChangeWindow, UiTyped
      <4>4. CASE PauseForLeave
        BY <1>1, <4>4 DEF PauseForLeave, UiTyped
      <4> QED
        BY <2>2, <4>1, <4>2, <4>3, <4>4
    <3> QED
      BY <3>5, <3>6
  <2> QED
    BY <2>1, <2>2
<1>4. ServerInv'
  BY <1>1, <1>2, CallsStay DEF clientVars
<1> QED
  BY <1>1, <1>2, <1>3, <1>4, PartsNext, RuntimeStays, PageStays, ClientsStay, ScenarioStays

\* The worker's requests, and what it does with a command.
LEMMA WorkTyped ==
    /\ Requests \subseteq Work
    /\ \A t \in Topics \cup {None} : Settle(t) \in Work
    /\ \A w \in Work : w.op # "settle" => w \in Requests
    /\ \A w \in Work : w.op = "settle" => w \notin Requests /\ w.topic \in Topics \cup {None}
    /\ \A a, b \in Seq(Work) : a \o b \in Seq(Work)
    /\ <<>> \in Seq(Work) /\ \A w \in Work : <<w>> \in Seq(Work)
<1>1. \A a, b \in Seq(Work) : a \o b \in Seq(Work)
  BY ConcatProperties
<1>2. \A t \in Topics \cup {None} : Settle(t).op = "settle" /\ Settle(t).topic = t
  BY DEF Settle, Request
<1>3. \A r \in Requests : r.op # "settle"
  BY DEF Requests
<1> QED
  BY <1>1, <1>2, <1>3 DEF Work

\* The requests a command leads to.
LEMMA TodoTyped ==
    ASSUME WorkerTyped, NEW cmd \in MonitorCommands
    PROVE  Todo(cmd) \in Seq(Work)
<1>a. \A a, b \in Seq(Work) : a \o b \in Seq(Work)
  BY WorkTyped
<1>b. \A k \in Kinds : Stop(k) \in Work /\ \A t \in Topics : Start(k, t) \in Work
  BY RequestsTyped, WorkTyped
<1>c. \A t \in Topics \cup {None} : Settle(t) \in Work
  BY WorkTyped
<1>1. StopSessions \in Seq(Work)
  BY <1>b DEF StopSessions, Kinds
<1>2. ASSUME NEW t \in Topics PROVE StartSessions(t) \in Seq(Work)
  <2>1. Start("hz", t) \in Work /\ Start("bw", t) \in Work /\ Start("delay", t) \in Work /\ Settle(t) \in Work
    BY <1>b, <1>c DEF Kinds
  <2>2. <<Start("hz", t), Start("bw", t), Start("delay", t), Settle(t)>> \in Seq(Work)
    BY <2>1
  <2> QED
    BY <1>1, <1>a, <2>2 DEF StartSessions
<1>3. <<Stop("echo")>> \in Seq(Work) /\ <<Settle(None)>> \in Seq(Work) /\ <<>> \in Seq(Work)
  BY <1>b, <1>c, WorkTyped DEF Kinds
<1>4. worker.active # None => worker.active \in Topics /\ <<Start("echo", worker.active)>> \in Seq(Work)
  <2>1. worker.active # None => worker.active \in Topics
    BY DEF WorkerTyped
  <2> QED
    BY <1>b, <2>1, WorkTyped DEF Kinds
<1>5. cmd.name = "select" => cmd.arg \in Topics
  BY DEF MonitorCommands
<1> QED
  BY <1>1, <1>2, <1>3, <1>4, <1>5, <1>a DEF Todo

\* The worker takes a command or settles its topic.
LEMMA WorkerStep ==
    ASSUME SessionInv, ApplyCommand \/ SetActive
    PROVE  SessionInv'
<1>1. /\ ServerInv /\ RuntimeTyped /\ ScenarioTyped /\ ClientsTyped /\ UiTyped /\ WorkerTyped
      /\ PageTyped /\ ClientsPresent /\ MonitorPresent /\ RecorderPresent /\ FilterFollows
  BY Parts
<1>2. UNCHANGED <<scenario, faults, serverVars, runtimeVars, clientVars, ui, events, page>>
  BY DEF ApplyCommand, SetActive
<1>3. UiTyped'
  BY <1>1, <1>2 DEF UiTyped
<1>4. /\ inbox \in Seq(MonitorCommands) /\ events \in Seq(SUBSET Topics) /\ worker.todo \in Seq(Work)
      /\ worker \in [todo : Seq(Work), active : Topics \cup {None}, echo : BOOLEAN, okay : BOOLEAN]
  BY <1>1 DEF WorkerTyped
<1>5. CASE ApplyCommand
  <2> DEFINE cmd == Head(inbox)
             e == IF Head(inbox).name = "echo" THEN Head(inbox).arg ELSE worker.echo
  <2>1. /\ inbox # <<>> /\ Calls(Monitor) = {} /\ inbox' = Tail(inbox)
        /\ worker' = [worker EXCEPT !.todo = Todo(cmd), !.echo = e]
    BY <1>5 DEF ApplyCommand
  <2>2. cmd \in MonitorCommands /\ Tail(inbox) \in Seq(MonitorCommands)
    BY <1>4, <2>1, HeadTailProperties
  <2>3. e \in BOOLEAN
    BY <1>4, <2>2 DEF MonitorCommands
  <2>4. Todo(cmd) \in Seq(Work)
    BY <1>1, <2>2, TodoTyped
  <2>5. Monitor \in scenario.procs
    BY <1>1, <2>1 DEF MonitorPresent
  <2> HIDE DEF cmd, e
  <2>6. WorkerTyped' /\ MonitorPresent'
    BY <1>2, <1>4, <2>1, <2>2, <2>3, <2>4, <2>5 DEF WorkerTyped, MonitorPresent
  <2>7. ServerInv'
    <3>1. \A s \in Slots : conns[s] # None => conns[s].owner # Monitor
      BY <2>1 DEF Calls
    <3> QED
      BY <1>1, <1>2, <3>1, CallsStay DEF clientVars
  <2> QED
    BY <1>1, <1>2, <1>3, <2>6, <2>7, PartsNext, RuntimeStays, PageStays, ClientsStay, ScenarioStays
<1>6. CASE SetActive
  <2> DEFINE t == IF worker.okay THEN Head(worker.todo).topic ELSE None
             l == IF worker.echo /\ t # None THEN <<Start("echo", t)>> ELSE <<>>
  <2>1. /\ worker.todo # <<>> /\ Head(worker.todo).op = "settle"
        /\ worker' = [worker EXCEPT !.active = t, !.okay = TRUE, !.todo = l]
        /\ UNCHANGED inbox
    BY <1>6 DEF SetActive
  <2>2. Head(worker.todo) \in Work
    BY <1>4, <2>1, HeadTailProperties
  <2>3. t \in Topics \cup {None} /\ Head(worker.todo) \notin Requests
    BY <2>1, <2>2, WorkTyped
  <2>4. l \in Seq(Work)
    <3>1. t # None => Start("echo", t) \in Work
      BY <2>3, RequestsTyped, WorkTyped DEF Kinds
    <3> QED
      BY <3>1, WorkTyped
  <2>5. Monitor \in scenario.procs
    BY <1>1, <2>1 DEF MonitorPresent
  <2>6. ServerInv'
    <3>1. ASSUME NEW s \in Slots, conns[s] # None PROVE conns[s].owner # Monitor
      <4>1. conns[s].req \in Requests /\ CallOK(conns[s])
        BY <1>1, <3>1 DEF ServerInv, CallsInv, ConnsTyped, Connection
      <4> QED
        BY <2>1, <2>3, <4>1 DEF CallOK
    <3> QED
      BY <1>1, <1>2, <3>1, CallsStay DEF clientVars
  <2> HIDE DEF t, l
  <2>7. WorkerTyped' /\ MonitorPresent'
    BY <1>2, <1>4, <2>1, <2>3, <2>4, <2>5 DEF WorkerTyped, MonitorPresent
  <2> QED
    BY <1>1, <1>2, <1>3, <2>6, <2>7, PartsNext, RuntimeStays, PageStays, ClientsStay, ScenarioStays
<1> QED
  BY <1>5, <1>6

\* The worker makes a call.
LEMMA MonitorCallStep ==
    ASSUME SessionInv, MonitorCall \/ MonitorPoll
    PROVE  SessionInv'
<1>1. /\ ServerInv /\ RuntimeTyped /\ ScenarioTyped /\ ClientsTyped /\ UiTyped /\ WorkerTyped
      /\ PageTyped /\ ClientsPresent /\ MonitorPresent /\ RecorderPresent /\ FilterFollows
  BY Parts
<1>2. UNCHANGED <<scenario, faults, inFlight, queue, runtimeVars, clientVars, monitorVars, page>>
  BY DEF MonitorCall, MonitorPoll
<1>3. Monitor \in scenario.procs
  BY <1>1 DEF MonitorCall, MonitorPoll, MonitorPresent
<1>4. Monitor \in Procs /\ Monitor \notin Clients /\ Monitor # Recorder
  BY Sorts
<1>5. UNCHANGED worker /\ \A c \in Clients : phase'[c] = phase[c]
  BY <1>2 DEF monitorVars, clientVars
<1>6. ServerInv'
  <2>1. CASE MonitorCall
    <3>1. worker.todo # <<>> /\ Head(worker.todo).op # "settle" /\ Issue(Monitor, Head(worker.todo))
      BY <2>1 DEF MonitorCall
    <3>2. Head(worker.todo) \in Requests
      <4>1. worker.todo \in Seq(Work)
        BY <1>1 DEF WorkerTyped
      <4>2. Head(worker.todo) \in Work
        BY <3>1, <4>1, HeadTailProperties
      <4> QED
        BY <3>1, <4>2, WorkTyped
    <3> QED
      BY <1>1, <1>2, <1>3, <1>4, <1>5, <3>1, <3>2, CallMade
  <2>2. CASE MonitorPoll
    <3>1. worker.todo = <<>> /\ Issue(Monitor, Status("panel")) /\ Status("panel") \in Requests
      BY <2>2, RequestsTyped DEF MonitorPoll
    <3> QED
      BY <1>1, <1>2, <1>3, <1>4, <1>5, <3>1, CallMade
  <2> QED
    BY <2>1, <2>2
<1> QED
  BY <1>1, <1>2, <1>6, PartsNext, RuntimeStays, MonitorStays, PageStays, ClientsStay, ScenarioStays

\* The worker gets its answer, or gives up.
LEMMA MonitorReturnStep ==
    ASSUME SessionInv, MonitorReturn
    PROVE  SessionInv'
<1>1. /\ ServerInv /\ RuntimeTyped /\ ScenarioTyped /\ ClientsTyped /\ UiTyped /\ WorkerTyped
      /\ PageTyped /\ ClientsPresent /\ MonitorPresent /\ RecorderPresent /\ FilterFollows
  BY Parts
<1>2. PICK out \in Answers(Monitor) :
          /\ Returns(Monitor, out)
          /\ IF worker.todo = <<>>
             THEN /\ \E shown \in Snapshots(out) : events' = Append(events, shown)
                  /\ UNCHANGED worker
             ELSE /\ worker' = [worker EXCEPT !.todo = Tail(@),
                       !.okay = @ /\ ~( /\ out.outcome = "failed"
                                        /\ Head(worker.todo).op = "start"
                                        /\ Head(worker.todo).kind \in {"hz", "bw"} )]
                  /\ UNCHANGED events
          /\ UNCHANGED <<scenario, inFlight, queue, runtimeVars, clientVars, ui, inbox, page>>
  BY DEF MonitorReturn
<1>3. Monitor \in Procs /\ Monitor \notin Clients /\ Monitor # Recorder
  BY Sorts
<1>4. /\ Drops(Monitor)
      /\ faults' = faults \/ \E f \in Faults : faults' = faults \cup {f}
      /\ \E s \in Calls(Monitor) : CallOK(conns[s]) /\ Fits(conns[s].req, out)
  BY <1>1, <1>2, <1>3, ReturnsFit
<1>5. ServerInv'
  <2>1. \A c \in Clients : phase'[c] = phase[c]
    BY <1>2 DEF clientVars
  <2> QED
    BY <1>1, <1>2, <1>3, <1>4, <2>1, CallEnded
<1>6. /\ inbox \in Seq(MonitorCommands) /\ events \in Seq(SUBSET Topics) /\ worker.todo \in Seq(Work)
      /\ worker \in [todo : Seq(Work), active : Topics \cup {None}, echo : BOOLEAN, okay : BOOLEAN]
  BY <1>1 DEF WorkerTyped
<1>7. UiTyped'
  BY <1>1, <1>2 DEF UiTyped
<1>8. WorkerTyped' /\ MonitorPresent'
  <2>1. CASE worker.todo = <<>>
    <3>1. PICK shown \in Snapshots(out) : events' = Append(events, shown)
      BY <1>2, <2>1
    <3>2. shown \subseteq Topics
      <4>1. CASE out.outcome = "ok"
        <5>1. PICK s \in Calls(Monitor) : CallOK(conns[s]) /\ Fits(conns[s].req, out)
          BY <1>4
        <5>2. conns[s].req.kind = "panel"
          BY <1>3, <2>1, <5>1 DEF CallOK, Calls, Status, Request
        <5>3. out.val \in Panel
          BY <4>1, <5>1, <5>2 DEF Fits
        <5>4. {out.val[k].topic : k \in {k \in DOMAIN out.val : out.val[k] # None}} \subseteq Topics
          BY <5>3 DEF Panel, SessionType
        <5> QED
          BY <5>4 DEF Snapshots
      <4>2. CASE out.outcome # "ok"
        BY <4>2 DEF Snapshots
      <4> QED
        BY <4>1, <4>2
    <3>3. events' \in Seq(SUBSET Topics)
      BY <1>6, <3>1, <3>2, AppendProperties
    <3> QED
      BY <1>1, <1>2, <1>6, <2>1, <3>3 DEF WorkerTyped, MonitorPresent
  <2>2. CASE worker.todo # <<>>
    <3> DEFINE ok == worker.okay /\ ~( /\ out.outcome = "failed"
                                       /\ Head(worker.todo).op = "start"
                                       /\ Head(worker.todo).kind \in {"hz", "bw"} )
    <3>1. worker' = [worker EXCEPT !.todo = Tail(@), !.okay = ok] /\ UNCHANGED events
      BY <1>2, <2>2
    <3>2. ok \in BOOLEAN
      OBVIOUS
    <3>3. Tail(worker.todo) \in Seq(Work)
      BY <1>6, <2>2, HeadTailProperties
    <3> HIDE DEF ok
    <3>4. WorkerTyped'
      BY <1>2, <1>6, <3>1, <3>2, <3>3 DEF WorkerTyped
    <3>5. Monitor \in scenario.procs
      BY <1>1, <2>2 DEF MonitorPresent
    <3> QED
      BY <1>2, <3>4, <3>5 DEF MonitorPresent
  <2> QED
    BY <2>1, <2>2
<1>9. ScenarioTyped'
  BY <1>1, <1>2, <1>4, ScenarioStays
<1> QED
  BY <1>1, <1>2, <1>5, <1>7, <1>8, <1>9, PartsNext, RuntimeStays, PageStays, ClientsStay

\* The Bag Recorder page and its worker.
LEMMA PageStep ==
    ASSUME SessionInv,
           (\E t \in Topics : PressStart(t)) \/ PressStop \/ PressPause \/ RecorderDrain
    PROVE  SessionInv'
<1>1. /\ ServerInv /\ RuntimeTyped /\ ScenarioTyped /\ ClientsTyped /\ UiTyped /\ WorkerTyped
      /\ PageTyped /\ ClientsPresent /\ MonitorPresent /\ RecorderPresent /\ FilterFollows
  BY Parts
<1>2. UNCHANGED <<scenario, faults, serverVars, runtimeVars, clientVars, monitorVars>>
  BY DEF PressStart, PressStop, PressPause, RecorderDrain, Press
<1>3. /\ page \in [shown : SessionType \cup {None}, inbox : Seq(BagRequests),
                   events : Seq(SessionType \cup {None}), pc : {"recv", "command", "poll", "polling"}]
      /\ page.inbox \in Seq(BagRequests) /\ page.events \in Seq(SessionType \cup {None})
      /\ page.shown \in SessionType \cup {None}
  BY <1>1 DEF PageTyped
<1>4. PageTyped' /\ RecorderPresent'
  <2>1. CASE RecorderDrain
    <3>1. page.events # <<>> /\ page' = [page EXCEPT !.shown = Last(page.events), !.events = <<>>]
      BY <2>1 DEF RecorderDrain
    <3>2. Last(page.events) \in SessionType \cup {None}
      <4> DEFINE es == page.events
                 T == SessionType \cup {None}
      <4>1. es \in Seq(T) /\ es # <<>>
        BY <1>3, <3>1
      <4> HIDE DEF es, T
      <4>2. Len(es) \in 1 .. Len(es)
        BY <4>1, EmptySeq, LenProperties
      <4>3. es[Len(es)] \in T
        BY <4>1, <4>2, ElementOfSeq
      <4> QED
        BY <4>3 DEF Last, es, T
    <3>3. <<>> \in Seq(SessionType \cup {None})
      OBVIOUS
    <3>4. PageTyped'
      BY <1>3, <3>1, <3>2, <3>3 DEF PageTyped
    <3>5. page'.inbox = page.inbox
      BY <1>3, <3>1
    <3> QED
      BY <1>1, <1>2, <3>4, <3>5 DEF RecorderPresent
  <2>2. CASE (\E t \in Topics : PressStart(t)) \/ PressStop \/ PressPause
    <3>1. \E req \in BagRequests : Press(req)
      <4>1. ASSUME NEW t \in Topics, PressStart(t) PROVE \E req \in BagRequests : Press(req)
        BY <4>1, RequestsTyped DEF PressStart
      <4>2. CASE PressStop
        BY <4>2, RequestsTyped DEF PressStop
      <4>3. CASE PressPause
        <5>1. page.shown \in SessionType
          BY <1>3, <4>3 DEF PressPause
        <5>2. (~page.shown.flag) \in BOOLEAN
          BY <5>1 DEF SessionType
        <5> QED
          BY <4>3, <5>2, RequestsTyped DEF PressPause
      <4> QED
        BY <2>2, <4>1, <4>2, <4>3
    <3>2. PICK req \in BagRequests : Press(req)
      BY <3>1
    <3>3. Recorder \in scenario.procs /\ page' = [page EXCEPT !.inbox = Append(@, req)]
      BY <3>2 DEF Press
    <3>4. Append(page.inbox, req) \in Seq(BagRequests)
      BY <1>3, AppendProperties
    <3> QED
      BY <1>2, <1>3, <3>3, <3>4 DEF PageTyped, RecorderPresent
  <2> QED
    BY <2>1, <2>2
<1>5. ServerInv'
  BY <1>1, <1>2, CallsStay DEF clientVars, monitorVars
<1> QED
  BY <1>1, <1>2, <1>4, <1>5, PartsNext, RuntimeStays, MonitorStays, ClientsStay, ScenarioStays

\* The worker of the page makes a call, ...
LEMMA RecorderCallStep ==
    ASSUME SessionInv, RecorderCommand \/ RecorderPoll
    PROVE  SessionInv'
<1>1. /\ ServerInv /\ RuntimeTyped /\ ScenarioTyped /\ ClientsTyped /\ UiTyped /\ WorkerTyped
      /\ PageTyped /\ ClientsPresent /\ MonitorPresent /\ RecorderPresent /\ FilterFollows
  BY Parts
<1>2. UNCHANGED <<scenario, faults, inFlight, queue, runtimeVars, clientVars, monitorVars>>
  BY DEF RecorderCommand, RecorderPoll
<1>3. Recorder \in scenario.procs
  BY <1>1 DEF RecorderCommand, RecorderPoll, RecorderPresent
<1>4. Recorder \in Procs /\ Recorder \notin Clients /\ Monitor # Recorder
  BY Sorts
<1>5. /\ page \in [shown : SessionType \cup {None}, inbox : Seq(BagRequests),
                   events : Seq(SessionType \cup {None}), pc : {"recv", "command", "poll", "polling"}]
      /\ page.inbox \in Seq(BagRequests)
  BY <1>1 DEF PageTyped
<1>6. \E req \in BagRequests : Issue(Recorder, req)
  <2>1. CASE RecorderCommand
    <3>1. Head(page.inbox) \in BagRequests
      BY <1>5, <2>1, HeadTailProperties DEF RecorderCommand
    <3> QED
      BY <2>1, <3>1 DEF RecorderCommand
  <2>2. CASE RecorderPoll
    <3>1. Status("bag") \in BagRequests
      BY RequestsTyped DEF Status, Request, BagRequests, Kinds
    <3> QED
      BY <2>2, <3>1 DEF RecorderPoll
  <2> QED
    BY <2>1, <2>2
<1>7. ServerInv'
  <2>1. PICK req \in BagRequests : Issue(Recorder, req)
    BY <1>6
  <2>2. req \in Requests /\ req.kind = "bag"
    BY DEF BagRequests
  <2>3. UNCHANGED worker /\ \A c \in Clients : phase'[c] = phase[c]
    BY <1>2 DEF monitorVars, clientVars
  <2> QED
    BY <1>1, <1>2, <1>3, <1>4, <2>1, <2>2, <2>3, CallMade
<1>8. PageTyped'
  <2>1. CASE RecorderCommand
    <3>1. page.inbox # <<>> /\ page' = [page EXCEPT !.inbox = Tail(@), !.pc = "command"]
      BY <2>1 DEF RecorderCommand
    <3>2. Tail(page.inbox) \in Seq(BagRequests)
      BY <1>5, <3>1, HeadTailProperties
    <3> QED
      BY <1>5, <3>1, <3>2 DEF PageTyped
  <2>2. CASE RecorderPoll
    BY <1>5, <2>2 DEF RecorderPoll, PageTyped
  <2> QED
    BY <2>1, <2>2
<1>9. RecorderPresent'
  BY <1>2, <1>3 DEF RecorderPresent
<1> QED
  BY <1>1, <1>2, <1>7, <1>8, <1>9, PartsNext, RuntimeStays, MonitorStays, ClientsStay, ScenarioStays

\* ... and gets its answer, or gives up.
LEMMA RecorderReturnStep ==
    ASSUME SessionInv, RecorderReturn
    PROVE  SessionInv'
<1>1. /\ ServerInv /\ RuntimeTyped /\ ScenarioTyped /\ ClientsTyped /\ UiTyped /\ WorkerTyped
      /\ PageTyped /\ ClientsPresent /\ MonitorPresent /\ RecorderPresent /\ FilterFollows
  BY Parts
<1>2. PICK out \in Answers(Recorder), n \in Calls(Recorder) :
          /\ Returns(Recorder, out)
          /\ page' = [page EXCEPT
               !.pc = IF page.pc = "command" THEN "poll" ELSE "recv",
               !.events = IF out.outcome = "ok" /\ conns[n].req.op # "pause"
                          THEN Append(@, out.val) ELSE @]
          /\ UNCHANGED <<scenario, inFlight, queue, runtimeVars, clientVars, monitorVars>>
  BY DEF RecorderReturn
<1>3. Recorder \in Procs /\ Recorder \notin Clients /\ Monitor # Recorder
  BY Sorts
<1>4. /\ Drops(Recorder)
      /\ faults' = faults \/ \E f \in Faults : faults' = faults \cup {f}
      /\ \E s \in Calls(Recorder) : CallOK(conns[s]) /\ Fits(conns[s].req, out)
  BY <1>1, <1>2, <1>3, ReturnsFit
<1>5. ServerInv'
  <2>1. UNCHANGED worker /\ \A c \in Clients : phase'[c] = phase[c]
    BY <1>2 DEF monitorVars, clientVars
  <2> QED
    BY <1>1, <1>2, <1>3, <1>4, <2>1, CallEnded
<1>6. PageTyped' /\ page'.inbox = page.inbox
  <2>1. /\ page \in [shown : SessionType \cup {None}, inbox : Seq(BagRequests),
                     events : Seq(SessionType \cup {None}), pc : {"recv", "command", "poll", "polling"}]
        /\ page.events \in Seq(SessionType \cup {None})
    BY <1>1 DEF PageTyped
  <2> DEFINE es == IF out.outcome = "ok" /\ conns[n].req.op # "pause"
                   THEN Append(page.events, out.val) ELSE page.events
  <2>2. es \in Seq(SessionType \cup {None})
    <3>1. out.outcome = "ok" => out.val \in SessionType \cup {None}
      BY <1>3, <1>4 DEF Calls, CallOK, Fits
    <3>2. out.outcome = "ok" => Append(page.events, out.val) \in Seq(SessionType \cup {None})
      BY <2>1, <3>1, AppendProperties
    <3> QED
      BY <2>1, <3>2
  <2>3. page' = [page EXCEPT !.pc = IF page.pc = "command" THEN "poll" ELSE "recv", !.events = es]
    BY <1>2
  <2> HIDE DEF es
  <2> QED
    BY <2>1, <2>2, <2>3 DEF PageTyped
<1>7. RecorderPresent'
  BY <1>1, <1>2, <1>6 DEF RecorderPresent
<1>8. ScenarioTyped'
  BY <1>1, <1>2, <1>4, ScenarioStays
<1> QED
  BY <1>1, <1>2, <1>5, <1>6, <1>7, <1>8, PartsNext, RuntimeStays, MonitorStays, ClientsStay

----------------------------------------------------------------------------
(* The theorem.                                                            *)

\* The invariant holds at first, ...
LEMMA Starts == Init => SessionInv
<1> SUFFICES ASSUME Init PROVE SessionInv
  OBVIOUS
<1>1. \A s \in Slots : conns[s] = None
  BY DEF Init
<1>2. ServerInv
  <2>1. Handlers = {}
    BY <1>1 DEF Handlers
  <2>2. Cardinality(Handlers) = 0
    BY <2>1, FS_EmptySet
  <2>3. HandlersExact
    <3>1. inFlight = 0 /\ 0 <= MaxInFlight /\ DOMAIN queue = {}
      BY BoundAssumption DEF Init
    <3> QED
      BY <1>1, <2>2, <3>1 DEF HandlersExact
  <2>4. ConnsTyped /\ Queued /\ CallsInv
    BY <1>1 DEF Init, ConnsTyped, Queued, CallsInv
  <2> QED
    BY <2>3, <2>4 DEF ServerInv
<1>3. RuntimeTyped /\ FilterFollows
  BY DEF Init, RuntimeTyped, FilterFollows, ObservedTopics, Active
<1>4. ScenarioTyped /\ ClientsTyped /\ UiTyped /\ ClientsPresent
  BY DEF Init, ScenarioTyped, ClientsTyped, UiTyped, ClientsPresent, Phases
<1>5. WorkerTyped /\ MonitorPresent
  BY DEF Init, WorkerTyped, MonitorPresent
<1>6. PageTyped /\ RecorderPresent
  BY DEF Init, PageTyped, RecorderPresent
<1> QED
  BY <1>2, <1>3, <1>4, <1>5, <1>6, Parts

\* ... and every step keeps it.
LEMMA Steps == SessionInv /\ [Next]_vars => SessionInv'
<1> SUFFICES ASSUME SessionInv, [Next]_vars PROVE SessionInv'
  OBVIOUS
<1>1. CASE Server \/ \E s \in Slots : CommandTimeout(s)
  BY <1>1, ServerStep DEF Server
<1>2. CASE HandleRuntimeCommand \/ DelayFlag
  BY <1>2, RuntimeStep
<1>3. CASE \E c \in Clients : ClientStart(c) \/ ClientPoll(c) \/ ClientPause(c) \/ ClientStop(c)
                              \/ ClientReturn(c) \/ Kill(c)
  BY <1>3, ClientCallStep, ClientReturnStep, KillStep
<1>4. CASE (\E t \in Topics : ClickTopic(t)) \/ ToggleEcho \/ ChangeWindow \/ PauseForLeave \/ DrainEvents
  BY <1>4, InputStep
<1>5. CASE MonitorWorker
  BY <1>5, WorkerStep, MonitorCallStep, MonitorReturnStep DEF MonitorWorker
<1>6. CASE (\E t \in Topics : PressStart(t)) \/ PressStop \/ PressPause \/ RecorderDrain
  BY <1>6, PageStep
<1>7. CASE RecorderWorker
  BY <1>7, RecorderCallStep, RecorderReturnStep DEF RecorderWorker
<1>8. CASE UNCHANGED vars
  <2>1. /\ ServerInv /\ RuntimeTyped /\ ScenarioTyped /\ ClientsTyped /\ UiTyped /\ WorkerTyped
        /\ PageTyped /\ ClientsPresent /\ MonitorPresent /\ RecorderPresent /\ FilterFollows
    BY Parts
  <2>2. UNCHANGED <<scenario, faults, serverVars, runtimeVars, clientVars, monitorVars, page>>
    BY <1>8 DEF vars
  <2>3. ServerInv'
    BY <2>1, <2>2, CallsStay DEF clientVars, monitorVars
  <2> QED
    BY <2>1, <2>2, <2>3, PartsNext, RuntimeStays, MonitorStays, PageStays, ClientsStay, ScenarioStays
<1> QED
  BY <1>1, <1>2, <1>3, <1>4, <1>5, <1>6, <1>7, <1>8 DEF Next

\* Whatever the clients, the pages and the faults do, the command server and
\* the runtime keep their books: in_flight counts the handler threads and
\* stays within its limit, each waiting handler owns one command of the
\* channel (command/server.rs), and the filter and the shadow subscribers are
\* synchronised with the sessions that are active (runtime/command.rs).
THEOREM ServerKeepsBooks == Spec => []ServerExact
<1>1. Spec => []SessionInv
  BY Starts, Steps, PTL DEF Spec
<1>2. SessionInv => ServerExact
  BY DEF SessionInv, ServerExact
<1> QED
  BY <1>1, <1>2, PTL

----------------------------------------------------------------------------
(* Who holds a session.                                                    *)

\* The runtime has answered the call.
Handled(s) == conns[s].stage \in {"replied", "answered"}

\* A process that has started a session of its kind and has not stopped it.
ClientHolds(c) ==
    \/ phase[c] \in {"watching", "polling", "leaving"}
    \/ phase[c] = "untyped" /\ Kind[c] = "echo"
    \/ phase[c] = "starting" /\ \E s \in Calls(c) : Handled(s) /\ conns[s].reply.outcome = "ok"
    \/ phase[c] = "pausing" /\ \E s \in Calls(c) : Handled(s) => conns[s].reply.val # None
    \/ phase[c] = "stopping" /\ \E s \in Calls(c) : ~Handled(s)

\* The worker of the Topic Monitor: its plan ends on a topic, ...
Settles == worker.todo # <<>> /\ worker.todo[Len(worker.todo)].op = "settle"
Shows == IF Settles THEN worker.todo[Len(worker.todo)].topic # None ELSE worker.active # None

\* ... or stops the session on its way.
StopAhead(k) ==
    \E i \in DOMAIN worker.todo :
        worker.todo[i] = Stop(k) /\ (i = 1 => \A s \in Calls(Monitor) : ~Handled(s))
MonitorHolds(k) == StopAhead(k) \/ (Shows /\ (k = "echo" => worker.echo))

Held(k) ==
    \/ \E c \in Clients : Kind[c] = k /\ ClientHolds(c)
    \/ k # "bag" /\ MonitorHolds(k)
    \/ k = "bag" /\ Recorder \in scenario.procs
AllHeld == \A k \in Active(sessions) : Held(k)

\* What the worker starts it means to show.
Plan ==
    \A i \in DOMAIN worker.todo :
        /\ worker.todo[i].op = "settle" => i = Len(worker.todo)
        /\ worker.todo[i].op = "start" /\ worker.todo[i].kind # "echo" =>
               Settles /\ Shows /\ worker.todo[i].kind # "bag"
        /\ worker.todo[i].op = "start" /\ worker.todo[i].kind = "echo" =>
               Len(worker.todo) = 1 /\ worker.active # None /\ worker.echo

\* Without faults every call is waited for and gets the runtime's answer.
CallsServed ==
    \A s \in Slots : conns[s] # None =>
        /\ conns[s].owner # None
        /\ Handled(s) => /\ conns[s].reply.outcome # "failed"
                         /\ conns[s].req.op \in {"status", "pause"} => conns[s].reply.outcome = "ok"
NoneAbandoned == \A i \in DOMAIN queue : queue[i].slot # None
Undisturbed == CallsServed /\ NoneAbandoned /\ worker.okay

\* The inductive invariant of NoOrphans: without faults, every active session is held.
HoldInv == faults = {} => Undisturbed /\ Plan /\ AllHeld

\* The calls of p stay as they are.
SameCalls(p) ==
    \A s \in Slots : /\ s \in Calls(p)' <=> s \in Calls(p)
                     /\ s \in Calls(p) => /\ Handled(s)' <=> Handled(s)
                                          /\ Handled(s) => conns'[s].reply = conns[s].reply

\* A process holds on to its session while its call stays as it is.
LEMMA ClientHoldsKept ==
    ASSUME NEW c, ClientHolds(c), phase'[c] = phase[c], SameCalls(c)
    PROVE  ClientHolds(c)'
<1>1. \A s \in Calls(c) : /\ s \in Calls(c)' /\ (Handled(s)' <=> Handled(s))
                          /\ Handled(s) => conns'[s].reply = conns[s].reply
  BY DEF SameCalls, Calls
<1>2. CASE phase[c] \in {"watching", "polling", "leaving", "untyped"}
  BY <1>2 DEF ClientHolds
<1>3. CASE phase[c] = "starting"
  <2>1. PICK s \in Calls(c) : Handled(s) /\ conns[s].reply.outcome = "ok"
    BY <1>3 DEF ClientHolds
  <2>2. s \in Calls(c)' /\ Handled(s)' /\ conns'[s].reply.outcome = "ok"
    BY <1>1, <2>1
  <2> QED
    BY <1>3, <2>2 DEF ClientHolds
<1>4. CASE phase[c] = "pausing"
  <2>1. PICK s \in Calls(c) : Handled(s) => conns[s].reply.val # None
    BY <1>4 DEF ClientHolds
  <2>2. s \in Calls(c)' /\ (Handled(s)' => conns'[s].reply.val # None)
    BY <1>1, <2>1
  <2> QED
    BY <1>4, <2>2 DEF ClientHolds
<1>5. CASE phase[c] = "stopping"
  <2>1. PICK s \in Calls(c) : ~Handled(s)
    BY <1>5 DEF ClientHolds
  <2>2. s \in Calls(c)' /\ ~Handled(s)'
    BY <1>1, <2>1
  <2> QED
    BY <1>5, <2>2 DEF ClientHolds
<1> QED
  BY <1>2, <1>3, <1>4, <1>5 DEF ClientHolds

\* A step of somebody else.
MonitorCallsOn == \A s \in Slots : s \in Calls(Monitor)' /\ Handled(s)' => s \in Calls(Monitor) /\ Handled(s)

\* The worker holds on to its sessions while its calls are not answered.
LEMMA MonitorHoldsKept ==
    ASSUME NEW k, MonitorHolds(k), UNCHANGED worker, MonitorCallsOn
    PROVE  MonitorHolds(k)'
<1>1. CASE StopAhead(k)
  <2>1. PICK i \in DOMAIN worker.todo :
            worker.todo[i] = Stop(k) /\ (i = 1 => \A s \in Calls(Monitor) : ~Handled(s))
    BY <1>1 DEF StopAhead
  <2>2. i = 1 => \A s \in Calls(Monitor)' : ~Handled(s)'
    BY <2>1 DEF MonitorCallsOn, Calls
  <2>3. StopAhead(k)'
    BY <2>1, <2>2 DEF StopAhead
  <2> QED
    BY <2>3 DEF MonitorHolds
<1>2. CASE Shows /\ (k = "echo" => worker.echo)
  BY <1>2 DEF MonitorHolds, Shows, Settles
<1> QED
  BY <1>1, <1>2 DEF MonitorHolds

\* Sessions stay held while their holders hold on.
LEMMA HeldKept ==
    ASSUME AllHeld, UNCHANGED <<scenario, sessions>>,
           \A c \in Clients : ClientHolds(c) => ClientHolds(c)',
           \A k \in Kinds : MonitorHolds(k) => MonitorHolds(k)'
    PROVE  AllHeld'
<1>1. ASSUME NEW k \in Active(sessions) PROVE Held(k)'
  <2>1. k \in Kinds /\ Held(k)
    BY DEF AllHeld, Active
  <2> QED
    BY <2>1 DEF Held
<1> QED
  BY <1>1 DEF AllHeld, Active

\* A step that leaves the calls, the worker and the processes alone.
LEMMA HoldStays ==
    ASSUME Undisturbed, Plan, AllHeld,
           UNCHANGED <<scenario, conns, queue, phase, worker>>, Active(sessions') = Active(sessions)
    PROVE  Undisturbed' /\ Plan' /\ AllHeld'
<1>1. Undisturbed'
  BY DEF Undisturbed, CallsServed, NoneAbandoned, Handled
<1>2. Plan'
  BY DEF Plan, Settles, Shows
<1>3. AllHeld'
  BY DEF AllHeld, Held, ClientHolds, MonitorHolds, StopAhead, Shows, Settles, Calls, Handled
<1> QED
  BY <1>1, <1>2, <1>3

\* A handler takes its connection one stage on.
LEMMA ServerHolds ==
    ASSUME SessionInv, Undisturbed, Plan, AllHeld, faults' = {}, NEW s \in Slots,
           Accept(s) \/ HandleClient(s) \/ Respond(s)
    PROVE  Undisturbed' /\ Plan' /\ AllHeld'
<1>1. /\ conns \in [Slots -> Connection \cup {None}] /\ Queued /\ CallsServed /\ NoneAbandoned
      /\ worker.okay
  BY Parts DEF ServerInv, ConnsTyped, Undisturbed
<1>2. UNCHANGED <<scenario, sessions, phase, worker>>
  BY DEF Accept, HandleClient, Respond, runtimeVars, clientVars, monitorVars
<1>3. conns[s] # None /\ conns[s] \in Connection /\ conns[s].owner # None
  BY <1>1 DEF Accept, HandleClient, Respond, CallsServed
<1>4. \E c \in Connection :
          /\ conns' = [conns EXCEPT ![s] = c] /\ c.owner = conns[s].owner /\ c.req = conns[s].req
          /\ c.stage \in {"replied", "answered"} <=> Handled(s)
          /\ Handled(s) => c.reply = conns[s].reply
  <2>1. CASE Accept(s)
    <3> DEFINE c == [conns[s] EXCEPT !.stage = "reading"]
    <3>1. conns[s].stage = "connected" /\ conns' = [conns EXCEPT ![s] = c]
      BY <2>1 DEF Accept
    <3>2. c \in Connection /\ c.owner = conns[s].owner /\ c.req = conns[s].req /\ c.stage = "reading"
      BY <1>3 DEF Connection
    <3> HIDE DEF c
    <3> QED
      BY <3>1, <3>2 DEF Handled
  <2>2. CASE HandleClient(s)
    <3> DEFINE c == [conns[s] EXCEPT !.stage = "waiting"]
    <3>1. conns[s].stage = "reading" /\ conns' = [conns EXCEPT ![s] = c]
      BY <1>3, <2>2 DEF HandleClient
    <3>2. c \in Connection /\ c.owner = conns[s].owner /\ c.req = conns[s].req /\ c.stage = "waiting"
      BY <1>3 DEF Connection
    <3> HIDE DEF c
    <3> QED
      BY <3>1, <3>2 DEF Handled
  <2>3. CASE Respond(s)
    <3> DEFINE c == Written(s, conns[s].reply)
    <3>1. conns[s].stage = "replied" /\ conns' = [conns EXCEPT ![s] = c]
      BY <2>3 DEF Respond
    <3>2. conns[s].reply \in Replies
      <4>1. CallOK(conns[s])
        BY <1>3, Parts DEF ServerInv, CallsInv
      <4> QED
        BY <3>1, <4>1 DEF CallOK, Fits
    <3>3. c = [conns[s] EXCEPT !.stage = "answered", !.reply = conns[s].reply]
      BY <1>3 DEF Written
    <3>4. /\ c \in Connection /\ c.owner = conns[s].owner /\ c.req = conns[s].req
          /\ c.stage = "answered" /\ c.reply = conns[s].reply
      BY <1>3, <3>2, <3>3 DEF Connection
    <3> HIDE DEF c
    <3> QED
      BY <3>1, <3>4 DEF Handled
  <2> QED
    BY <2>1, <2>2, <2>3
<1>5. PICK c \in Connection :
          /\ conns' = [conns EXCEPT ![s] = c] /\ c.owner = conns[s].owner /\ c.req = conns[s].req
          /\ c.stage \in {"replied", "answered"} <=> Handled(s)
          /\ Handled(s) => c.reply = conns[s].reply
  BY <1>4
<1>6. ASSUME NEW r \in Slots
      PROVE  /\ conns'[r] # None <=> conns[r] # None
             /\ conns[r] # None =>
                    /\ conns'[r].owner = conns[r].owner /\ conns'[r].req = conns[r].req
                    /\ Handled(r)' <=> Handled(r)
                    /\ Handled(r) => conns'[r].reply = conns[r].reply
  <2>1. c # None
    BY Sorts
  <2>2. CASE r = s
    BY <1>1, <1>3, <1>5, <2>1, <2>2 DEF Handled
  <2>3. CASE r # s
    BY <1>1, <1>5, <2>3 DEF Handled
  <2> QED
    BY <2>2, <2>3
<1>7. CallsServed'
  BY <1>1, <1>6 DEF CallsServed
<1>8. NoneAbandoned'
  <2>1. CASE HandleClient(s)
    <3>1. queue' = Append(queue, [slot |-> s, req |-> conns[s].req]) /\ s # None
      BY <1>3, <2>1, Sorts DEF HandleClient
    <3>2. Len(queue) \in Nat /\ DOMAIN queue = 1 .. Len(queue)
      BY <1>1, LenProperties DEF Queued
    <3> DEFINE m == [slot |-> s, req |-> conns[s].req]
    <3>3. m.slot = s
      OBVIOUS
    <3> HIDE DEF m
    <3>4. DOMAIN queue' = 1 .. Len(queue) + 1
          /\ \A i \in 1 .. Len(queue) + 1 : queue'[i] = IF i = Len(queue) + 1 THEN m ELSE queue[i]
      BY <1>1, <3>1, <3>2 DEF m, Queued
    <3> QED
      BY <1>1, <3>1, <3>2, <3>3, <3>4 DEF NoneAbandoned
  <2>2. CASE Accept(s) \/ Respond(s)
    BY <1>1, <2>2 DEF Accept, Respond, NoneAbandoned
  <2> QED
    BY <2>1, <2>2
<1>9. \A p : SameCalls(p) 
  BY <1>6 DEF SameCalls, Calls
<1>10. Plan'
  BY <1>2 DEF Plan, Settles, Shows
<1>11. AllHeld'
  <2>1. ASSUME NEW d \in Clients, ClientHolds(d) PROVE ClientHolds(d)'
    BY <1>2, <1>9, <2>1, ClientHoldsKept
  <2>2. MonitorCallsOn
    BY <1>9 DEF MonitorCallsOn, SameCalls
  <2>3. ASSUME NEW k \in Kinds, MonitorHolds(k) PROVE MonitorHolds(k)'
    BY <1>2, <2>2, <2>3, MonitorHoldsKept
  <2> QED
    BY <1>2, <2>1, <2>3, HeldKept
<1> QED
  BY <1>1, <1>2, <1>7, <1>8, <1>10, <1>11 DEF Undisturbed

\* The handler of the runtime's next command waits for it.
LEMMA HeadWaits ==
    ASSUME ServerInv, queue # <<>>
    PROVE  /\ Head(queue) \in [slot : Slots \cup {None}, req : Requests]
           /\ Head(queue).slot # None => /\ Head(queue).slot \in Slots
                                         /\ Waits(Head(queue).slot)
                                         /\ conns[Head(queue).slot].req = Head(queue).req
           /\ 1 \in DOMAIN queue /\ Head(queue) = queue[1]
           /\ \A i \in DOMAIN Tail(queue) : i + 1 \in DOMAIN queue /\ Tail(queue)[i] = queue[i + 1]
<1> DEFINE M == [slot : Slots \cup {None}, req : Requests]
           m == Head(queue)
<1>1. queue \in Seq(M) /\ queue # <<>> /\ AllMatched
  BY MatchedAll DEF ServerInv, Queued
<1> HIDE DEF M
<1>2. m \in M /\ Tail(queue) \in Seq(M) /\ Len(Tail(queue)) = Len(queue) - 1
      /\ \A i \in 1 .. Len(Tail(queue)) : Tail(queue)[i] = queue[i + 1]
  BY <1>1, HeadTailProperties
<1>3. Len(queue) \in Nat \ {0} /\ DOMAIN queue = 1 .. Len(queue)
      /\ DOMAIN Tail(queue) = 1 .. Len(Tail(queue))
  BY <1>1, <1>2, EmptySeq, LenProperties
<1>4. m = queue[1] /\ 1 \in DOMAIN queue
  BY <1>1, <1>3
<1>5. \A i \in DOMAIN Tail(queue) : i + 1 \in DOMAIN queue /\ Tail(queue)[i] = queue[i + 1]
  BY <1>2, <1>3
<1>6. m.slot # None => m.slot \in Slots /\ Waits(m.slot) /\ conns[m.slot].req = m.req
  <2> SUFFICES ASSUME m.slot # None
               PROVE  m.slot \in Slots /\ Waits(m.slot) /\ conns[m.slot].req = m.req
    OBVIOUS
  <2>1. m.slot \in Slots
    BY <1>2 DEF M
  <2> HIDE DEF m
  <2>2. Matched(queue, m.slot) /\ queue[1].slot = m.slot /\ queue[1].req = m.req
    BY <1>1, <1>4, <2>1 DEF AllMatched
  <2> QED
    BY <1>4, <2>1, <2>2 DEF Matched
<1> QED
  BY <1>2, <1>4, <1>5, <1>6 DEF M

\* What a command does to the sessions of kind k.
LEMMA SessionsMove ==
    ASSUME sessions \in [Kinds -> SessionType \cup {None}], NEW req \in Requests,
           NEW fails \in BOOLEAN, fails => MayFail(req), NEW k \in Kinds,
           SessionsAfter(req, fails)[k] # None
    PROVE  /\ ~(req.op = "stop" /\ req.kind = k)
           /\ sessions[k] = None =>
                  /\ req.op = "start" /\ req.kind = k
                  /\ ReplyTo(req, fails).outcome = "ok"
<1>a. /\ req.op \in {"start", "stop", "status", "pause"} /\ req.kind \in Kinds \cup {"panel"}
      /\ req.topic \in Topics \cup {None} /\ req.flag \in BOOLEAN
  BY DEF Requests
<1>1. ~(req.op = "stop" /\ req.kind = k)
  BY DEF SessionsAfter
<1>2. ASSUME sessions[k] = None PROVE req.op = "start" /\ req.kind = k /\ ~Refused(req) /\ ~fails
  BY <1>2, <1>a DEF SessionsAfter, Kinds
<1>3. req.op = "start" /\ ~Refused(req) /\ ~fails => ReplyTo(req, fails).outcome = "ok"
  BY DEF ReplyTo, Reply, Error
<1> QED
  BY <1>1, <1>2, <1>3

\* The answers of the runtime.
LEMMA RepliesAre ==
    ASSUME sessions \in [Kinds -> SessionType \cup {None}], NEW req \in Requests,
           NEW fails \in BOOLEAN, fails => MayFail(req)
    PROVE  /\ ReplyTo(req, fails).outcome # "failed"
           /\ req.op \in {"status", "pause"} => ReplyTo(req, fails).outcome = "ok"
           /\ req.op = "pause" => ReplyTo(req, fails).val = SessionsAfter(req, fails)["bag"]
<1>1. /\ req.op \in {"start", "stop", "status", "pause"}
      /\ req.op = "pause" => req.kind = "bag"
      /\ fails \in BOOLEAN
  BY DEF Requests
<1>2. CASE req.op = "start" /\ (Refused(req) \/ fails)
  <2>1. ReplyTo(req, fails) = Error
    BY <1>2 DEF ReplyTo
  <2> QED
    BY <1>2, <2>1 DEF Error, Reply
<1>3. CASE req.op = "stop"
  <2>1. ReplyTo(req, fails).outcome # "failed"
    BY <1>3 DEF ReplyTo, Error, Reply
  <2> QED
    BY <1>3, <2>1
<1>4. CASE req.op = "status" /\ req.kind = "panel"
  <2> DEFINE v == [k \in {"hz", "bw", "delay"} |-> sessions[k]]
  <2>1. ReplyTo(req, fails) = Reply("ok", v)
    BY <1>4 DEF ReplyTo
  <2> HIDE DEF v
  <2> QED
    BY <1>4, <2>1 DEF Reply
<1>5. CASE \/ req.op = "start" /\ ~(Refused(req) \/ fails)
           \/ req.op = "status" /\ req.kind # "panel"
           \/ req.op = "pause"
  <2>1. ReplyTo(req, fails) = Reply("ok", SessionsAfter(req, fails)[req.kind])
    BY <1>5 DEF ReplyTo
  <2> QED
    BY <1>1, <1>5, <2>1 DEF Reply
<1> QED
  BY <1>1, <1>2, <1>3, <1>4, <1>5

\* A session that starts is held by whom its command came from, and a session
\* is let go by the command that ends it.
LEMMA RuntimeHolds ==
    ASSUME SessionInv, Undisturbed, Plan, AllHeld, HandleRuntimeCommand
    PROVE  Undisturbed' /\ Plan' /\ AllHeld'
<1>0. PICK s, req : s = Head(queue).slot /\ req = Head(queue).req
  OBVIOUS
<1>1. /\ ServerInv /\ RuntimeTyped /\ ClientsTyped /\ WorkerTyped
      /\ CallsServed /\ NoneAbandoned /\ worker.okay
  BY Parts DEF Undisturbed
<1>2. PICK fails \in IF MayFail(req) THEN BOOLEAN ELSE {FALSE} :
          /\ sessions' = SessionsAfter(req, fails)
          /\ conns' = SendReply(s, ReplyTo(req, fails))
  BY <1>0 DEF HandleRuntimeCommand
<1>r. PICK reply : reply = ReplyTo(req, fails)
  OBVIOUS
<1>3. queue # <<>> /\ queue' = Tail(queue) /\ UNCHANGED <<scenario, phase, worker>>
  BY DEF HandleRuntimeCommand, clientVars, monitorVars
<1>4. /\ Head(queue) \in [slot : Slots \cup {None}, req : Requests]
      /\ s # None => s \in Slots /\ Waits(s) /\ conns[s].req = req
      /\ 1 \in DOMAIN queue /\ Head(queue) = queue[1]
      /\ \A i \in DOMAIN queue' : i + 1 \in DOMAIN queue /\ queue'[i] = queue[i + 1]
  BY <1>0, <1>1, <1>3, HeadWaits
<1>5. s \in Slots /\ req \in Requests /\ Waits(s) /\ conns[s].req = req
  BY <1>0, <1>1, <1>4 DEF NoneAbandoned
<1>6. fails \in BOOLEAN /\ (fails => MayFail(req))
      /\ sessions \in [Kinds -> SessionType \cup {None}] /\ conns \in [Slots -> Connection \cup {None}]
  BY <1>1 DEF RuntimeTyped, ServerInv, ConnsTyped
<1>7. NoneAbandoned'
  BY <1>1, <1>4 DEF NoneAbandoned
<1>8. /\ reply.outcome # "failed"
      /\ req.op \in {"status", "pause"} => reply.outcome = "ok"
      /\ req.op = "pause" => reply.val = sessions'["bag"]
  BY <1>2, <1>5, <1>6, <1>r, RepliesAre
<1>9. /\ \A r \in Slots : r # s => conns'[r] = conns[r]
      /\ conns[s] # None /\ conns[s] \in Connection /\ conns[s].stage = "waiting"
      /\ conns'[s].owner = conns[s].owner /\ conns'[s].req = conns[s].req
      /\ conns'[s].reply = reply /\ conns'[s].stage = "replied"
      /\ conns'[s] # None
  <2> DEFINE c == [conns[s] EXCEPT !.stage = "replied", !.reply = reply]
  <2>1. s # None /\ conns[s] # None /\ conns[s] \in Connection /\ conns[s].stage = "waiting"
    BY <1>5, <1>6, Sorts DEF Waits
  <2>2. conns' = [conns EXCEPT ![s] = c]
    BY <1>2, <1>6, <1>r, <2>1 DEF SendReply
  <2>3. Fits(req, reply)
    BY <1>5, <1>6, <1>r, ReplyFits
  <2>4. c \in Connection /\ c.owner = conns[s].owner /\ c.req = conns[s].req
        /\ c.reply = reply /\ c.stage = "replied"
    BY <2>1, <2>3 DEF Connection, Fits
  <2> HIDE DEF c
  <2> QED
    BY <1>5, <1>6, <2>1, <2>2, <2>4, Sorts
<1>10. /\ conns[s].owner \in scenario.procs /\ conns[s].owner \in Procs
       /\ CallOK(conns[s]) /\ \A r \in Calls(conns[s].owner) : r = s
  <2>1. conns[s].owner # None /\ conns[s].owner \in scenario.procs \cup {None}
        /\ CallOK(conns[s]) /\ OneCall
    BY <1>1, <1>5, <1>9 DEF CallsServed, ServerInv, ConnsTyped, CallsInv, OneCall
  <2>2. scenario.procs \subseteq Procs
    BY Parts, Sorts DEF ScenarioTyped
  <2> QED
    BY <1>5, <1>9, <2>1, <2>2 DEF Calls, OneCall
<1>11. CallsServed'
  BY <1>1, <1>5, <1>8, <1>9 DEF CallsServed, Handled
<1>12. Plan'
  BY <1>1, <1>3 DEF Plan, Settles, Shows
<1>13. ~Handled(s) /\ Handled(s)'
  BY <1>9 DEF Handled
<1>14. ASSUME NEW p, p # conns[s].owner PROVE SameCalls(p)
  BY <1>5, <1>9, <1>14 DEF SameCalls, Calls, Handled
<1>15. ASSUME NEW k \in Kinds, sessions'[k] # None PROVE Held(k)'
  <2>1. /\ ~(req.op = "stop" /\ req.kind = k)
        /\ sessions[k] = None => req.op = "start" /\ req.kind = k /\ reply.outcome = "ok"
    BY <1>2, <1>5, <1>6, <1>15, <1>r, SessionsMove
  <2>2. CASE sessions[k] = None
    <3>1. CASE conns[s].owner \in Clients
      <4>0. PICK c \in Clients : c = conns[s].owner
        BY <3>1
      <4>1. Kind[c] = k /\ phase[c] = "starting"
        <5>1. Kind[c] = k /\ CallOf(phase[c]) = "start"
          BY <1>5, <1>10, <2>1, <2>2, <4>0 DEF CallOK
        <5> QED
          BY <5>1 DEF CallOf
      <4>2. s \in Calls(c)'
        BY <1>5, <1>9, <4>0 DEF Calls
      <4>3. ClientHolds(c)'
        BY <1>3, <1>9, <1>13, <2>1, <2>2, <4>0, <4>1, <4>2 DEF ClientHolds
      <4> QED
        BY <3>1, <4>1, <4>3 DEF Held
    <3>2. CASE conns[s].owner = Monitor
      <4>1. worker.todo # <<>> /\ req = Head(worker.todo)
        BY <1>5, <1>10, <2>1, <2>2, <3>2 DEF CallOK, Status, Request
      <4>2. 1 \in DOMAIN worker.todo /\ worker.todo[1] = req /\ worker.todo \in Seq(Work)
        BY <1>1, <4>1, EmptySeq, LenProperties DEF WorkerTyped
      <4>3. Shows /\ k # "bag" /\ (k = "echo" => worker.echo)
        <5>1. CASE k # "echo"
          BY <2>1, <2>2, <4>2, <5>1 DEF Plan
        <5>2. CASE k = "echo"
          <6>1. Len(worker.todo) = 1 /\ worker.active # None /\ worker.echo
            BY <2>1, <2>2, <4>2, <5>2 DEF Plan
          <6>2. ~Settles
            BY <2>1, <2>2, <4>2, <6>1 DEF Settles
          <6> QED
            BY <5>2, <6>1, <6>2 DEF Shows
        <5> QED
          BY <5>1, <5>2
      <4>4. MonitorHolds(k)'
        BY <1>3, <4>3 DEF MonitorHolds, Shows, Settles
      <4> QED
        BY <4>3, <4>4 DEF Held
    <3>3. CASE conns[s].owner = Recorder
      <4>1. k = "bag" /\ Recorder \in scenario.procs
        BY <1>5, <1>10, <2>1, <2>2, <3>3 DEF CallOK
      <4> QED
        BY <1>3, <4>1 DEF Held
    <3> QED
      BY <1>10, <3>1, <3>2, <3>3 DEF Procs
  <2>3. CASE sessions[k] # None
    <3>1. Held(k)
      BY <2>3 DEF AllHeld, Active
    <3>2. ASSUME NEW c \in Clients, Kind[c] = k, ClientHolds(c) PROVE ClientHolds(c)'
      <4>1. CASE c # conns[s].owner
        BY <1>3, <1>14, <3>2, <4>1, ClientHoldsKept
      <4>2. CASE c = conns[s].owner
        <5>1. req.kind = k /\ req.op = CallOf(phase[c]) /\ \A r \in Calls(c) : r = s
          BY <1>5, <1>10, <3>2, <4>2 DEF CallOK
        <5>2. phase[c] # "stopping"
          BY <2>1, <5>1 DEF CallOf
        <5>3. phase[c] # "starting"
          BY <1>13, <3>2, <5>1 DEF ClientHolds
        <5>4. CASE phase[c] = "pausing"
          <6>1. req.op = "pause" /\ k = "bag"
            BY <1>5, <5>1, <5>4 DEF CallOf, Requests
          <6>2. s \in Calls(c)' /\ conns'[s].reply.val # None
            BY <1>5, <1>8, <1>9, <1>15, <4>2, <6>1 DEF Calls
          <6> QED
            BY <1>3, <5>4, <6>2 DEF ClientHolds
        <5>5. CASE phase[c] \in {"watching", "polling", "leaving", "untyped"}
          BY <1>3, <3>2, <5>5 DEF ClientHolds
        <5> QED
          BY <3>2, <5>2, <5>3, <5>4, <5>5 DEF ClientHolds
      <4> QED
        BY <4>1, <4>2
    <3>3. ASSUME MonitorHolds(k) PROVE MonitorHolds(k)'
      <4>1. CASE Shows /\ (k = "echo" => worker.echo)
        BY <1>3, <4>1 DEF MonitorHolds, Shows, Settles
      <4>2. CASE StopAhead(k) /\ conns[s].owner # Monitor
        <5>1. MonitorCallsOn
          BY <1>14, <4>2 DEF MonitorCallsOn, SameCalls
        <5> QED
          BY <1>3, <3>3, <5>1, MonitorHoldsKept
      <4>3. CASE StopAhead(k) /\ conns[s].owner = Monitor
        <5>1. PICK i \in DOMAIN worker.todo :
                  worker.todo[i] = Stop(k) /\ (i = 1 => \A r \in Calls(Monitor) : ~Handled(r))
          BY <4>3 DEF StopAhead
        <5>2. worker.todo \in Seq(Work) /\ worker.todo # <<>>
          BY <1>1, <5>1 DEF WorkerTyped
        <5>3. req = worker.todo[1]
          BY <1>5, <1>10, <4>3, <5>2 DEF CallOK
        <5>4. i # 1
          <6>1. req.op # "stop" \/ req.kind # k
            BY <2>1
          <6>2. Stop(k).op = "stop" /\ Stop(k).kind = k
            BY DEF Stop, Request
          <6> QED
            BY <5>1, <5>3, <6>1, <6>2
        <5>5. StopAhead(k)'
          BY <1>3, <5>1, <5>4 DEF StopAhead
        <5> QED
          BY <5>5 DEF MonitorHolds
      <4> QED
        BY <3>3, <4>1, <4>2, <4>3 DEF MonitorHolds
    <3> QED
      BY <1>3, <3>1, <3>2, <3>3 DEF Held
  <2> QED
    BY <2>2, <2>3
<1>16. AllHeld'
  BY <1>15 DEF AllHeld, Active
<1> QED
  BY <1>1, <1>3, <1>7, <1>11, <1>12, <1>16 DEF Undisturbed

\* A call that is made, and one that is answered.
LEMMA IssueHolds ==
    ASSUME ServerInv, CallsServed, NoneAbandoned, NEW p \in Procs, p \in scenario.procs,
           NEW req \in Requests, Issue(p, req), UNCHANGED <<scenario, inFlight, queue>>
    PROVE  /\ CallsServed' /\ NoneAbandoned'
           /\ \A q : q # p => SameCalls(q)
           /\ \A s \in Slots : s \in Calls(p)' => ~Handled(s)'
           /\ \E s \in Slots : s \in Calls(p)'
<1> DEFINE new == [stage |-> "connected", owner |-> p, req |-> req, reply |-> None]
<1>1. PICK n \in Slots : conns[n] = None /\ conns' = [conns EXCEPT ![n] = new]
  BY IssueForm
<1>2. \A s \in Slots : conns[s] # None => conns[s].owner # p
  BY IssueForm DEF Calls
<1>3. new \in Connection /\ new # None /\ new.owner = p /\ new.stage = "connected" /\ p # None
  BY Sorts DEF Connection, Procs
<1>4. \A s \in Slots : conns'[s] = IF s = n THEN new ELSE conns[s]
  BY <1>1 DEF ServerInv, ConnsTyped
<1> HIDE DEF new
<1>5. \A s \in Slots : s # n => (Handled(s)' <=> Handled(s))
  BY <1>4 DEF Handled
<1>6. ~Handled(n)'
  BY <1>3, <1>4 DEF Handled
<1>7. CallsServed'
  BY <1>3, <1>4, <1>5, <1>6 DEF CallsServed
<1>8. ASSUME NEW q, q # p PROVE SameCalls(q)
  BY <1>1, <1>3, <1>4, <1>5, <1>8 DEF SameCalls, Calls
<1>9. \A s \in Slots : s \in Calls(p)' <=> s = n
  BY <1>2, <1>3, <1>4 DEF Calls
<1>10. NoneAbandoned'
  BY DEF NoneAbandoned
<1> QED
  BY <1>6, <1>7, <1>8, <1>9, <1>10

\* A call that is answered.
LEMMA ReturnHolds ==
    ASSUME ServerInv, CallsServed, NoneAbandoned, NEW p \in Procs, NEW out, Returns(p, out),
           faults' = {}, UNCHANGED queue
    PROVE  /\ CallsServed' /\ NoneAbandoned'
           /\ \A q : q # p => SameCalls(q)
           /\ \A s \in Slots : s \notin Calls(p)'
           /\ \E s \in Calls(p) :
                  /\ Handled(s) /\ out = conns[s].reply /\ CallOK(conns[s])
                  /\ \A r \in Calls(p) : r = s
                  /\ out.outcome # "failed"
                  /\ conns[s].req.op \in {"status", "pause"} => out.outcome = "ok"
<1>1. ~Strikes("giveup")
  BY DEF Strikes
<1>2. PICK n \in Calls(p) : /\ conns[n].stage = "answered" /\ out = conns[n].reply
                            /\ conns' = [conns EXCEPT ![n] = None]
  BY <1>1 DEF Returns
<1>3. /\ n \in Slots /\ conns[n] # None /\ conns[n].owner = p /\ p # None
      /\ conns \in [Slots -> Connection \cup {None}] /\ OneCall /\ CallOK(conns[n])
  BY Sorts DEF Calls, ServerInv, ConnsTyped, CallsInv, OneCall
<1>4. \A s \in Slots : conns'[s] = IF s = n THEN None ELSE conns[s]
  BY <1>2, <1>3
<1>5. \A s \in Slots : s # n => (Handled(s)' <=> Handled(s))
  BY <1>4 DEF Handled
<1>6. CallsServed'
  BY <1>4, <1>5 DEF CallsServed
<1>7. ASSUME NEW q, q # p PROVE SameCalls(q)
  BY <1>3, <1>4, <1>5, <1>7 DEF SameCalls, Calls
<1>8. \A r \in Calls(p) : r = n
  BY <1>3 DEF Calls, OneCall
<1>9. \A s \in Slots : s \notin Calls(p)'
  BY <1>4, <1>8 DEF Calls
<1>10. /\ Handled(n) /\ out.outcome # "failed"
       /\ conns[n].req.op \in {"status", "pause"} => out.outcome = "ok"
  BY <1>2, <1>3 DEF Handled, CallsServed
<1>11. NoneAbandoned'
  BY DEF NoneAbandoned
<1> QED
  BY <1>2, <1>3, <1>6, <1>7, <1>8, <1>9, <1>10, <1>11

\* The processes of the command line.
LEMMA ClientCallHolds ==
    ASSUME SessionInv, Undisturbed, Plan, AllHeld, NEW c \in Clients,
           ClientStart(c) \/ ClientPoll(c) \/ ClientPause(c) \/ ClientStop(c)
    PROVE  Undisturbed' /\ Plan' /\ AllHeld'
<1>1. /\ ServerInv /\ ClientsTyped /\ ClientsPresent /\ CallsServed /\ NoneAbandoned /\ worker.okay
  BY Parts DEF Undisturbed
<1>2. UNCHANGED <<scenario, inFlight, queue, sessions, worker>>
  BY DEF ClientStart, ClientPoll, ClientPause, ClientStop, runtimeVars, monitorVars
<1>3. c \in Procs /\ c # Monitor /\ Kind[c] \in Kinds /\ Topic[c] \in Topics
  BY Sorts
<1>4. \E req \in Requests : Issue(c, req)
  <2>1. paused[c] \in BOOLEAN
    BY <1>1 DEF ClientsTyped
  <2>2. Start(Kind[c], Topic[c]) \in Requests /\ Status(Kind[c]) \in Requests
        /\ Stop(Kind[c]) \in Requests /\ Request("pause", "bag", None, ~paused[c]) \in Requests
    BY <1>3, <2>1, RequestsTyped
  <2> QED
    BY <2>2 DEF ClientStart, ClientPoll, ClientPause, ClientStop
<1>5. c \in scenario.procs
  BY <1>1 DEF ClientStart, ClientPoll, ClientPause, ClientStop, ClientsPresent
<1>6. /\ CallsServed' /\ NoneAbandoned'
      /\ \A q : q # c => SameCalls(q)
      /\ \A s \in Slots : s \in Calls(c)' => ~Handled(s)'
      /\ \E s \in Slots : s \in Calls(c)'
  BY <1>1, <1>2, <1>3, <1>4, <1>5, IssueHolds
<1>7. \A d \in Clients : d # c => phase'[d] = phase[d]
  BY <1>1 DEF ClientStart, ClientPoll, ClientPause, ClientStop, ClientsTyped
<1>8. \/ phase[c] = "absent" /\ phase'[c] = "starting"
      \/ phase[c] \in {"watching", "leaving"} /\ phase'[c] \in {"polling", "pausing", "stopping"}
  BY <1>1 DEF ClientStart, ClientPoll, ClientPause, ClientStop, ClientsTyped
<1>9. ASSUME NEW d \in Clients, ClientHolds(d) PROVE ClientHolds(d)'
  <2>1. CASE d # c
    BY <1>6, <1>7, <1>9, <2>1, ClientHoldsKept
  <2>2. CASE d = c
    <3>1. phase'[c] \in {"polling", "pausing", "stopping"}
      BY <1>8, <1>9, <2>2 DEF ClientHolds
    <3>2. PICK s \in Slots : s \in Calls(c)' /\ ~Handled(s)'
      BY <1>6
    <3>3. ClientHolds(c)'
      BY <3>1, <3>2 DEF ClientHolds
    <3> QED
      BY <2>2, <3>3
  <2> QED
    BY <2>1, <2>2
<1>10. MonitorCallsOn
  BY <1>3, <1>6 DEF MonitorCallsOn, SameCalls
<1>11. AllHeld'
  BY <1>2, <1>9, <1>10, HeldKept, MonitorHoldsKept
<1>12. Plan'
  BY <1>2 DEF Plan, Settles, Shows
<1> QED
  BY <1>1, <1>2, <1>6, <1>11, <1>12 DEF Undisturbed

\* A process that gets its answer still holds what it held.
LEMMA ClientReturnHolds ==
    ASSUME SessionInv, Undisturbed, Plan, AllHeld, faults' = {}, NEW c \in Clients, ClientReturn(c)
    PROVE  Undisturbed' /\ Plan' /\ AllHeld'
<1>1. /\ ServerInv /\ ClientsTyped /\ CallsServed /\ NoneAbandoned /\ worker.okay
  BY Parts DEF Undisturbed
<1>2. PICK out : /\ Returns(c, out)
                 /\ \/ phase' = [phase EXCEPT ![c] = PhaseAfter(c, out)]
                    \/ LacksType(c, out) /\ phase' = [phase EXCEPT ![c] = "untyped"]
  BY DEF ClientReturn
<1>3. UNCHANGED <<scenario, queue, sessions, worker>>
  BY DEF ClientReturn, runtimeVars, monitorVars
<1>4. c \in Procs /\ c # Monitor
  BY Sorts
<1>5. /\ CallsServed' /\ NoneAbandoned'
      /\ \A q : q # c => SameCalls(q)
      /\ \E s \in Calls(c) :
             /\ Handled(s) /\ out = conns[s].reply /\ CallOK(conns[s])
             /\ \A r \in Calls(c) : r = s
             /\ conns[s].req.op \in {"status", "pause"} => out.outcome = "ok"
  BY <1>1, <1>2, <1>3, <1>4, ReturnHolds
<1>6. PICK s \in Calls(c) :
          /\ Handled(s) /\ out = conns[s].reply /\ CallOK(conns[s])
          /\ \A r \in Calls(c) : r = s
          /\ conns[s].req.op \in {"status", "pause"} => out.outcome = "ok"
  BY <1>5
<1>7. conns[s].req.op = CallOf(phase[c]) /\ conns[s].req \in Requests
  BY <1>1, <1>6 DEF CallOK, Calls, ServerInv, ConnsTyped, Connection
<1>8. /\ phase[c] \in {"starting", "polling", "pausing", "stopping"}
      /\ phase'[c] = PhaseAfter(c, out) \/ (Kind[c] = "echo" /\ phase'[c] = "untyped")
  <2>1. conns[s].req.op \in {"start", "stop", "status", "pause"} /\ phase[c] \in Phases
    BY <1>1, <1>7 DEF Requests, ClientsTyped
  <2> QED
    BY <1>1, <1>2, <1>7, <2>1 DEF CallOf, Phases, ClientsTyped, LacksType
<1>9. ASSUME NEW d \in Clients, ClientHolds(d) PROVE ClientHolds(d)'
  <2>1. CASE d # c
    <3>1. phase'[d] = phase[d]
      BY <1>1, <1>2, <2>1 DEF ClientsTyped
    <3> QED
      BY <1>5, <1>9, <2>1, <3>1, ClientHoldsKept
  <2>2. CASE d = c
    <3>1. phase[c] # "stopping"
      BY <1>6, <1>9, <2>2 DEF ClientHolds
    <3>2. phase[c] = "starting" => out.outcome = "ok"
      BY <1>6, <1>9, <2>2 DEF ClientHolds
    <3>3. phase[c] = "polling" => out.outcome = "ok"
      BY <1>6, <1>7 DEF CallOf
    <3>4. phase[c] = "pausing" => out.outcome = "ok" /\ out.val # None
      <4>1. phase[c] = "pausing" => out.outcome = "ok"
        BY <1>6, <1>7 DEF CallOf
      <4>2. phase[c] = "pausing" => out.val # None
        BY <1>6, <1>9, <2>2 DEF ClientHolds
      <4> QED
        BY <4>1, <4>2
    <3>5. phase'[c] \in {"watching", "leaving"} \/ (Kind[c] = "echo" /\ phase'[c] = "untyped")
      BY <1>8, <3>1, <3>2, <3>3, <3>4 DEF PhaseAfter
    <3> QED
      BY <2>2, <3>5 DEF ClientHolds
  <2> QED
    BY <2>1, <2>2
<1>10. MonitorCallsOn
  BY <1>4, <1>5 DEF MonitorCallsOn, SameCalls
<1>11. AllHeld'
  BY <1>3, <1>9, <1>10, HeldKept, MonitorHoldsKept
<1>12. Plan'
  BY <1>3 DEF Plan, Settles, Shows
<1> QED
  BY <1>1, <1>3, <1>5, <1>11, <1>12 DEF Undisturbed

\* The Bag Recorder page's worker.
LEMMA RecorderHolds ==
    ASSUME SessionInv, Undisturbed, Plan, AllHeld, faults' = {}, RecorderWorker
    PROVE  Undisturbed' /\ Plan' /\ AllHeld'
<1>1. /\ ServerInv /\ PageTyped /\ RecorderPresent /\ CallsServed /\ NoneAbandoned /\ worker.okay
  BY Parts DEF Undisturbed
<1>2. UNCHANGED <<scenario, inFlight, queue, sessions, worker, phase>>
  BY DEF RecorderWorker, RecorderCommand, RecorderPoll, RecorderReturn, runtimeVars, monitorVars, clientVars
<1>3. Recorder \in Procs /\ Recorder \notin Clients /\ Recorder # Monitor
  BY Sorts
<1>4. CallsServed' /\ NoneAbandoned' /\ \A q : q # Recorder => SameCalls(q)
  <2>1. CASE RecorderReturn
    BY <1>1, <1>2, <1>3, <2>1, ReturnHolds DEF RecorderReturn
  <2>2. CASE RecorderCommand \/ RecorderPoll
    <3>1. Recorder \in scenario.procs
      BY <1>1, <2>2 DEF RecorderCommand, RecorderPoll, RecorderPresent
    <3>2. \E req \in Requests : Issue(Recorder, req)
      <4>1. CASE RecorderCommand
        <5>1. page.inbox \in Seq(BagRequests) /\ page.inbox # <<>>
          BY <1>1, <4>1 DEF PageTyped, RecorderCommand
        <5>2. Head(page.inbox) \in BagRequests
          BY <5>1, HeadTailProperties
        <5> QED
          BY <4>1, <5>2, RequestsTyped DEF RecorderCommand
      <4>2. CASE RecorderPoll
        <5>1. Status("bag") \in Requests
          BY RequestsTyped DEF Kinds
        <5> QED
          BY <4>2, <5>1 DEF RecorderPoll
      <4> QED
        BY <2>2, <4>1, <4>2
    <3> QED
      BY <1>1, <1>2, <1>3, <3>1, <3>2, IssueHolds
  <2> QED
    BY <2>1, <2>2 DEF RecorderWorker
<1>5. ASSUME NEW d \in Clients, ClientHolds(d) PROVE ClientHolds(d)'
  BY <1>2, <1>3, <1>4, <1>5, ClientHoldsKept
<1>6. MonitorCallsOn
  BY <1>3, <1>4 DEF MonitorCallsOn, SameCalls
<1>7. AllHeld'
  BY <1>2, <1>5, <1>6, HeldKept, MonitorHoldsKept
<1>8. Plan'
  BY <1>2 DEF Plan, Settles, Shows
<1> QED
  BY <1>1, <1>2, <1>4, <1>7, <1>8 DEF Undisturbed

\* What the worker means to do with a command: it stops all its sessions before
\* it starts or settles anything, or leaves its topic as it is.
StopsAll(w) == \A k \in Kinds \ {"bag"} : \E i \in DOMAIN w : w[i] = Stop(k)
Lasts(w) == \A i \in DOMAIN w : w[i].op = "settle" => i = Len(w)
StartsShown(w) ==
    \A i \in DOMAIN w : w[i].op = "start" /\ w[i].kind # "echo" =>
        w[i].kind # "bag" /\ w[Len(w)].op = "settle" /\ w[Len(w)].topic # None
StartsEcho(w) == \E i \in DOMAIN w : w[i].op = "start" /\ w[i].kind = "echo"
Unsettled(w) == \A i \in DOMAIN w : w[i].op # "settle"

\* What its plan looks like.
LEMMA TodoForm ==
    ASSUME NEW cmd \in MonitorCommands, NEW w, w = Todo(cmd), WorkerTyped
    PROVE  /\ w = <<>> \/ (Len(w) \in DOMAIN w /\ 1 \in DOMAIN w)
           /\ Lasts(w) /\ StartsShown(w)
           /\ StartsEcho(w) => /\ Len(w) = 1 /\ worker.active # None
                               /\ cmd.name = "echo" /\ cmd.arg
           /\ \/ StopsAll(w)
              \/ /\ Unsettled(w)
                 /\ cmd.name = "echo" => cmd.arg \/ \E i \in DOMAIN w : w[i] = Stop("echo")
<1>a. \A k : Stop(k).op = "stop" /\ Stop(k).kind = k
  BY DEF Stop, Request
<1>b. \A k, t : Start(k, t).op = "start" /\ Start(k, t).kind = k
  BY DEF Start, Request
<1>c. \A t : Settle(t).op = "settle" /\ Settle(t).topic = t
  BY DEF Settle, Request
<1>d. /\ cmd.name \in {"select", "window", "deselect", "echo"}
      /\ cmd.name = "select" => cmd.arg \in Topics
      /\ worker.active \in Topics \cup {None} /\ None \notin Topics
  BY Sorts DEF MonitorCommands, WorkerTyped
<1>1. ASSUME NEW t \in Topics,
             \/ w = <<Stop("echo")>> \o StartSessions(t)
             \/ w = <<Stop("echo")>> \o StopSessions \o StartSessions(t)
      PROVE  /\ Len(w) \in DOMAIN w /\ 1 \in DOMAIN w
             /\ Lasts(w) /\ StartsShown(w) /\ ~StartsEcho(w) /\ StopsAll(w)
  <2>1. CASE w = <<Stop("echo")>> \o StartSessions(t)
    <3>1. /\ Len(w) = 8 /\ DOMAIN w = 1 .. 8
          /\ w[1] = Stop("echo") /\ w[2] = Stop("hz") /\ w[3] = Stop("bw") /\ w[4] = Stop("delay")
          /\ w[5] = Start("hz", t) /\ w[6] = Start("bw", t) /\ w[7] = Start("delay", t)
          /\ w[8] = Settle(t)
      BY <2>1 DEF StartSessions, StopSessions
    <3>2. Lasts(w) /\ StartsShown(w) /\ ~StartsEcho(w)
      BY <1>a, <1>b, <1>c, <1>d, <3>1 DEF Lasts, StartsShown, StartsEcho
    <3> QED
      BY <3>1, <3>2 DEF StopsAll, Kinds
  <2>2. CASE w = <<Stop("echo")>> \o StopSessions \o StartSessions(t)
    <3>1. /\ Len(w) = 11 /\ DOMAIN w = 1 .. 11
          /\ w[1] = Stop("echo") /\ w[2] = Stop("hz") /\ w[3] = Stop("bw") /\ w[4] = Stop("delay")
          /\ w[5] = Stop("hz") /\ w[6] = Stop("bw") /\ w[7] = Stop("delay")
          /\ w[8] = Start("hz", t) /\ w[9] = Start("bw", t) /\ w[10] = Start("delay", t)
          /\ w[11] = Settle(t)
      BY <2>2 DEF StartSessions, StopSessions
    <3>2. Lasts(w) /\ StartsShown(w) /\ ~StartsEcho(w)
      BY <1>a, <1>b, <1>c, <1>d, <3>1 DEF Lasts, StartsShown, StartsEcho
    <3> QED
      BY <3>1, <3>2 DEF StopsAll, Kinds
  <2> QED
    BY <1>1, <2>1, <2>2
<1>2. CASE cmd.name = "select" \/ (cmd.name = "window" /\ worker.active # None)
  <2>1. \E t \in Topics : \/ w = <<Stop("echo")>> \o StartSessions(t)
                          \/ w = <<Stop("echo")>> \o StopSessions \o StartSessions(t)
    BY <1>2, <1>d DEF Todo
  <2> QED
    BY <1>1, <2>1
<1>3. CASE cmd.name = "deselect"
  <2>1. w = <<Stop("echo")>> \o StopSessions \o <<Settle(None)>>
    BY <1>3 DEF Todo
  <2>2. /\ Len(w) = 5 /\ DOMAIN w = 1 .. 5
        /\ w[1] = Stop("echo") /\ w[2] = Stop("hz") /\ w[3] = Stop("bw") /\ w[4] = Stop("delay")
        /\ w[5] = Settle(None)
    BY <2>1 DEF StopSessions
  <2>3. Lasts(w) /\ StartsShown(w) /\ ~StartsEcho(w)
    BY <1>a, <1>c, <2>2 DEF Lasts, StartsShown, StartsEcho
  <2> QED
    BY <2>2, <2>3 DEF StopsAll, Kinds
<1>4. CASE cmd.name = "echo" /\ ~cmd.arg
  <2>1. w = <<Stop("echo")>>
    BY <1>4 DEF Todo
  <2>2. Len(w) = 1 /\ DOMAIN w = {1} /\ w[1] = Stop("echo")
    BY <2>1
  <2> QED
    BY <1>4, <1>a, <2>2 DEF Lasts, StartsShown, StartsEcho, Unsettled
<1>5. CASE cmd.name = "echo" /\ cmd.arg /\ worker.active # None
  <2>1. w = <<Start("echo", worker.active)>>
    BY <1>5 DEF Todo
  <2>2. Len(w) = 1 /\ DOMAIN w = {1} /\ w[1] = Start("echo", worker.active)
    BY <2>1
  <2> QED
    BY <1>5, <1>b, <2>2 DEF Lasts, StartsShown, StartsEcho, Unsettled
<1>6. CASE worker.active = None /\ (cmd.name = "window" \/ (cmd.name = "echo" /\ cmd.arg))
  <2>1. w = <<>>
    BY <1>6 DEF Todo
  <2>2. DOMAIN w = {}
    BY <2>1
  <2> QED
    BY <1>6, <2>1, <2>2 DEF Lasts, StartsShown, StartsEcho, Unsettled
<1>7. \/ cmd.name = "select"
      \/ cmd.name = "window" /\ worker.active # None
      \/ cmd.name = "deselect"
      \/ cmd.name = "echo" /\ ~cmd.arg
      \/ cmd.name = "echo" /\ cmd.arg /\ worker.active # None
      \/ worker.active = None /\ (cmd.name = "window" \/ (cmd.name = "echo" /\ cmd.arg))
  BY <1>d
<1> QED
  BY <1>2, <1>3, <1>4, <1>5, <1>6, <1>7

\* The worker of the Topic Monitor takes a command, ...
LEMMA ApplyHolds ==
    ASSUME SessionInv, Undisturbed, Plan, AllHeld, ApplyCommand
    PROVE  Undisturbed' /\ Plan' /\ AllHeld'
<1>1. /\ WorkerTyped /\ CallsServed /\ NoneAbandoned /\ worker.okay
      /\ worker \in [todo : Seq(Work), active : Topics \cup {None}, echo : BOOLEAN, okay : BOOLEAN]
  BY Parts DEF Undisturbed, WorkerTyped
<1>2. UNCHANGED <<scenario, conns, queue, sessions, phase>>
  BY DEF ApplyCommand, serverVars, runtimeVars, clientVars
<1>3. inbox # <<>> /\ worker.todo = <<>> /\ Calls(Monitor) = {}
  BY DEF ApplyCommand
<1>4. PICK cmd : cmd = Head(inbox)
  OBVIOUS
<1>5. PICK w : w = Todo(cmd)
  OBVIOUS
<1>6. cmd \in MonitorCommands
  BY <1>1, <1>3, <1>4, HeadTailProperties DEF WorkerTyped
<1>7. /\ w = <<>> \/ (Len(w) \in DOMAIN w /\ 1 \in DOMAIN w)
      /\ Lasts(w) /\ StartsShown(w)
      /\ StartsEcho(w) => /\ Len(w) = 1 /\ worker.active # None
                          /\ cmd.name = "echo" /\ cmd.arg
      /\ \/ StopsAll(w)
         \/ /\ Unsettled(w)
            /\ cmd.name = "echo" => cmd.arg \/ \E i \in DOMAIN w : w[i] = Stop("echo")
  BY <1>1, <1>5, <1>6, TodoForm
<1>8. /\ worker'.todo = w /\ worker'.active = worker.active /\ worker'.okay = worker.okay
      /\ cmd.name = "echo" => worker'.echo = cmd.arg
      /\ cmd.name # "echo" => worker'.echo = worker.echo
  BY <1>1, <1>4, <1>5 DEF ApplyCommand
<1>9. Settles' <=> w # <<>> /\ w[Len(w)].op = "settle"
  BY <1>8 DEF Settles
<1>10. Shows' <=> IF Settles' THEN w[Len(w)].topic # None ELSE worker.active # None
  BY <1>8 DEF Shows
<1>11. Plan'
  <2>1. ASSUME NEW i \in DOMAIN w
        PROVE  /\ w[i].op = "settle" => i = Len(w)
               /\ w[i].op = "start" /\ w[i].kind # "echo" => Settles' /\ Shows' /\ w[i].kind # "bag"
               /\ w[i].op = "start" /\ w[i].kind = "echo" =>
                      Len(w) = 1 /\ worker'.active # None /\ worker'.echo
    <3>1. w[i].op = "settle" => i = Len(w)
      BY <1>7 DEF Lasts
    <3>2. w[i].op = "start" /\ w[i].kind # "echo" => Settles' /\ Shows' /\ w[i].kind # "bag"
      BY <1>7, <1>9, <1>10 DEF StartsShown
    <3>3. w[i].op = "start" /\ w[i].kind = "echo" =>
              Len(w) = 1 /\ worker'.active # None /\ worker'.echo
      BY <1>7, <1>8 DEF StartsEcho
    <3> QED
      BY <3>1, <3>2, <3>3
  <2> QED
    BY <1>8, <2>1 DEF Plan
<1>12. Undisturbed'
  BY <1>1, <1>2, <1>8 DEF Undisturbed, CallsServed, NoneAbandoned, Handled
<1>13. \A s \in Slots : s \notin Calls(Monitor)'
  BY <1>2, <1>3 DEF Calls
<1>14. ASSUME NEW k \in Kinds, k # "bag", MonitorHolds(k) PROVE MonitorHolds(k)'
  <2>1. worker.active # None /\ (k = "echo" => worker.echo)
    <3>1. ~StopAhead(k) /\ ~Settles
      BY <1>3 DEF StopAhead, Settles
    <3> QED
      BY <1>14, <3>1 DEF MonitorHolds, Shows
  <2>2. ASSUME NEW i \in DOMAIN w, w[i] = Stop(k) PROVE StopAhead(k)'
    <3>1. \A s \in Calls(Monitor)' : ~Handled(s)'
      BY <1>13 DEF Calls
    <3> QED
      BY <1>8, <2>2, <3>1 DEF StopAhead
  <2>3. CASE StopsAll(w)
    BY <1>14, <2>2, <2>3 DEF StopsAll, MonitorHolds
  <2>4. CASE Unsettled(w) /\ (cmd.name = "echo" => cmd.arg \/ \E i \in DOMAIN w : w[i] = Stop("echo"))
    <3>1. Shows'
      BY <1>7, <1>9, <1>10, <2>1, <2>4 DEF Unsettled
    <3>2. CASE k = "echo" /\ cmd.name = "echo" /\ \E i \in DOMAIN w : w[i] = Stop("echo")
      BY <2>2, <3>2 DEF MonitorHolds
    <3>3. CASE k = "echo" /\ cmd.name = "echo" => cmd.arg
      BY <1>8, <2>1, <3>1, <3>3 DEF MonitorHolds
    <3> QED
      BY <2>4, <3>2, <3>3
  <2> QED
    BY <1>7, <2>3, <2>4
<1>15. \A p : SameCalls(p)
  BY <1>2 DEF SameCalls, Calls, Handled
<1>16. AllHeld'
  <2>1. ASSUME NEW d \in Clients, ClientHolds(d) PROVE ClientHolds(d)'
    BY <1>2, <1>15, <2>1, ClientHoldsKept
  <2>2. ASSUME NEW k \in Active(sessions) PROVE Held(k)'
    <3>1. k \in Kinds /\ Held(k)
      BY DEF Active, AllHeld
    <3> QED
      BY <1>2, <1>14, <2>1, <3>1 DEF Held
  <2> QED
    BY <1>2, <2>2 DEF AllHeld, Active
<1> QED
  BY <1>11, <1>12, <1>16

\* ... settles its topic, ...
LEMMA SettleHolds ==
    ASSUME SessionInv, Undisturbed, Plan, AllHeld, SetActive
    PROVE  Undisturbed' /\ Plan' /\ AllHeld'
<1>1. /\ WorkerTyped /\ CallsServed /\ NoneAbandoned /\ worker.okay
      /\ worker \in [todo : Seq(Work), active : Topics \cup {None}, echo : BOOLEAN, okay : BOOLEAN]
      /\ worker.todo \in Seq(Work)
  BY Parts DEF Undisturbed, WorkerTyped
<1>2. UNCHANGED <<scenario, conns, queue, sessions, phase>>
  BY DEF SetActive, serverVars, runtimeVars, clientVars
<1>3. worker.todo # <<>> /\ Head(worker.todo).op = "settle"
  BY DEF SetActive
<1>4. PICK t : t = Head(worker.todo).topic
  OBVIOUS
<1>5. PICK w : w = IF worker.echo /\ t # None THEN <<Start("echo", t)>> ELSE <<>>
  OBVIOUS
<1>6. /\ worker'.todo = w /\ worker'.active = t /\ worker'.okay /\ worker'.echo = worker.echo
  BY <1>1, <1>4, <1>5 DEF SetActive
<1>7. 1 \in DOMAIN worker.todo /\ worker.todo[1].op = "settle" /\ worker.todo[1].topic = t
  BY <1>1, <1>3, <1>4, EmptySeq, LenProperties
<1>8. Len(worker.todo) = 1 /\ Settles /\ (Shows <=> t # None)
  <2>1. Len(worker.todo) = 1
    BY <1>7 DEF Plan
  <2> QED
    BY <1>3, <1>7, <2>1 DEF Settles, Shows
<1>9. ~Settles' /\ (Shows' <=> t # None)
  <2>1. w = <<>> \/ (Len(w) = 1 /\ w[1].op = "start")
    BY <1>5 DEF Start, Request
  <2> QED
    BY <1>6, <2>1 DEF Settles, Shows
<1>10. Plan'
  <2>1. \A i \in DOMAIN w : /\ w[i].op = "start" /\ w[i].kind = "echo" /\ Len(w) = 1
                            /\ t # None /\ worker.echo
    BY <1>5 DEF Start, Request
  <2> QED
    BY <1>6, <2>1 DEF Plan
<1>11. Undisturbed'
  BY <1>1, <1>2, <1>6 DEF Undisturbed, CallsServed, NoneAbandoned, Handled
<1>12. ASSUME NEW k, MonitorHolds(k) PROVE MonitorHolds(k)'
  <2>1. ~StopAhead(k)
    <3>1. DOMAIN worker.todo = {1} /\ worker.todo[1] # Stop(k)
      BY <1>1, <1>7, <1>8, LenProperties DEF Stop, Request
    <3> QED
      BY <3>1 DEF StopAhead
  <2> QED
    BY <1>6, <1>8, <1>9, <1>12, <2>1 DEF MonitorHolds
<1>13. \A p : SameCalls(p)
  BY <1>2 DEF SameCalls, Calls, Handled
<1>14. AllHeld'
  <2>1. ASSUME NEW d \in Clients, ClientHolds(d) PROVE ClientHolds(d)'
    BY <1>2, <1>13, <2>1, ClientHoldsKept
  <2> QED
    BY <1>2, <1>12, <2>1, HeldKept
<1> QED
  BY <1>10, <1>11, <1>14

\* ... makes a call ...
LEMMA MonitorCallHolds ==
    ASSUME SessionInv, Undisturbed, Plan, AllHeld, MonitorCall \/ MonitorPoll
    PROVE  Undisturbed' /\ Plan' /\ AllHeld'
<1>1. /\ ServerInv /\ WorkerTyped /\ MonitorPresent /\ CallsServed /\ NoneAbandoned /\ worker.okay
  BY Parts DEF Undisturbed
<1>2. UNCHANGED <<scenario, inFlight, queue, sessions, worker, phase>>
  BY DEF MonitorCall, MonitorPoll, runtimeVars, monitorVars, clientVars
<1>3. Monitor \in Procs /\ Monitor \notin Clients
  BY Sorts
<1>4. \E req \in Requests : Issue(Monitor, req)
  <2>1. CASE MonitorCall
    <3>1. Head(worker.todo) \in Work
      BY <1>1, <2>1, HeadTailProperties DEF MonitorCall, WorkerTyped
    <3>2. Head(worker.todo) \in Requests
      BY <2>1, <3>1, WorkTyped DEF MonitorCall
    <3> QED
      BY <2>1, <3>2 DEF MonitorCall
  <2>2. CASE MonitorPoll
    BY <2>2, RequestsTyped DEF MonitorPoll
  <2> QED
    BY <2>1, <2>2
<1>5. Monitor \in scenario.procs
  BY <1>1 DEF MonitorCall, MonitorPoll, MonitorPresent
<1>6. /\ CallsServed' /\ NoneAbandoned' /\ \A q : q # Monitor => SameCalls(q)
      /\ \A s \in Slots : s \in Calls(Monitor)' => ~Handled(s)'
  BY <1>1, <1>2, <1>3, <1>4, <1>5, IssueHolds
<1>7. ASSUME NEW d \in Clients, ClientHolds(d) PROVE ClientHolds(d)'
  BY <1>2, <1>3, <1>6, <1>7, ClientHoldsKept
<1>8. MonitorCallsOn
  BY <1>6 DEF MonitorCallsOn
<1>9. AllHeld'
  BY <1>2, <1>7, <1>8, HeldKept, MonitorHoldsKept
<1>10. Plan'
  BY <1>2 DEF Plan, Settles, Shows
<1> QED
  BY <1>1, <1>2, <1>6, <1>9, <1>10 DEF Undisturbed

\* ... and gets its answer.
LEMMA MonitorReturnHolds ==
    ASSUME SessionInv, Undisturbed, Plan, AllHeld, faults' = {}, MonitorReturn
    PROVE  Undisturbed' /\ Plan' /\ AllHeld'
<1>1. /\ ServerInv /\ WorkerTyped /\ CallsServed /\ NoneAbandoned /\ worker.okay
      /\ worker \in [todo : Seq(Work), active : Topics \cup {None}, echo : BOOLEAN, okay : BOOLEAN]
      /\ worker.todo \in Seq(Work)
  BY Parts DEF Undisturbed, WorkerTyped
<1>2. PICK out :
          /\ Returns(Monitor, out)
          /\ IF worker.todo = <<>> THEN UNCHANGED worker
             ELSE worker' = [worker EXCEPT !.todo = Tail(@),
                    !.okay = @ /\ ~( /\ out.outcome = "failed"
                                     /\ Head(worker.todo).op = "start"
                                     /\ Head(worker.todo).kind \in {"hz", "bw"} )]
  BY DEF MonitorReturn
<1>3. UNCHANGED <<scenario, queue, sessions, phase>>
  BY DEF MonitorReturn, runtimeVars, clientVars
<1>4. Monitor \in Procs /\ Monitor \notin Clients /\ Monitor # Recorder
  BY Sorts
<1>5. /\ CallsServed' /\ NoneAbandoned' /\ \A q : q # Monitor => SameCalls(q)
      /\ \A s \in Slots : s \notin Calls(Monitor)'
      /\ \E s \in Calls(Monitor) : Handled(s) /\ CallOK(conns[s]) /\ out.outcome # "failed"
  BY <1>1, <1>2, <1>3, <1>4, ReturnHolds
<1>6. ASSUME NEW d \in Clients, ClientHolds(d) PROVE ClientHolds(d)'
  BY <1>3, <1>4, <1>5, <1>6, ClientHoldsKept
<1>7. CASE worker.todo = <<>>
  <2>1. UNCHANGED worker
    BY <1>2, <1>7
  <2>2. MonitorCallsOn
    BY <1>5 DEF MonitorCallsOn
  <2>3. AllHeld'
    BY <1>3, <1>6, <2>1, <2>2, HeldKept, MonitorHoldsKept
  <2>4. Plan'
    BY <2>1 DEF Plan, Settles, Shows
  <2> QED
    BY <1>1, <1>5, <2>1, <2>3, <2>4 DEF Undisturbed
<1>8. CASE worker.todo # <<>>
  <2>1. PICK w : w = Tail(worker.todo)
    OBVIOUS
  <2>2. /\ worker'.todo = w /\ worker'.active = worker.active /\ worker'.echo = worker.echo
        /\ worker'.okay
    BY <1>1, <1>2, <1>5, <1>8, <2>1
  <2>3. PICK n : n = Len(worker.todo)
    OBVIOUS
  <2>4. /\ n \in Nat \ {0} /\ DOMAIN worker.todo = 1 .. n /\ Len(w) = n - 1 /\ DOMAIN w = 1 .. n - 1
        /\ \A i \in 1 .. n - 1 : w[i] = worker.todo[i + 1]
        /\ Head(worker.todo) = worker.todo[1]
    <3> DEFINE todo == worker.todo
    <3>1. todo \in Seq(Work) /\ todo # <<>> /\ w = Tail(todo) /\ n = Len(todo)
      BY <1>1, <1>8, <2>1, <2>3
    <3> HIDE DEF todo
    <3>2. /\ w \in Seq(Work) /\ Len(w) = Len(todo) - 1
          /\ \A i \in 1 .. Len(w) : w[i] = todo[i + 1]
      BY <3>1, HeadTailProperties
    <3>3. Len(todo) \in Nat \ {0} /\ DOMAIN todo = 1 .. Len(todo) /\ DOMAIN w = 1 .. Len(w)
      BY <3>1, <3>2, EmptySeq, LenProperties
    <3>4. Head(todo) = todo[1]
      BY <3>1
    <3> QED
      BY <3>1, <3>2, <3>3, <3>4 DEF todo
  <2>5. worker.todo[1].op # "settle" /\ \E s \in Calls(Monitor) : Handled(s)
    <3>1. PICK s \in Calls(Monitor) : Handled(s) /\ CallOK(conns[s])
      BY <1>5
    <3>2. conns[s].req = Head(worker.todo) /\ conns[s].req \in Requests
      BY <1>1, <1>4, <1>8, <3>1 DEF CallOK, Calls, ServerInv, ConnsTyped, Connection
    <3> QED
      BY <2>4, <3>1, <3>2 DEF Requests
  <2>6. (Settles' <=> Settles) /\ (Shows' <=> Shows)
    <3>1. CASE n = 1
      <4>1. ~Settles
        BY <2>3, <2>5, <3>1 DEF Settles
      <4>2. w = <<>>
        BY <1>1, <1>8, <2>1, <2>4, <3>1, EmptySeq, HeadTailProperties
      <4>3. ~Settles'
        BY <2>2, <4>2 DEF Settles
      <4> QED
        BY <2>2, <4>1, <4>3 DEF Shows
    <3>2. CASE n # 1
      <4>1. w # <<>> /\ w[Len(w)] = worker.todo[n]
        <5>1. n - 1 \in 1 .. n - 1 /\ (n - 1) + 1 = n
          BY <2>4, <3>2
        <5>2. w[n - 1] = worker.todo[n]
          BY <2>4, <5>1
        <5>3. w # <<>>
          BY <2>4, <5>1
        <5> QED
          BY <2>4, <5>2, <5>3
      <4>2. worker'.todo[Len(worker'.todo)] = worker.todo[Len(worker.todo)]
        BY <2>2, <2>3, <4>1
      <4> QED
        BY <1>8, <2>2, <4>1, <4>2 DEF Settles, Shows
    <3> QED
      BY <3>1, <3>2
  <2>7. Plan'
    <3>1. ASSUME NEW i \in 1 .. n - 1
          PROVE  /\ w[i].op = "settle" => i = Len(w)
                 /\ w[i].op = "start" /\ w[i].kind # "echo" => Settles' /\ Shows' /\ w[i].kind # "bag"
                 /\ w[i].op = "start" /\ w[i].kind = "echo" =>
                        Len(w) = 1 /\ worker'.active # None /\ worker'.echo
      <4>1. i + 1 \in DOMAIN worker.todo /\ w[i] = worker.todo[i + 1] /\ i \in Nat \ {0}
        BY <2>4
      <4>2. w[i].op = "settle" => i + 1 = n
        BY <2>3, <4>1 DEF Plan
      <4>3. w[i].op = "start" /\ w[i].kind # "echo" => Settles /\ Shows /\ w[i].kind # "bag"
        BY <4>1 DEF Plan
      <4>4. ~(w[i].op = "start" /\ w[i].kind = "echo")
        <5>1. w[i].op = "start" /\ w[i].kind = "echo" => n = 1
          BY <2>3, <4>1 DEF Plan
        <5> QED
          BY <2>4, <5>1
      <4> QED
        BY <2>4, <2>6, <4>1, <4>2, <4>3, <4>4
    <3> QED
      BY <2>2, <2>4, <3>1 DEF Plan
  <2>8. ASSUME NEW k, MonitorHolds(k) PROVE MonitorHolds(k)'
    <3>1. CASE StopAhead(k)
      <4>1. PICK i \in DOMAIN worker.todo :
                worker.todo[i] = Stop(k) /\ (i = 1 => \A s \in Calls(Monitor) : ~Handled(s))
        BY <3>1 DEF StopAhead
      <4>2. i # 1 /\ i \in 1 .. n
        BY <2>4, <2>5, <4>1
      <4>3. i - 1 \in DOMAIN w /\ (i - 1) + 1 = i
        BY <2>4, <4>2
      <4>4. w[i - 1] = Stop(k)
        BY <2>4, <4>1, <4>3
      <4>5. \A s \in Calls(Monitor)' : ~Handled(s)'
        BY <1>5 DEF Calls
      <4>6. StopAhead(k)'
        BY <2>2, <4>3, <4>4, <4>5 DEF StopAhead
      <4> QED
        BY <4>6 DEF MonitorHolds
    <3>2. CASE Shows /\ (k = "echo" => worker.echo)
      BY <2>2, <2>6, <3>2 DEF MonitorHolds
    <3> QED
      BY <2>8, <3>1, <3>2 DEF MonitorHolds
  <2>9. AllHeld'
    BY <1>3, <1>6, <2>8, HeldKept
  <2> QED
    BY <1>5, <2>2, <2>7, <2>9 DEF Undisturbed
<1> QED
  BY <1>7, <1>8

\* A fault that struck stays on record.
LEMMA FaultsStay == ASSUME [Next]_vars, faults' = {} PROVE faults = {}
<1>a. \A f : Strikes(f) => faults' # {}
  BY DEF Strikes
<1>1. CASE Server \/ \E s \in Slots : CommandTimeout(s)
  BY <1>1, <1>a DEF Server, Accept, HandleClient, Respond, CommandTimeout
<1>2. CASE HandleRuntimeCommand \/ DelayFlag
  BY <1>2 DEF HandleRuntimeCommand, DelayFlag
<1>3. CASE \E c \in Clients : ClientStart(c) \/ ClientPoll(c) \/ ClientPause(c) \/ ClientStop(c)
                              \/ ClientReturn(c) \/ Kill(c)
  BY <1>3, <1>a DEF ClientStart, ClientPoll, ClientPause, ClientStop, ClientReturn, Kill, Returns
<1>4. CASE (\E t \in Topics : ClickTopic(t)) \/ ToggleEcho \/ ChangeWindow \/ PauseForLeave \/ DrainEvents
  BY <1>4 DEF ClickTopic, ToggleEcho, ChangeWindow, PauseForLeave, DrainEvents, Input
<1>5. CASE MonitorWorker
  BY <1>5, <1>a DEF MonitorWorker, ApplyCommand, SetActive, MonitorCall, MonitorPoll, MonitorReturn, Returns
<1>6. CASE (\E t \in Topics : PressStart(t)) \/ PressStop \/ PressPause \/ RecorderDrain
  BY <1>6 DEF PressStart, PressStop, PressPause, RecorderDrain, Press
<1>7. CASE RecorderWorker
  BY <1>7, <1>a DEF RecorderWorker, RecorderCommand, RecorderPoll, RecorderReturn, Returns
<1>8. CASE UNCHANGED vars
  BY <1>8 DEF vars
<1> QED
  BY <1>1, <1>2, <1>3, <1>4, <1>5, <1>6, <1>7, <1>8 DEF Next

\* Every step keeps sessions held.
LEMMA HoldSteps == SessionInv /\ HoldInv /\ [Next]_vars => HoldInv'
<1> SUFFICES ASSUME SessionInv, HoldInv, [Next]_vars, faults' = {}
             PROVE  Undisturbed' /\ Plan' /\ AllHeld'
  BY DEF HoldInv
<1>a. Undisturbed /\ Plan /\ AllHeld
  BY FaultsStay DEF HoldInv
<1>b. \A f : ~Strikes(f)
  BY DEF Strikes
<1>1. CASE Server
  BY <1>a, <1>1, ServerHolds DEF Server
<1>2. CASE \E s \in Slots : CommandTimeout(s)
  BY <1>2, <1>b DEF CommandTimeout
<1>3. CASE HandleRuntimeCommand
  BY <1>a, <1>3, RuntimeHolds
<1>4. CASE DelayFlag
  <2>1. UNCHANGED <<scenario, conns, queue, phase, worker>>
    BY <1>4 DEF DelayFlag, serverVars, clientVars, monitorVars
  <2>2. Active(sessions') = Active(sessions)
    <3>1. /\ sessions \in [Kinds -> SessionType \cup {None}] /\ sessions["delay"] # None
          /\ sessions' = [sessions EXCEPT !["delay"].flag = TRUE] /\ "delay" \in Kinds
      BY <1>4, Parts DEF DelayFlag, RuntimeTyped, Kinds
    <3>2. [sessions["delay"] EXCEPT !.flag = TRUE] \in SessionType
      BY <3>1 DEF SessionType
    <3>3. \A k \in Kinds : sessions'[k] # None <=> sessions[k] # None
      BY <3>1, <3>2, Sorts
    <3> QED
      BY <3>3 DEF Active
  <2> QED
    BY <1>a, <2>1, <2>2, HoldStays
<1>5. ASSUME NEW c \in Clients,
             ClientStart(c) \/ ClientPoll(c) \/ ClientPause(c) \/ ClientStop(c) \/ ClientReturn(c) \/ Kill(c)
      PROVE  Undisturbed' /\ Plan' /\ AllHeld'
  <2>1. ~Kill(c)
    BY <1>b DEF Kill
  <2> QED
    BY <1>a, <1>5, <2>1, ClientCallHolds, ClientReturnHolds
<1>6. CASE (\E t \in Topics : ClickTopic(t)) \/ ToggleEcho \/ ChangeWindow \/ PauseForLeave \/ DrainEvents
  <2>1. UNCHANGED <<scenario, conns, queue, phase, worker, sessions>>
    BY <1>6 DEF ClickTopic, ToggleEcho, ChangeWindow, PauseForLeave, DrainEvents, Input,
                serverVars, clientVars, runtimeVars
  <2> QED
    BY <1>a, <2>1, HoldStays
<1>7. CASE MonitorWorker
  BY <1>a, <1>7, ApplyHolds, SettleHolds, MonitorCallHolds, MonitorReturnHolds DEF MonitorWorker
<1>8. CASE (\E t \in Topics : PressStart(t)) \/ PressStop \/ PressPause \/ RecorderDrain
  <2>1. UNCHANGED <<scenario, conns, queue, phase, worker, sessions>>
    BY <1>8 DEF PressStart, PressStop, PressPause, RecorderDrain, Press,
                serverVars, clientVars, runtimeVars, monitorVars
  <2> QED
    BY <1>a, <2>1, HoldStays
<1>9. CASE RecorderWorker
  BY <1>a, <1>9, RecorderHolds
<1>10. CASE UNCHANGED vars
  <2>1. UNCHANGED <<scenario, conns, queue, phase, worker, sessions>>
    BY <1>10 DEF vars, serverVars, clientVars, runtimeVars, monitorVars
  <2> QED
    BY <1>a, <2>1, HoldStays
<1> QED
  BY <1>1, <1>2, <1>3, <1>4, <1>5, <1>6, <1>7, <1>8, <1>9, <1>10 DEF Next

\* Unless a fault struck, every session that is active has somebody left who
\* will stop it, but for the echo session once an echo process has exited
\* without the type of its topic: the process that started it or waits to pause or stop it, the
\* Topic Monitor's worker, whose plan ends on its topic or stops the session on
\* its way, or the Bag Recorder page (cli/topic, cli/bag, gui).
THEOREM NothingIsOrphaned == Spec => []NoOrphans
<1>1. Init => SessionInv /\ HoldInv
  BY Starts DEF Init, HoldInv, Undisturbed, CallsServed, NoneAbandoned, Plan, AllHeld, Active
<1>2. SessionInv /\ HoldInv /\ [Next]_vars => (SessionInv /\ HoldInv)'
  BY Steps, HoldSteps
<1>3. SessionInv /\ HoldInv => NoOrphans
  <2> SUFFICES ASSUME SessionInv, HoldInv, faults = {}, NEW k \in Active(sessions)
               PROVE  Cares(k) \/ LeftByEcho(k)
    BY DEF NoOrphans
  <2>1. Held(k)
    BY DEF HoldInv, AllHeld
  <2>2. ASSUME NEW c \in Clients, ClientHolds(c) PROVE Running(c) \/ LeftByEcho(Kind[c])
    BY <2>2 DEF ClientHolds, Running, LeftByEcho
  <2>3. ASSUME MonitorHolds(k) PROVE MonitorCares(k)
    <3>1. CASE worker.todo # <<>>
      BY <3>1 DEF MonitorCares
    <3>2. CASE worker.todo = <<>>
      <4>1. ~StopAhead(k) /\ ~Settles
        BY <3>2 DEF StopAhead, Settles
      <4> QED
        BY <2>3, <4>1 DEF MonitorHolds, MonitorCares, Shows
    <3> QED
      BY <3>1, <3>2
  <2> QED
    BY <2>1, <2>2, <2>3 DEF Held, Cares
<1> QED
  BY <1>1, <1>2, <1>3, PTL DEF Spec
=============================================================================
