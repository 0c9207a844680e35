----------------------------- MODULE Observers ------------------------------
(* What the hz, bw, delay and echo sessions of runtime/observers.rs make of *)
(* the samples the runtime hands them, and the stream that carries echoed   *)
(* messages to `rp topic echo` and the GUI: frames written by the runtime   *)
(* thread, streams accepted by a thread of the session, readers that come,  *)
(* go, lag behind and time out.  When sessions start and stop is up to      *)
(* Sessions; here they may start and stop at any time.                      *)
EXTENDS Integers, Sequences, FiniteSets, FiniteSetsExt, SequencesExt

CONSTANTS Topics, Writers,
  Inputs,        \* to choose one from: [names -> the samples that may arrive,
                 \* how many and how far apart (bounds), the sessions in use
                 \* and the readers that connect]
  Window,        \* window_size
  MaxDelta,      \* MAX_COMPARABLE_CLOCK_DELTA_NANOS
  Readers,       \* those who read the echo stream,
  Raw,           \*   among them the ones with a read timeout (echo --raw)
  PipeCapacity,  \* parts of frames a socket buffer holds
  None

ASSUME BoundAssumption ==
  {Window, PipeCapacity} \subseteq Nat \ {0} /\ MaxDelta \in Nat /\ Raw \subseteq Readers

ASSUME InputAssumption ==
  \A x \in DOMAIN Inputs :
    /\ Inputs[x].steps \subseteq Nat
    /\ \A s \in Inputs[x].samples :
         s \in [topic : {s.topic}, writer : Writers \cup {None}, seq : Nat, len : Nat,
                header : {"none", "zero", "stamp"}, age : Int, at : Nat]

ASSUME NamesAssumption ==
  /\ None \notin Writers \cup Nat
  /\ None \notin [topic : Topics, seqs : [Writers -> Nat \cup {None}], frames : Nat]
  /\ Readers \cap {"none", "loop", "done"} = {}

VARIABLES
  input,      \* which samples arrive
  now,        \* Instant::now
  count,      \* samples so far
  bw, hz, delay, echo,  \* the sessions, or None
  rt,         \* the runtime thread: free, writing a frame, or joining
  acceptor,   \* the accept thread: "none", "loop", a stream in hand, "done"
  connected,  \* connected_streams, in order
  streams,    \* [Readers -> the reader's end of its stream]
  seen,       \* history: per session, the samples of its topic since it started
  losses      \* history: [Writers -> what arrived for echo, what was reported]

rateVars == <<bw, hz, delay>>
echoVars == <<echo, rt, acceptor, connected, streams, losses>>
vars == <<input, now, count, rateVars, echoVars, seen>>

FreeRuntime == [pc |-> "free", frame |-> 0, part |-> 1, todo |-> <<>>]
NoLosses == [w \in Writers |-> [got |-> <<>>, lost |-> 0]]

Init ==
  /\ input \in DOMAIN Inputs
  /\ now = 0 /\ count = 0
  /\ bw = None /\ hz = None /\ delay = None /\ echo = None
  /\ rt = FreeRuntime /\ acceptor = "none" /\ connected = <<>>
  /\ streams = [r \in Readers |->
       [pc |-> "away", pipe |-> <<>>, open |-> FALSE, header |-> None, printed |-> <<>>]]
  /\ seen = [bw |-> <<>>, hz |-> <<>>, delay |-> <<>>]
  /\ losses = NoLosses

Free == rt.pc = "free"
Used(k) == k \in Inputs[input].sessions
LastN(s, n) == SubSeq(s, IF Len(s) > n THEN Len(s) - n + 1 ELSE 1, Len(s))
Sum(s) ==
  LET upTo[n \in 0 .. Len(s)] == IF n = 0 THEN 0 ELSE upTo[n - 1] + s[n]
  IN  upTo[Len(s)]
Least(s) == Min(ToSet(s))
Greatest(s) == Max(ToSet(s))

-----------------------------------------------------------------------------
(* Sessions for rates start empty and end at once.                          *)

StartBw(t) ==
  /\ Free /\ Used("bw") /\ bw = None
  /\ bw' = [topic |-> t, samples |-> <<>>]
  /\ seen' = [seen EXCEPT !.bw = <<>>]
  /\ UNCHANGED <<input, now, count, hz, delay, echoVars>>

StartHz(t) ==
  /\ Free /\ Used("hz") /\ hz = None
  /\ hz' = [topic |-> t, last |-> None, periods |-> <<>>]
  /\ seen' = [seen EXCEPT !.hz = <<>>]
  /\ UNCHANGED <<input, now, count, bw, delay, echoVars>>

StartDelay(t) ==
  /\ Free /\ Used("delay") /\ delay = None
  /\ delay' = [topic |-> t, delays |-> <<>>, missing |-> FALSE, mismatch |-> FALSE]
  /\ seen' = [seen EXCEPT !.delay = <<>>]
  /\ UNCHANGED <<input, now, count, bw, hz, echoVars>>

StopBw == Free /\ bw # None /\ bw' = None /\ UNCHANGED <<input, now, count, hz, delay, echoVars, seen>>
StopHz == Free /\ hz # None /\ hz' = None /\ UNCHANGED <<input, now, count, bw, delay, echoVars, seen>>
StopDelay == Free /\ delay # None /\ delay' = None /\ UNCHANGED <<input, now, count, bw, hz, echoVars, seen>>

-----------------------------------------------------------------------------
(* The observers: what one sample, at time t, does to each session.         *)

BwObserve(s, t) ==
  [bw EXCEPT !.samples = LastN(Append(@, [at |-> t, len |-> s.len]), Window)]

HzObserve(t) ==
  [hz EXCEPT !.last = t,
     !.periods = IF hz.last = None THEN @ ELSE LastN(Append(@, t - hz.last), Window)]

(* A sample's stamp lies `age` before its arrival, in the future if         *)
(* negative; "none" is a payload without a stamp, "zero" one never set.     *)
Distance(age) == IF age >= 0 THEN age ELSE -age
Comparable(s) == s.header = "stamp" /\ Distance(s.age) <= MaxDelta

(* Mutant: a mismatch keeps the delays measured before it.                  *)
DelayObserveKeeps(s) ==
  CASE s.header = "none" -> [delay EXCEPT !.missing = TRUE]
    [] Comparable(s) -> [delay EXCEPT !.mismatch = FALSE,
                           !.delays = LastN(Append(@, Distance(s.age)), Window)]
    [] OTHER -> [delay EXCEPT !.mismatch = TRUE]

DelayObserve(s) ==
  CASE s.header = "none" -> [delay EXCEPT !.missing = TRUE]
    [] Comparable(s) -> [delay EXCEPT !.mismatch = FALSE,
                           !.delays = LastN(Append(@, Distance(s.age)), Window)]
    [] OTHER -> [delay EXCEPT !.mismatch = TRUE, !.delays = <<>>]

(* lost_before: only a writer already known can have lost something; Zenoh  *)
(* samples have no sequence number.                                         *)
LostBefore(s) ==
  IF s.writer # None /\ echo.seqs[s.writer] # None /\ s.seq > echo.seqs[s.writer] + 1
  THEN s.seq - echo.seqs[s.writer] - 1
  ELSE 0

EchoObserve(s) ==
  [echo EXCEPT !.frames = @ + 1,
     !.seqs = IF s.writer = None THEN @ ELSE [@ EXCEPT ![s.writer] = s.seq]]

(* Statistics of a status reply.                                            *)
BwStats ==
  LET lens == [i \in DOMAIN bw.samples |-> bw.samples[i].len]
  IN  [count |-> Len(lens), total |-> Sum(lens), min |-> Least(lens), max |-> Greatest(lens),
       elapsed |-> Last(bw.samples).at - Head(bw.samples).at]

HasHzStats == hz.periods # <<>> /\ Sum(hz.periods) > 0
HzStats == [count |-> Len(hz.periods), total |-> Sum(hz.periods),
            min |-> Least(hz.periods), max |-> Greatest(hz.periods)]

DelayStats == [count |-> Len(delay.delays), total |-> Sum(delay.delays),
               min |-> Least(delay.delays), max |-> Greatest(delay.delays)]

-----------------------------------------------------------------------------
(* handle_data_message, observe_zenoh_topic_sample: one sample goes to every *)
(* session of its topic; echo locks the streams to write a frame to each.   *)

Concerns(session, s) == session # None /\ session.topic = s.topic

Note(ws, s, lost) ==
  IF s.writer = None THEN ws
  ELSE [ws EXCEPT ![s.writer] = [got |-> Append(@.got, s.seq), lost |-> @.lost + lost]]

Observe(s, step) ==
  LET t == now + step
  IN  /\ Free /\ count < Inputs[input].count
      /\ count' = count + 1 /\ now' = t
      /\ bw' = IF Concerns(bw, s) THEN BwObserve(s, t) ELSE bw
      /\ hz' = IF Concerns(hz, s) THEN HzObserve(t) ELSE hz
      /\ delay' = IF Concerns(delay, s) THEN DelayObserve(s) ELSE delay
      /\ seen' = [k \in DOMAIN seen |->
           IF Concerns([bw |-> bw, hz |-> hz, delay |-> delay][k], s)
           THEN Append(seen[k], [s EXCEPT !.at = t]) ELSE seen[k]]
      /\ IF Concerns(echo, s)
         THEN /\ echo' = EchoObserve(s)
              /\ losses' = Note(losses, s, LostBefore(s))
              /\ rt' = [pc |-> "writing", frame |-> echo'.frames, part |-> 1, todo |-> connected]
         ELSE UNCHANGED <<echo, losses, rt>>
      /\ UNCHANGED <<input, acceptor, connected, streams>>

-----------------------------------------------------------------------------
(* The echo stream.                                                         *)

StartEcho(t) ==
  /\ Free /\ Used("echo") /\ echo = None
  /\ echo' = [topic |-> t, seqs |-> [w \in Writers |-> None], frames |-> 0]
  /\ acceptor' = "loop" /\ connected' = <<>> /\ losses' = NoLosses
  /\ UNCHANGED <<input, now, count, rateVars, rt, streams, seen>>

(* shutdown_stream sets accept_stop and joins the thread, ...               *)
StopEcho ==
  /\ Free /\ echo # None
  /\ rt' = [rt EXCEPT !.pc = "joining"]
  /\ UNCHANGED <<input, now, count, rateVars, echo, acceptor, connected, streams, losses, seen>>

(* ... and the session's streams close with it, those still in the backlog  *)
(* with the listener.                                                       *)
Joined ==
  /\ rt.pc = "joining" /\ acceptor = "done"
  /\ rt' = FreeRuntime /\ acceptor' = "none" /\ echo' = None /\ connected' = <<>>
  /\ streams' = [r \in Readers |-> [streams[r] EXCEPT !.open = FALSE]]
  /\ UNCHANGED <<input, now, count, rateVars, losses, seen>>

Writing == rt.pc = "writing"
Target == Head(rt.todo)
Gone(r) == streams[r].pc = "done"

(* write_echo_frame, a frame being its header and its payload: a part fits  *)
(* or the write blocks; a write that times out, or whose reader has gone,   *)
(* fails and `retain_mut` drops the stream with what was written.           *)
WritePart ==
  /\ Writing /\ rt.todo # <<>> /\ ~Gone(Target)
  /\ Len(streams[Target].pipe) < PipeCapacity
  /\ streams' = [streams EXCEPT ![Target].pipe = Append(@, <<rt.frame, rt.part>>)]
  /\ rt' = IF rt.part = 1 THEN [rt EXCEPT !.part = 2]
           ELSE [rt EXCEPT !.part = 1, !.todo = Tail(@)]
  /\ UNCHANGED <<input, now, count, rateVars, echo, acceptor, connected, losses, seen>>

(* Mutant: a stream whose write failed is kept.                             *)
WriteFailsKeeps ==
  /\ Writing /\ rt.todo # <<>>
  /\ Gone(Target) \/ Len(streams[Target].pipe) = PipeCapacity
  /\ rt' = [rt EXCEPT !.part = 1, !.todo = Tail(@)]
  /\ UNCHANGED <<input, now, count, rateVars, echo, acceptor, connected, streams, losses, seen>>

WriteFails ==
  /\ Writing /\ rt.todo # <<>>
  /\ Gone(Target) \/ Len(streams[Target].pipe) = PipeCapacity
  /\ streams' = [streams EXCEPT ![Target].open = FALSE]
  /\ connected' = RemoveFirst(connected, Target)
  /\ rt' = [rt EXCEPT !.part = 1, !.todo = Tail(@)]
  /\ UNCHANGED <<input, now, count, rateVars, echo, acceptor, losses, seen>>

WriteDone ==
  /\ Writing /\ rt.todo = <<>>
  /\ rt' = FreeRuntime
  /\ UNCHANGED <<input, now, count, rateVars, echo, acceptor, connected, streams, losses, seen>>

(* Mutant: the lock is held while the accept thread is joined.              *)
LockFreeWhenIdle == Free

(* The accept thread looks at accept_stop between two accepts and needs the *)
(* lock to add a stream.                                                    *)
LockFree == ~Writing

AcceptStream(r) ==
  /\ acceptor = "loop" /\ streams[r].pc # "away" /\ streams[r].open
  /\ ~Contains(connected, r)
  /\ acceptor' = r
  /\ UNCHANGED <<input, now, count, rateVars, echo, rt, connected, streams, losses, seen>>

PushStream ==
  /\ acceptor \in Readers /\ LockFree
  /\ connected' = Append(connected, acceptor)
  /\ acceptor' = "loop"
  /\ UNCHANGED <<input, now, count, rateVars, echo, rt, streams, losses, seen>>

AcceptorExit ==
  /\ acceptor = "loop" /\ rt.pc = "joining"
  /\ acceptor' = "done"
  /\ UNCHANGED <<input, now, count, rateVars, echo, rt, connected, streams, losses, seen>>

(* Readers.  The socket exists while the accept thread does.                *)
Connect(r) ==
  /\ r \in Inputs[input].readers
  /\ streams[r].pc = "away" /\ acceptor \notin {"none", "done"}
  /\ streams' = [streams EXCEPT ![r].pc = "header", ![r].open = TRUE]
  /\ UNCHANGED <<input, now, count, rateVars, echo, rt, acceptor, connected, losses, seen>>

(* read_echo_frame: anything but a header where one is expected is an       *)
(* invalid frame and ends the reader.                                       *)
ReadHeader(r) ==
  /\ streams[r].pc = "header" /\ streams[r].pipe # <<>>
  /\ LET part == Head(streams[r].pipe)
     IN  streams' = [streams EXCEPT ![r].pipe = Tail(@), ![r].header = part[1],
                       ![r].pc = IF part[2] = 1 THEN "payload" ELSE "done"]
  /\ UNCHANGED <<input, now, count, rateVars, echo, rt, acceptor, connected, losses, seen>>

ReadPayload(r) ==
  /\ streams[r].pc = "payload" /\ streams[r].pipe # <<>>
  /\ streams' = [streams EXCEPT ![r].pipe = Tail(@), ![r].pc = "header",
                   ![r].printed = Append(@, <<streams[r].header, Head(streams[r].pipe)>>)]
  /\ UNCHANGED <<input, now, count, rateVars, echo, rt, acceptor, connected, losses, seen>>

(* read_exact_or_timeout: the reader starts over, the header it had read is *)
(* forgotten.                                                               *)
ReadTimeout(r) ==
  /\ r \in Raw /\ streams[r].pc = "payload"
  /\ streams[r].pipe = <<>> /\ streams[r].open
  /\ streams' = [streams EXCEPT ![r].pc = "header"]
  /\ UNCHANGED <<input, now, count, rateVars, echo, rt, acceptor, connected, losses, seen>>

(* End of stream, or the user has seen enough.                              *)
ReaderEnds(r) ==
  /\ streams[r].pc \in {"header", "payload"}
  /\ streams' = [streams EXCEPT ![r].pc = "done", ![r].pipe = <<>>]
  /\ UNCHANGED <<input, now, count, rateVars, echo, rt, acceptor, connected, losses, seen>>

-----------------------------------------------------------------------------
Runtime == Joined \/ WritePart \/ WriteFails \/ WriteDone
Acceptor == PushStream \/ AcceptorExit

Next ==
  \/ \E t \in Topics : StartBw(t) \/ StartHz(t) \/ StartDelay(t) \/ StartEcho(t)
  \/ StopBw \/ StopHz \/ StopDelay \/ StopEcho
  \/ \E s \in Inputs[input].samples, step \in Inputs[input].steps : Observe(s, step)
  \/ Runtime \/ Acceptor
  \/ \E r \in Readers : AcceptStream(r) \/ Connect(r) \/ ReadHeader(r) \/ ReadPayload(r)
                          \/ ReadTimeout(r) \/ ReaderEnds(r)

Spec == Init /\ [][Next]_vars

(* The runtime finishes what it began, and the accept thread goes round.    *)
FairSpec == Spec /\ WF_vars(Runtime) /\ WF_vars(Acceptor)

-----------------------------------------------------------------------------
(* The shape of the state.                                                  *)
TypeOK ==
  /\ input \in DOMAIN Inputs /\ count \in Nat /\ now \in Nat
  /\ bw # None => Len(bw.samples) <= Window
  /\ hz # None => Len(hz.periods) <= Window
  /\ delay # None => Len(delay.delays) <= Window /\ {delay.missing, delay.mismatch} \subseteq BOOLEAN
  /\ echo # None => echo.topic \in Topics /\ echo.frames \in Nat
  /\ acceptor \in {"none", "loop", "done"} \cup Readers
  /\ (acceptor = "none") <=> (echo = None)
  /\ IsInjective(connected) /\ ToSet(connected) \subseteq Readers
  /\ \A r \in Readers :
       /\ streams[r].pc \in {"away", "header", "payload", "done"}
       /\ Len(streams[r].pipe) <= PipeCapacity
       /\ Contains(connected, r) => streams[r].open

Gaps(s) == [i \in 1 .. Len(s) - 1 |-> s[i + 1].at - s[i].at]

(* The elements of s at some places, in their order.                        *)
Select(s, places) ==
  LET upTo[n \in 0 .. Len(s)] ==
        IF n = 0 THEN <<>>
        ELSE IF n \in places THEN Append(upTo[n - 1], s[n]) ELSE upTo[n - 1]
  IN  upTo[Len(s)]

(* The comparable samples since the clocks were last found to differ.       *)
Differs(s) == s.header # "none" /\ ~Comparable(s)
SinceMismatch(s) ==
  Select(s, {i \in DOMAIN s : Comparable(s[i]) /\ \A j \in i .. Len(s) : ~Differs(s[j])})

(* What a status reply says is about exactly the last messages of the       *)
(* topic, at most a window of them, since this session started: their       *)
(* sizes, the gaps between them, and the delays of those whose clock is     *)
(* comparable, none from before a mismatch; the rate times the time the     *)
(* gaps span is their number.                                               *)
StatsExact ==
  /\ bw # None /\ bw.samples # <<>> =>
       LET last == LastN(seen.bw, Window)
       IN  /\ BwStats.count = Len(last)
           /\ BwStats.total = Sum([i \in DOMAIN last |-> last[i].len])
           /\ BwStats.elapsed = Last(last).at - Head(last).at
  /\ hz # None /\ HasHzStats =>
       LET last == LastN(seen.hz, Window + 1)
       IN  /\ HzStats.count = Len(last) - 1
           /\ HzStats.total = Last(last).at - Head(last).at
           /\ HzStats.min = Min(ToSet(Gaps(last))) /\ HzStats.max = Max(ToSet(Gaps(last)))
  /\ hz # None /\ ~HasHzStats => \A i \in DOMAIN Gaps(LastN(seen.hz, Window + 1)) :
       Gaps(LastN(seen.hz, Window + 1))[i] = 0
  /\ delay # None =>
       LET last == LastN(SinceMismatch(seen.delay), Window)
       IN  /\ delay.delays = [i \in DOMAIN last |-> Distance(last[i].age)]
           /\ delay.mismatch => delay.delays = <<>>
           /\ delay.missing <=> \E i \in DOMAIN seen.delay : seen.delay[i].header = "none"

InOrder(s) == \A i \in 1 .. Len(s) - 1 : s[i] < s[i + 1]
Missing(s) ==
  IF s = <<>> THEN {} ELSE (Head(s) .. Max(ToSet(s))) \ ToSet(s)

(* Echo reports at least every message of a writer that went missing since  *)
(* the writer was first heard, whatever the order of arrival, and exactly   *)
(* those when they arrive in order.                                         *)
LossReported ==
  \A w \in Writers :
    /\ losses[w].lost >= Cardinality(Missing(losses[w].got))
    /\ InOrder(losses[w].got) => losses[w].lost = Cardinality(Missing(losses[w].got))

(* What hz, bw, delay and echo tell their user is true of the messages that *)
(* arrived since the session started.                                       *)
ReportsTrue == TypeOK /\ StatsExact /\ LossReported

(* Every message a reader prints is one whole frame, and the frames it      *)
(* prints are consecutive, although writes and reads time out halfway:      *)
(* neither side goes on after a torn frame.                                 *)
FramesWhole ==
  \A r \in Readers :
    LET p == streams[r].printed
    IN  /\ \A i \in DOMAIN p : p[i][2] = <<p[i][1], 2>>
        /\ \A i \in 1 .. Len(p) - 1 : p[i + 1][1] = p[i][1] + 1

(* The runtime is never stuck in an echo write or in joining the accept     *)
(* thread, whatever readers do: one that stops reading costs it a timeout.  *)
RuntimeReturns == ~Free ~> Free
=============================================================================
