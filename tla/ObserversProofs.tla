-------------------------- MODULE ObserversProofs ---------------------------
(***************************************************************************)
(* Proofs about Observers, for all inputs, any number of readers and any   *)
(* capacity of their sockets: what a reader of the echo stream prints is   *)
(* whole frames, one after the other (FramesWhole), and what hz, bw, delay *)
(* and echo report is true of the messages that arrived (ReportsTrue).  And *)
(* about the helper subscribers that observers and bags need (ShadowSubs), *)
(* for any number of participants, endpoints, topics, observers and failed *)
(* spawns.                                                                 *)
(***************************************************************************)
EXTENDS Observers, ShadowSubs, CommonLemmas

----------------------------------------------------------------------------
(* A stream by itself, as a value.                                         *)

\* The parts of frames, and the one that comes after another in a stream.
Parts == Nat \X {1, 2}
Follows(p, q) == IF p[2] = 1 THEN q = <<p[1], 2>> ELSE q = <<p[1] + 1, 1>>

StreamStates ==
    [pc : {"away", "header", "payload", "done"}, pipe : Seq(Parts), open : BOOLEAN,
     header : Nat \cup {None}, printed : Seq((Nat \cup {None}) \X Parts)]

\* Printed frames are whole and consecutive.
PrintedWhole(p) ==
    /\ \A i \in 1 .. Len(p) : p[i][2] = <<p[i][1], 2>> /\ p[i][1] \in Nat
    /\ \A i \in 1 .. Len(p) - 1 : p[i + 1][1] = p[i][1] + 1

\* What a reader gets next: from its socket, or from the writer when it is
\* connected, which writes `due` to it next.
Upcoming(s, conn, due) ==
    IF s.pipe # <<>> THEN {s.pipe[1]} ELSE IF conn THEN {due} ELSE {}

\* The frame that follows what has been printed.
Continues(f, p) == p # <<>> => f = p[Len(p)][1] + 1

\* What is in the socket follows the order of the stream up to what the writer
\* writes next.  A reader that waits for a payload gets that of its header; one
\* that waits for a header gets that of the next frame, or no header.
StreamOk(s, conn, due) ==
    /\ PrintedWhole(s.printed)
    /\ s.pc \in {"header", "payload"} =>
         /\ \A i \in 1 .. Len(s.pipe) - 1 : Follows(s.pipe[i], s.pipe[i + 1])
         /\ conn /\ s.pipe # <<>> => Follows(s.pipe[Len(s.pipe)], due)
         /\ s.pc = "payload" =>
              /\ s.header \in Nat /\ Continues(s.header, s.printed)
              /\ \A u \in Upcoming(s, conn, due) : u = <<s.header, 2>>
         /\ s.pc = "header" =>
              \A u \in Upcoming(s, conn, due) : u[2] = 1 => Continues(u[1], s.printed)

\* The writer puts a part into the socket.
LEMMA StreamPush ==
    ASSUME NEW s \in StreamStates, NEW due \in Parts, NEW after \in Parts,
           StreamOk(s, TRUE, due), Follows(due, after)
    PROVE  /\ [s EXCEPT !.pipe = Append(@, due)] \in StreamStates
           /\ StreamOk([s EXCEPT !.pipe = Append(@, due)], TRUE, after)
<1> DEFINE t == [s EXCEPT !.pipe = Append(@, due)]
<1>1. s.pipe \in Seq(Parts) /\ s.printed \in Seq((Nat \cup {None}) \X Parts)
  BY DEF StreamStates
<1>2. /\ t \in StreamStates /\ t.pipe = Append(s.pipe, due)
      /\ t.pc = s.pc /\ t.header = s.header /\ t.printed = s.printed
  <2> DEFINE x == Append(s.pipe, due)
  <2>1. x \in Seq(Parts) /\ t = [s EXCEPT !.pipe = x]
    BY <1>1, AppendProperties
  <2> HIDE DEF x, t
  <2>2. t \in StreamStates /\ t.pipe = x
        /\ t.pc = s.pc /\ t.header = s.header /\ t.printed = s.printed
    BY <2>1 DEF StreamStates
  <2> QED
    BY <2>2 DEF x
<1>3. /\ Len(s.pipe) \in Nat /\ Len(t.pipe) = Len(s.pipe) + 1
      /\ \A i \in 1 .. Len(s.pipe) : t.pipe[i] = s.pipe[i]
      /\ t.pipe[Len(s.pipe) + 1] = due
  BY <1>1, <1>2, AppendProperties, LenProperties
<1>4. t.pipe # <<>> /\ (s.pipe = <<>> <=> Len(s.pipe) = 0)
  BY <1>1, <1>2, AppendProperties, EmptySeq
<1> HIDE DEF t
<1>5. t.pipe[1] = IF s.pipe # <<>> THEN s.pipe[1] ELSE due
  BY <1>3, <1>4
<1>6. Upcoming(t, TRUE, after) = Upcoming(s, TRUE, due)
  BY <1>4, <1>5 DEF Upcoming
<1>7. ASSUME s.pc \in {"header", "payload"} PROVE StreamOk(t, TRUE, after)
  <2>1. \A i \in 1 .. Len(t.pipe) - 1 : Follows(t.pipe[i], t.pipe[i + 1])
    <3> TAKE i \in 1 .. Len(t.pipe) - 1
    <3>1. CASE i = Len(s.pipe)
      <4>1. s.pipe # <<>> /\ t.pipe[i] = s.pipe[Len(s.pipe)] /\ t.pipe[i + 1] = due
        BY <1>3, <1>4, <3>1
      <4> QED
        BY <1>7, <4>1 DEF StreamOk
    <3>2. CASE i # Len(s.pipe)
      <4>1. i \in 1 .. Len(s.pipe) - 1 /\ t.pipe[i] = s.pipe[i] /\ t.pipe[i + 1] = s.pipe[i + 1]
        BY <1>3, <3>2
      <4> QED
        BY <1>7, <4>1 DEF StreamOk
    <3> QED
      BY <3>1, <3>2
  <2>2. Follows(t.pipe[Len(t.pipe)], after)
    BY <1>3
  <2> QED
    BY <1>2, <1>6, <1>7, <2>1, <2>2 DEF StreamOk
<1>8. StreamOk(t, TRUE, after)
  <2>1. CASE s.pc \notin {"header", "payload"}
    BY <1>2, <2>1 DEF StreamOk
  <2> QED
    BY <1>7, <2>1
<1> QED
  BY <1>2, <1>8 DEF t

\* What the head of a socket is, and what is left behind it.
LEMMA PipeTail ==
    ASSUME NEW q \in Seq(Parts), q # <<>>
    PROVE  /\ Tail(q) \in Seq(Parts) /\ Len(q) \in Nat \ {0} /\ Len(Tail(q)) = Len(q) - 1
           /\ Head(q) = q[1] /\ q[1] \in Parts
           /\ \A i \in 1 .. Len(q) - 1 : Tail(q)[i] = q[i + 1]
           /\ Tail(q) # <<>> <=> Len(q) > 1
<1>1. Len(q) \in Nat \ {0}
  BY EmptySeq, LenProperties
<1>2. /\ Tail(q) \in Seq(Parts) /\ Len(Tail(q)) = Len(q) - 1
      /\ \A i \in 1 .. Len(Tail(q)) : Tail(q)[i] = q[i + 1]
  BY HeadTailProperties
<1>3. Head(q) = q[1] /\ q[1] \in Parts
  BY <1>1, ElementOfSeq, HeadTailProperties
<1>4. Tail(q) # <<>> <=> Len(q) > 1
  <2>1. Tail(q) = <<>> <=> Len(Tail(q)) = 0
    BY <1>2, EmptySeq
  <2> QED
    BY <1>1, <1>2, <2>1
<1> QED
  BY <1>1, <1>2, <1>3, <1>4

\* After the head of a socket comes the next one, or what the writer owes.
LEMMA PipeNext ==
    ASSUME NEW s \in StreamStates, NEW conn \in BOOLEAN, NEW due \in Parts,
           StreamOk(s, conn, due), s.pc \in {"header", "payload"}, s.pipe # <<>>,
           NEW t \in StreamStates, t.pipe = Tail(s.pipe)
    PROVE  /\ s.pipe[1] \in Parts
           /\ \A u \in Upcoming(t, conn, due) : Follows(s.pipe[1], u)
           /\ \A i \in 1 .. Len(t.pipe) - 1 : Follows(t.pipe[i], t.pipe[i + 1])
           /\ conn /\ t.pipe # <<>> => Follows(t.pipe[Len(t.pipe)], due)
<1>1. s.pipe \in Seq(Parts)
  BY DEF StreamStates
<1>2. /\ Len(s.pipe) \in Nat \ {0} /\ Len(t.pipe) = Len(s.pipe) - 1
      /\ s.pipe[1] \in Parts
      /\ \A i \in 1 .. Len(s.pipe) - 1 : t.pipe[i] = s.pipe[i + 1]
      /\ t.pipe # <<>> <=> Len(s.pipe) > 1
  BY <1>1, PipeTail
<1>3. /\ \A i \in 1 .. Len(s.pipe) - 1 : Follows(s.pipe[i], s.pipe[i + 1])
      /\ conn => Follows(s.pipe[Len(s.pipe)], due)
  BY DEF StreamOk
<1>4. ASSUME NEW u \in Upcoming(t, conn, due) PROVE Follows(s.pipe[1], u)
  <2>1. CASE t.pipe # <<>>
    <3>1. u = t.pipe[1] /\ t.pipe[1] = s.pipe[2] /\ 1 \in 1 .. Len(s.pipe) - 1
      BY <1>2, <1>4, <2>1 DEF Upcoming
    <3> QED
      BY <1>3, <3>1
  <2>2. CASE t.pipe = <<>>
    <3>1. conn /\ u = due
      BY <1>4, <2>2 DEF Upcoming
    <3>2. Len(s.pipe) = 1
      <4> DEFINE n == Len(s.pipe)
      <4>1. n \in Nat \ {0} /\ ~(n > 1)
        BY <1>2, <2>2
      <4> HIDE DEF n
      <4>2. n = 1
        BY <4>1
      <4> QED
        BY <4>2 DEF n
    <3> QED
      BY <1>3, <3>1, <3>2
  <2> QED
    BY <2>1, <2>2
<1>5. ASSUME NEW i \in 1 .. Len(t.pipe) - 1 PROVE Follows(t.pipe[i], t.pipe[i + 1])
  <2>1. /\ i \in 1 .. Len(s.pipe) - 1 /\ i + 1 \in 1 .. Len(s.pipe) - 1
        /\ t.pipe[i] = s.pipe[i + 1] /\ t.pipe[i + 1] = s.pipe[(i + 1) + 1]
    BY <1>2
  <2> QED
    BY <1>3, <2>1
<1>6. ASSUME conn, t.pipe # <<>> PROVE Follows(t.pipe[Len(t.pipe)], due)
  <2>1. t.pipe[Len(t.pipe)] = s.pipe[Len(s.pipe)]
    BY <1>2, <1>6
  <2> QED
    BY <1>3, <1>6, <2>1
<1> QED
  BY <1>2, <1>4, <1>5, <1>6

\* A reader takes a header from its socket, or gives up when it is none.
LEMMA StreamHeader ==
    ASSUME NEW s \in StreamStates, NEW conn \in BOOLEAN, NEW due \in Parts,
           StreamOk(s, conn, due), s.pc = "header", s.pipe # <<>>
    PROVE  LET t == [s EXCEPT !.pipe = Tail(@), !.header = Head(s.pipe)[1],
                              !.pc = IF Head(s.pipe)[2] = 1 THEN "payload" ELSE "done"]
           IN  t \in StreamStates /\ StreamOk(t, conn, due)
<1> DEFINE t == [s EXCEPT !.pipe = Tail(@), !.header = Head(s.pipe)[1],
                          !.pc = IF Head(s.pipe)[2] = 1 THEN "payload" ELSE "done"]
<1>1. s.pipe \in Seq(Parts)
  BY DEF StreamStates
<1>2. Tail(s.pipe) \in Seq(Parts) /\ Head(s.pipe) = s.pipe[1] /\ s.pipe[1] \in Parts
  BY <1>1, PipeTail
<1>3. s.pipe[1][1] \in Nat /\ s.pipe[1][2] \in {1, 2}
  BY <1>2 DEF Parts
<1>4. /\ t \in StreamStates /\ t.pipe = Tail(s.pipe) /\ t.header = s.pipe[1][1]
      /\ t.printed = s.printed
      /\ t.pc = IF s.pipe[1][2] = 1 THEN "payload" ELSE "done"
  BY <1>2, <1>3 DEF StreamStates
<1> HIDE DEF t
<1>5. /\ \A u \in Upcoming(t, conn, due) : Follows(s.pipe[1], u)
      /\ \A i \in 1 .. Len(t.pipe) - 1 : Follows(t.pipe[i], t.pipe[i + 1])
      /\ conn /\ t.pipe # <<>> => Follows(t.pipe[Len(t.pipe)], due)
  BY <1>4, PipeNext
<1>6. s.pipe[1][2] = 1 => Continues(s.pipe[1][1], s.printed)
  BY DEF StreamOk, Upcoming
<1>7. PrintedWhole(t.printed)
  BY <1>4 DEF StreamOk
<1>8. ASSUME s.pipe[1][2] = 1 PROVE StreamOk(t, conn, due)
  BY <1>3, <1>4, <1>5, <1>6, <1>7, <1>8 DEF StreamOk, Follows
<1>9. StreamOk(t, conn, due)
  <2>1. CASE s.pipe[1][2] # 1
    BY <1>4, <1>7, <2>1 DEF StreamOk
  <2> QED
    BY <1>8, <2>1
<1> QED
  BY <1>4, <1>9 DEF t

\* A reader takes a payload and prints it.
LEMMA StreamPayload ==
    ASSUME NEW s \in StreamStates, NEW conn \in BOOLEAN, NEW due \in Parts,
           StreamOk(s, conn, due), s.pc = "payload", s.pipe # <<>>
    PROVE  LET t == [s EXCEPT !.pipe = Tail(@), !.pc = "header",
                              !.printed = Append(@, <<s.header, Head(s.pipe)>>)]
           IN  t \in StreamStates /\ StreamOk(t, conn, due)
<1> DEFINE t == [s EXCEPT !.pipe = Tail(@), !.pc = "header",
                          !.printed = Append(@, <<s.header, Head(s.pipe)>>)]
           p == s.printed
<1>1. s.pipe \in Seq(Parts) /\ p \in Seq((Nat \cup {None}) \X Parts) /\ s.header \in Nat
  BY DEF StreamStates, StreamOk
<1>2. Tail(s.pipe) \in Seq(Parts) /\ Head(s.pipe) = s.pipe[1] /\ s.pipe[1] \in Parts
  BY <1>1, PipeTail
<1>3. /\ t \in StreamStates /\ t.pipe = Tail(s.pipe) /\ t.pc = "header"
      /\ t.printed = Append(p, <<s.header, s.pipe[1]>>)
  <2> DEFINE x == Tail(s.pipe)
             y == Append(p, <<s.header, s.pipe[1]>>)
  <2>1. /\ x \in Seq(Parts) /\ y \in Seq((Nat \cup {None}) \X Parts)
        /\ t = [s EXCEPT !.pipe = x, !.pc = "header", !.printed = y]
    BY <1>1, <1>2, AppendProperties
  <2> HIDE DEF x, y, t
  <2>2. t \in StreamStates /\ t.pipe = x /\ t.pc = "header" /\ t.printed = y
    BY <2>1 DEF StreamStates
  <2> QED
    BY <2>2 DEF x, y
<1> HIDE DEF t
<1>4. /\ \A u \in Upcoming(t, conn, due) : Follows(s.pipe[1], u)
      /\ \A i \in 1 .. Len(t.pipe) - 1 : Follows(t.pipe[i], t.pipe[i + 1])
      /\ conn /\ t.pipe # <<>> => Follows(t.pipe[Len(t.pipe)], due)
  BY <1>3, PipeNext
<1>5. s.pipe[1] = <<s.header, 2>> /\ Continues(s.header, p) /\ PrintedWhole(p)
  BY DEF StreamOk, Upcoming
<1>6. /\ Len(p) \in Nat /\ Len(t.printed) = Len(p) + 1
      /\ \A i \in 1 .. Len(p) : t.printed[i] = p[i]
      /\ t.printed[Len(p) + 1] = <<s.header, <<s.header, 2>>>>
      /\ (p = <<>> <=> Len(p) = 0)
  BY <1>1, <1>3, <1>5, AppendProperties, LenProperties, EmptySeq
<1>7. PrintedWhole(t.printed)
  <2>1. ASSUME NEW i \in 1 .. Len(t.printed)
        PROVE  t.printed[i][2] = <<t.printed[i][1], 2>> /\ t.printed[i][1] \in Nat
    <3>1. CASE i = Len(p) + 1
      BY <1>1, <1>6, <3>1
    <3>2. CASE i \in 1 .. Len(p)
      BY <1>5, <1>6, <3>2 DEF PrintedWhole
    <3> QED
      BY <1>6, <3>1, <3>2
  <2>2. ASSUME NEW i \in 1 .. Len(t.printed) - 1
        PROVE  t.printed[i + 1][1] = t.printed[i][1] + 1
    <3>1. CASE i = Len(p)
      <4>1. p # <<>> /\ t.printed[i] = p[Len(p)] /\ t.printed[i + 1][1] = s.header
        BY <1>6, <3>1
      <4> QED
        BY <1>5, <4>1 DEF Continues
    <3>2. CASE i # Len(p)
      <4>1. i \in 1 .. Len(p) - 1 /\ t.printed[i] = p[i] /\ t.printed[i + 1] = p[i + 1]
        BY <1>6, <3>2
      <4> QED
        BY <1>5, <4>1 DEF PrintedWhole
    <3> QED
      BY <3>1, <3>2
  <2> QED
    BY <2>1, <2>2 DEF PrintedWhole
<1>8. \A u \in Upcoming(t, conn, due) : u = <<s.header + 1, 1>>
  BY <1>4, <1>5 DEF Follows
<1>9. t.printed[Len(t.printed)][1] = s.header
  BY <1>6
<1>10. \A u \in Upcoming(t, conn, due) : u[2] = 1 => Continues(u[1], t.printed)
  BY <1>8, <1>9 DEF Continues
<1>11. StreamOk(t, conn, due)
  BY <1>3, <1>4, <1>7, <1>10 DEF StreamOk
<1> QED
  BY <1>3, <1>11 DEF t

\* A reader forgets its header when the payload does not come in time; the
\* payload that comes after all is not taken for a header.
LEMMA StreamTimeout ==
    ASSUME NEW s \in StreamStates, NEW conn \in BOOLEAN, NEW due \in Parts,
           StreamOk(s, conn, due), s.pc = "payload", s.pipe = <<>>
    PROVE  /\ [s EXCEPT !.pc = "header"] \in StreamStates
           /\ StreamOk([s EXCEPT !.pc = "header"], conn, due)
<1> DEFINE t == [s EXCEPT !.pc = "header"]
<1>1. /\ t \in StreamStates /\ t.pc = "header" /\ t.pipe = s.pipe
      /\ t.printed = s.printed
  BY DEF StreamStates
<1> HIDE DEF t
<1>2. \A u \in Upcoming(t, conn, due) : u[2] = 2
  BY <1>1 DEF Upcoming, StreamOk
<1>3. StreamOk(t, conn, due)
  BY <1>1, <1>2 DEF StreamOk, Upcoming
<1> QED
  BY <1>1, <1>3 DEF t

\* What a stream holds is as good when the writer lets go of it, when its end
\* is closed, and when its reader leaves.
LEMMA StreamCut ==
    ASSUME NEW s \in StreamStates, NEW conn \in BOOLEAN, NEW due, NEW other,
           StreamOk(s, conn, due)
    PROVE  /\ StreamOk(s, FALSE, other)
           /\ [s EXCEPT !.open = FALSE] \in StreamStates
           /\ StreamOk([s EXCEPT !.open = FALSE], FALSE, other)
           /\ [s EXCEPT !.pc = "done", !.pipe = <<>>] \in StreamStates
           /\ StreamOk([s EXCEPT !.pc = "done", !.pipe = <<>>], conn, other)
<1>1. StreamOk(s, FALSE, other)
  BY DEF StreamOk, Upcoming
<1>2. [s EXCEPT !.open = FALSE] \in StreamStates
  BY DEF StreamStates
<1>3. StreamOk([s EXCEPT !.open = FALSE], FALSE, other)
  BY <1>1 DEF StreamOk, Upcoming, StreamStates
<1>4. [s EXCEPT !.pc = "done", !.pipe = <<>>] \in StreamStates
  <2>1. <<>> \in Seq(Parts)
    OBVIOUS
  <2> QED
    BY <2>1 DEF StreamStates
<1>5. StreamOk([s EXCEPT !.pc = "done", !.pipe = <<>>], conn, other)
  BY <1>4 DEF StreamOk, StreamStates
<1> QED
  BY <1>1, <1>2, <1>3, <1>4, <1>5

\* A stream of which nothing has been read owes nothing, whatever comes first.
LEMMA StreamFresh ==
    ASSUME NEW s \in StreamStates, s.pc \in {"away", "header", "done"},
           s.pipe = <<>>, s.printed = <<>>, NEW conn \in BOOLEAN, NEW due \in Parts
    PROVE  StreamOk(s, conn, due)
<1>1. Len(<<>>) = 0
  OBVIOUS
<1> QED
  BY <1>1 DEF StreamOk, PrintedWhole, Continues

----------------------------------------------------------------------------
(* The threads and the streams together.                                   *)

Runtimes == [pc : {"free", "writing", "joining"}, frame : Nat, part : {1, 2},
             todo : Seq(Readers)]
EchoSessions == [topic : Topics, seqs : [Writers -> Nat \cup {None}], frames : Nat]

EchoTypes ==
    /\ input \in DOMAIN Inputs /\ count \in Nat /\ now \in Nat
    /\ echo \in EchoSessions \cup {None}
    /\ rt \in Runtimes
    /\ acceptor \in {"none", "loop", "done"} \cup Readers
    /\ connected \in Seq(Readers)
    /\ streams \in [Readers -> StreamStates]

\* The streams the runtime writes to, and those still to get the frame it is
\* writing.
Conn == ToSet(connected)
Owed == ToSet(rt.todo)

\* The part that a stream gets next.
Due(r) ==
    IF r \in Owed THEN <<rt.frame, IF r = Head(rt.todo) THEN rt.part ELSE 1>>
    ELSE <<IF echo = None THEN 0 ELSE echo.frames + 1, 1>>

\* How far the threads are fits the session and the streams.
ThreadsLink ==
    /\ acceptor = "none" <=> echo = None
    /\ rt.pc # "free" => echo # None
    /\ rt.pc # "writing" => rt.todo = <<>>
    /\ rt.pc = "writing" => rt.frame = echo.frames
    /\ echo = None => connected = <<>>
    /\ QueueExact(connected, Conn) /\ QueueExact(rt.todo, Owed) /\ Owed \subseteq Conn
    /\ acceptor \in Readers => acceptor \notin Conn /\ streams[acceptor].open

\* A stream that is open but not connected has not been used.
StreamLink(r) ==
    /\ Len(streams[r].pipe) <= PipeCapacity
    /\ r \in Conn => streams[r].open
    /\ streams[r].open => echo # None
    /\ streams[r].open /\ r \notin Conn =>
         /\ streams[r].pipe = <<>> /\ streams[r].printed = <<>>
         /\ streams[r].pc \in {"header", "done"}
    /\ streams[r].pc = "away" =>
         ~streams[r].open /\ streams[r].pipe = <<>> /\ streams[r].printed = <<>>
    /\ StreamOk(streams[r], r \in Conn, Due(r))

EchoInv == EchoTypes /\ ThreadsLink /\ \A r \in Readers : StreamLink(r)

\* The facts of the invariant that every step needs.
LEMMA EchoFacts ==
    ASSUME EchoInv
    PROVE  /\ None \notin EchoSessions /\ Conn \subseteq Readers
           /\ (echo # None => echo.frames \in Nat)
           /\ (rt.todo = <<>> => Owed = {})
           /\ \A r \in Readers : /\ Due(r) \in Parts /\ streams[r] \in StreamStates
                                 /\ StreamLink(r) /\ (r \in Conn) \in BOOLEAN
                                 /\ (r \in Conn <=> Contains(connected, r))
<1>1. EchoTypes /\ ThreadsLink
  BY DEF EchoInv
<1>2. /\ Len(connected) \in Nat /\ DOMAIN connected = 1 .. Len(connected)
      /\ Conn \subseteq Readers
      /\ \A i \in 1 .. Len(connected) : connected[i] \in Conn
      /\ \A r \in Conn : \E i \in 1 .. Len(connected) : connected[i] = r
  BY <1>1, QueueForm DEF EchoTypes, ThreadsLink
<1>3. None \notin EchoSessions
  BY NamesAssumption DEF EchoSessions
<1>4. echo # None => echo.frames \in Nat
  BY <1>1 DEF EchoTypes, EchoSessions
<1>5. rt.todo = <<>> => Owed = {}
  <2>1. DOMAIN <<>> = {}
    OBVIOUS
  <2> QED
    BY <2>1 DEF Owed, ToSet
<1>6. rt.frame \in Nat /\ rt.part \in {1, 2}
  BY <1>1 DEF EchoTypes, Runtimes
<1>7. ASSUME NEW r \in Readers
      PROVE  /\ Due(r) \in Parts /\ streams[r] \in StreamStates /\ StreamLink(r)
             /\ (r \in Conn <=> Contains(connected, r))
  <2>1. Due(r) \in Parts
    BY <1>4, <1>6 DEF Due, Parts
  <2>2. r \in Conn <=> Contains(connected, r)
    BY <1>2 DEF Contains
  <2> QED
    BY <1>1, <2>1, <2>2 DEF EchoInv, EchoTypes
<1> QED
  BY <1>2, <1>3, <1>4, <1>5, <1>7

\* A step that leaves the stream, its place and what it is owed as they were.
LEMMA StreamKept ==
    ASSUME EchoInv, NEW r \in Readers, streams'[r] = streams[r],
           r \in Conn' <=> r \in Conn, r \in Conn => Due(r)' = Due(r),
           echo # None => echo' # None
    PROVE  StreamLink(r)'
<1>1. streams[r] \in StreamStates /\ StreamLink(r) /\ (r \in Conn) \in BOOLEAN
  BY EchoFacts
<1>2. StreamOk(streams[r], r \in Conn, Due(r))
  BY <1>1 DEF StreamLink
<1>3. StreamOk(streams'[r], r \in Conn', Due(r)')
  <2>1. CASE r \in Conn
    <3>1. (r \in Conn') = (r \in Conn) /\ Due(r)' = Due(r)
      BY <2>1
    <3> QED
      BY <1>2, <3>1
  <2>2. CASE r \notin Conn
    <3>1. (r \in Conn') = FALSE
      BY <2>2
    <3>2. StreamOk(streams[r], FALSE, Due(r)')
      BY <1>1, <1>2, StreamCut
    <3> QED
      BY <3>1, <3>2
  <2> QED
    BY <2>1, <2>2
<1> QED
  BY <1>1, <1>3 DEF StreamLink

\* A step that does not concern the echo session.
LEMMA EchoUntouched ==
    ASSUME EchoInv, UNCHANGED echoVars, input' \in DOMAIN Inputs,
           count' \in Nat, now' \in Nat
    PROVE  EchoInv'
<1>1. /\ echo' = echo /\ rt' = rt /\ acceptor' = acceptor
      /\ connected' = connected /\ streams' = streams
  BY DEF echoVars
<1>2. EchoTypes' /\ ThreadsLink'
  BY <1>1 DEF EchoInv, EchoTypes, ThreadsLink, Conn, Owed
<1>3. Conn' = Conn /\ \A r \in Readers : Due(r)' = Due(r)
  BY <1>1 DEF Conn, Owed, Due
<1>4. \A r \in Readers : StreamLink(r)'
  BY <1>1, <1>3, StreamKept
<1> QED
  BY <1>2, <1>4 DEF EchoInv

LEMMA StartEchoKeeps ==
    ASSUME EchoInv, NEW t \in Topics, StartEcho(t)
    PROVE  EchoInv'
<1>1. /\ echo = None /\ Free /\ acceptor' = "loop" /\ connected' = <<>> /\ rt' = rt
      /\ streams' = streams /\ input' = input /\ now' = now /\ count' = count
      /\ echo' = [topic |-> t, seqs |-> [w \in Writers |-> None], frames |-> 0]
  BY DEF StartEcho
<1>2. EchoTypes /\ ThreadsLink
  BY DEF EchoInv
<1>3. connected = <<>> /\ rt.todo = <<>>
  BY <1>1, <1>2 DEF ThreadsLink, Free
<1>4. echo' \in EchoSessions /\ echo' # None
  <2>1. echo' \in EchoSessions
    BY <1>1 DEF EchoSessions
  <2> QED
    BY <2>1, EchoFacts
<1>5. EchoTypes'
  BY <1>1, <1>2, <1>4, EmptySeq DEF EchoTypes
<1>6. Conn = {} /\ Conn' = {} /\ Owed' = {} /\ Owed = {}
  <2>1. DOMAIN <<>> = {}
    OBVIOUS
  <2> QED
    BY <1>1, <1>3, <2>1 DEF Conn, Owed, ToSet
<1>7. ThreadsLink'
  <2>1. "loop" \notin Readers /\ "loop" # "none"
    BY NamesAssumption
  <2> QED
    BY <1>1, <1>2, <1>3, <1>4, <1>6, <2>1, QueueEmpty DEF ThreadsLink, Free
<1>8. \A r \in Readers : StreamLink(r)'
  BY <1>1, <1>4, <1>6, StreamKept
<1> QED
  BY <1>5, <1>7, <1>8 DEF EchoInv

LEMMA StopEchoKeeps ==
    ASSUME EchoInv, StopEcho
    PROVE  EchoInv'
<1>1. /\ echo # None /\ Free /\ rt' = [rt EXCEPT !.pc = "joining"]
      /\ echo' = echo /\ acceptor' = acceptor /\ connected' = connected
      /\ streams' = streams /\ input' = input /\ now' = now /\ count' = count
  BY DEF StopEcho
<1>2. EchoTypes /\ ThreadsLink
  BY DEF EchoInv
<1>3. /\ rt' \in Runtimes /\ rt'.pc = "joining" /\ rt'.todo = rt.todo
      /\ rt'.frame = rt.frame /\ rt'.part = rt.part
  BY <1>1, <1>2 DEF EchoTypes, Runtimes
<1>4. EchoTypes'
  BY <1>1, <1>2, <1>3 DEF EchoTypes
<1>5. Conn' = Conn /\ Owed' = Owed /\ \A r \in Readers : Due(r)' = Due(r)
  BY <1>1, <1>3 DEF Conn, Owed, Due
<1>6. ThreadsLink'
  BY <1>1, <1>2, <1>3, <1>5 DEF ThreadsLink, Free
<1>7. \A r \in Readers : StreamLink(r)'
  BY <1>1, <1>5, StreamKept
<1> QED
  BY <1>4, <1>6, <1>7 DEF EchoInv

LEMMA JoinedKeeps ==
    ASSUME EchoInv, Joined
    PROVE  EchoInv'
<1>1. /\ rt' = FreeRuntime /\ acceptor' = "none" /\ echo' = None /\ connected' = <<>>
      /\ streams' = [r \in Readers |-> [streams[r] EXCEPT !.open = FALSE]]
      /\ input' = input /\ now' = now /\ count' = count
  BY DEF Joined
<1>2. EchoTypes /\ ThreadsLink
  BY DEF EchoInv
<1>3. rt' \in Runtimes /\ rt'.pc = "free" /\ rt'.todo = <<>>
  BY <1>1, EmptySeq DEF FreeRuntime, Runtimes
<1>4. Conn' = {} /\ Owed' = {}
  <2>1. DOMAIN <<>> = {}
    OBVIOUS
  <2> QED
    BY <1>1, <1>3, <2>1 DEF Conn, Owed, ToSet
<1>5. ASSUME NEW r \in Readers
      PROVE  streams'[r] \in StreamStates /\ StreamLink(r)'
  <2>1. /\ streams[r] \in StreamStates /\ StreamLink(r) /\ (r \in Conn) \in BOOLEAN
        /\ streams'[r] = [streams[r] EXCEPT !.open = FALSE]
    BY <1>1, EchoFacts
  <2>2. StreamOk(streams[r], r \in Conn, Due(r))
    BY <2>1 DEF StreamLink
  <2>3. streams'[r] \in StreamStates /\ StreamOk(streams'[r], FALSE, Due(r)')
    <3> DEFINE s == streams[r]
               conn == r \in Conn
               due == Due(r)
               other == Due(r)'
    <3>1. s \in StreamStates /\ conn \in BOOLEAN /\ StreamOk(s, conn, due)
      BY <2>1, <2>2
    <3>2. streams'[r] = [s EXCEPT !.open = FALSE]
      BY <2>1
    <3> HIDE DEF s, conn, due, other
    <3>3. [s EXCEPT !.open = FALSE] \in StreamStates
      BY <3>1, StreamCut
    <3>4. StreamOk([s EXCEPT !.open = FALSE], FALSE, other)
      BY <3>1, StreamCut
    <3> QED
      BY <3>2, <3>3, <3>4 DEF other
  <2>4. /\ streams'[r].open = FALSE /\ streams'[r].pipe = streams[r].pipe
        /\ streams'[r].pc = streams[r].pc /\ streams'[r].printed = streams[r].printed
    BY <2>1 DEF StreamStates
  <2>5. (r \in Conn') = FALSE
    BY <1>4
  <2> QED
    BY <2>1, <2>3, <2>4, <2>5 DEF StreamLink
<1>6. streams' \in [Readers -> StreamStates]
  BY <1>1, <1>5
<1>7. EchoTypes'
  BY <1>1, <1>2, <1>3, <1>6, EmptySeq DEF EchoTypes
<1>8. ThreadsLink'
  <2>1. "none" \notin Readers
    BY NamesAssumption
  <2> QED
    BY <1>1, <1>3, <1>4, <2>1, QueueEmpty DEF ThreadsLink
<1> QED
  BY <1>5, <1>7, <1>8 DEF EchoInv

LEMMA WriteDoneKeeps ==
    ASSUME EchoInv, WriteDone
    PROVE  EchoInv'
<1>1. /\ rt.todo = <<>> /\ rt' = FreeRuntime
      /\ echo' = echo /\ acceptor' = acceptor /\ connected' = connected
      /\ streams' = streams /\ input' = input /\ now' = now /\ count' = count
  BY DEF WriteDone
<1>2. EchoTypes /\ ThreadsLink
  BY DEF EchoInv
<1>3. rt' \in Runtimes /\ rt'.pc = "free" /\ rt'.todo = <<>>
  BY <1>1, EmptySeq DEF FreeRuntime, Runtimes
<1>4. EchoTypes'
  BY <1>1, <1>2, <1>3 DEF EchoTypes
<1>5. Conn' = Conn /\ Owed' = {} /\ Owed = {} /\ \A r \in Readers : Due(r)' = Due(r)
  <2>1. Conn' = Conn /\ Owed' = Owed /\ Owed = {}
    BY <1>1, <1>3, EchoFacts DEF Conn, Owed
  <2> QED
    BY <1>1, <2>1 DEF Due
<1>6. ThreadsLink'
  BY <1>1, <1>2, <1>3, <1>5, QueueEmpty DEF ThreadsLink
<1>7. \A r \in Readers : StreamLink(r)'
  BY <1>1, <1>5, StreamKept
<1> QED
  BY <1>4, <1>6, <1>7 DEF EchoInv

\* The accept thread has a stream in hand, or sees that it should stop.
LEMMA AcceptorKeeps ==
    ASSUME EchoInv, AcceptorExit \/ \E r \in Readers : AcceptStream(r)
    PROVE  EchoInv'
<1>1. /\ acceptor = "loop" /\ rt' = rt /\ echo' = echo /\ connected' = connected
      /\ streams' = streams /\ input' = input /\ now' = now /\ count' = count
      /\ \/ acceptor' = "done"
         \/ acceptor' \in Readers /\ streams[acceptor'].open
              /\ ~Contains(connected, acceptor')
  BY DEF AcceptorExit, AcceptStream
<1>2. EchoTypes /\ ThreadsLink
  BY DEF EchoInv
<1>3. "none" \notin Readers /\ "done" \notin Readers /\ "loop" # "none" /\ "done" # "none"
  BY NamesAssumption
<1>4. EchoTypes'
  BY <1>1, <1>2 DEF EchoTypes
<1>5. Conn' = Conn /\ Owed' = Owed /\ \A r \in Readers : Due(r)' = Due(r)
  BY <1>1 DEF Conn, Owed, Due
<1>6. acceptor' \in Readers => acceptor' \notin Conn /\ streams[acceptor'].open
  BY <1>1, <1>3, EchoFacts
<1>7. acceptor' # "none" /\ echo # None
  BY <1>1, <1>2, <1>3 DEF ThreadsLink
<1>8. ThreadsLink'
  BY <1>1, <1>2, <1>5, <1>6, <1>7 DEF ThreadsLink
<1>9. \A r \in Readers : StreamLink(r)'
  BY <1>1, <1>5, StreamKept
<1> QED
  BY <1>4, <1>8, <1>9 DEF EchoInv

LEMMA PushStreamKeeps ==
    ASSUME EchoInv, PushStream
    PROVE  EchoInv'
<1>1. /\ acceptor \in Readers /\ LockFree /\ acceptor' = "loop"
      /\ connected' = Append(connected, acceptor)
      /\ rt' = rt /\ echo' = echo /\ streams' = streams
      /\ input' = input /\ now' = now /\ count' = count
  BY DEF PushStream
<1>2. EchoTypes /\ ThreadsLink
  BY DEF EchoInv
<1>3. "none" \notin Readers /\ "loop" \notin Readers /\ "loop" # "none"
  BY NamesAssumption
<1>4. /\ rt.todo = <<>> /\ echo # None /\ acceptor \notin Conn /\ streams[acceptor].open
      /\ QueueExact(connected, Conn) /\ connected \in Seq(Readers)
  BY <1>1, <1>2, <1>3 DEF ThreadsLink, EchoTypes, LockFree, Writing
<1>5. connected' \in Seq(Readers) /\ QueueExact(connected', Conn \cup {acceptor})
  BY <1>1, <1>4, QueueAppend
<1>6. Conn' = Conn \cup {acceptor}
  BY <1>5 DEF QueueExact, Conn
<1>7. EchoTypes'
  BY <1>1, <1>2, <1>5 DEF EchoTypes
<1>8. Owed' = {} /\ Owed = {} /\ \A r \in Readers : Due(r)' = Due(r)
  <2>1. Owed' = Owed /\ Owed = {}
    BY <1>1, <1>4, EchoFacts DEF Owed
  <2> QED
    BY <1>1, <2>1 DEF Due
<1>9. ThreadsLink'
  BY <1>1, <1>2, <1>3, <1>4, <1>5, <1>6, <1>8, QueueEmpty DEF ThreadsLink
<1>10. ASSUME NEW r \in Readers PROVE StreamLink(r)'
  <2>1. CASE r # acceptor
    BY <1>1, <1>6, <1>8, <2>1, StreamKept
  <2>2. CASE r = acceptor
    <3>1. /\ streams[r] \in StreamStates /\ StreamLink(r) /\ Due(r) \in Parts
          /\ streams'[r] = streams[r] /\ Due(r)' = Due(r) /\ (r \in Conn') = TRUE
          /\ r \notin Conn /\ streams[r].open
      BY <1>1, <1>4, <1>6, <1>8, <2>2, EchoFacts
    <3>2. streams[r].pipe = <<>> /\ streams[r].printed = <<>> /\ streams[r].pc \in {"header", "done"}
      BY <3>1 DEF StreamLink
    <3>3. StreamOk(streams'[r], r \in Conn', Due(r)')
      BY <3>1, <3>2, StreamFresh
    <3> QED
      BY <1>1, <1>4, <3>1, <3>2, <3>3 DEF StreamLink
  <2> QED
    BY <2>1, <2>2
<1> QED
  BY <1>7, <1>9, <1>10 DEF EchoInv

\* A reader connects to the socket: its stream waits in the backlog.
LEMMA ConnectKeeps ==
    ASSUME EchoInv, NEW r \in Readers, Connect(r)
    PROVE  EchoInv'
<1>1. /\ streams[r].pc = "away" /\ acceptor \notin {"none", "done"}
      /\ streams' = [streams EXCEPT ![r].pc = "header", ![r].open = TRUE]
      /\ acceptor' = acceptor /\ connected' = connected /\ rt' = rt /\ echo' = echo
      /\ input' = input /\ now' = now /\ count' = count
  BY DEF Connect
<1>2. EchoTypes /\ ThreadsLink
  BY DEF EchoInv
<1>3. streams[r] \in StreamStates /\ StreamLink(r) /\ Due(r) \in Parts
  BY EchoFacts
<1>4. /\ ~streams[r].open /\ streams[r].pipe = <<>> /\ streams[r].printed = <<>>
      /\ r \notin Conn /\ Len(streams[r].pipe) <= PipeCapacity
  BY <1>1, <1>3 DEF StreamLink
<1> DEFINE t == [streams[r] EXCEPT !.pc = "header", !.open = TRUE]
<1>5. /\ streams'[r] = t /\ streams' = [streams EXCEPT ![r] = t]
      /\ \A q \in Readers : q # r => streams'[q] = streams[q]
  BY <1>1, <1>2 DEF EchoTypes
<1>6. /\ t \in StreamStates /\ t.pc = "header" /\ t.pipe = <<>> /\ t.printed = <<>> /\ t.open
  BY <1>3, <1>4 DEF StreamStates
<1> HIDE DEF t
<1>7. EchoTypes'
  BY <1>1, <1>2, <1>5, <1>6 DEF EchoTypes
<1>8. Conn' = Conn /\ Owed' = Owed /\ \A q \in Readers : Due(q)' = Due(q)
  BY <1>1 DEF Conn, Owed, Due
<1>9. echo # None
  BY <1>1, <1>2 DEF ThreadsLink
<1>10. acceptor \in Readers => acceptor \notin Conn /\ streams'[acceptor].open
  BY <1>2, <1>5, <1>6 DEF ThreadsLink
<1>11. ThreadsLink'
  BY <1>1, <1>2, <1>8, <1>10 DEF ThreadsLink
<1>12. ASSUME NEW q \in Readers PROVE StreamLink(q)'
  <2>1. CASE q # r
    BY <1>1, <1>5, <1>8, <2>1, StreamKept
  <2>2. CASE q = r
    <3>1. streams'[q] = t /\ q \notin Conn' /\ (q \in Conn') = FALSE /\ Due(q)' \in Parts
      BY <1>3, <1>4, <1>5, <1>8, <2>2
    <3>2. StreamOk(streams'[q], q \in Conn', Due(q)')
      BY <1>6, <3>1, StreamFresh
    <3> QED
      BY <1>1, <1>4, <1>6, <1>9, <3>1, <3>2 DEF StreamLink
  <2> QED
    BY <2>1, <2>2
<1> QED
  BY <1>7, <1>11, <1>12 DEF EchoInv

\* What a reader does to its end of the stream.
LEMMA ReaderKeeps ==
    ASSUME EchoInv, NEW r \in Readers, NEW t \in StreamStates,
           StreamOk(t, r \in Conn, Due(r)), t.open = streams[r].open,
           Len(t.pipe) <= PipeCapacity, streams[r].pc # "away", t.pc # "away",
           streams[r].open /\ r \notin Conn =>
             t.pipe = <<>> /\ t.printed = <<>> /\ t.pc \in {"header", "done"},
           streams' = [streams EXCEPT ![r] = t],
           UNCHANGED <<input, now, count, echo, rt, acceptor, connected>>
    PROVE  EchoInv'
<1>1. EchoTypes /\ ThreadsLink /\ StreamLink(r)
  BY DEF EchoInv
<1>2. streams'[r] = t /\ \A q \in Readers : q # r => streams'[q] = streams[q]
  BY <1>1 DEF EchoTypes
<1>3. EchoTypes'
  BY <1>1 DEF EchoTypes
<1>4. Conn' = Conn /\ Owed' = Owed /\ \A q \in Readers : Due(q)' = Due(q)
  BY DEF Conn, Owed, Due
<1>5. acceptor \in Readers => streams'[acceptor].open = streams[acceptor].open
  BY <1>2
<1>6. ThreadsLink'
  BY <1>1, <1>4, <1>5 DEF ThreadsLink
<1>7. ASSUME NEW q \in Readers PROVE StreamLink(q)'
  <2>1. CASE q # r
    BY <1>2, <1>4, <2>1, StreamKept
  <2>2. CASE q = r
    <3>1. streams'[q] = t /\ (q \in Conn') = (r \in Conn) /\ Due(q)' = Due(r) /\ q = r
      BY <1>2, <1>4, <2>2
    <3>2. StreamOk(streams'[q], q \in Conn', Due(q)')
      BY <3>1
    <3> QED
      BY <1>1, <1>4, <3>1, <3>2 DEF StreamLink
  <2> QED
    BY <2>1, <2>2
<1> QED
  BY <1>3, <1>6, <1>7 DEF EchoInv

LEMMA ReadsKeep ==
    ASSUME EchoInv, NEW r \in Readers,
           ReadHeader(r) \/ ReadPayload(r) \/ ReadTimeout(r) \/ ReaderEnds(r)
    PROVE  EchoInv'
<1> DEFINE s == streams[r]
           conn == r \in Conn
           due == Due(r)
<1>1. s \in StreamStates /\ StreamLink(r) /\ due \in Parts /\ conn \in BOOLEAN
  BY EchoFacts
<1>2. /\ StreamOk(s, conn, due) /\ Len(s.pipe) <= PipeCapacity
      /\ s.open /\ ~conn => s.pipe = <<>> /\ s.printed = <<>> /\ s.pc \in {"header", "done"}
  BY <1>1 DEF StreamLink
<1>3. s.pipe \in Seq(Parts) /\ PipeCapacity \in Nat
  BY <1>1, BoundAssumption DEF StreamStates
<1>4. CASE ReadHeader(r)
  <2> DEFINE t == [s EXCEPT !.pipe = Tail(@), !.header = Head(s.pipe)[1],
                            !.pc = IF Head(s.pipe)[2] = 1 THEN "payload" ELSE "done"]
  <2>1. /\ s.pc = "header" /\ s.pipe # <<>> /\ streams' = [streams EXCEPT ![r] = t]
        /\ UNCHANGED <<input, now, count, echo, rt, acceptor, connected>>
    BY <1>4 DEF ReadHeader
  <2>2. t \in StreamStates /\ StreamOk(t, conn, due)
    BY <1>1, <1>2, <2>1, StreamHeader
  <2>3. /\ t.pipe = Tail(s.pipe) /\ t.open = s.open /\ t.pc # "away"
    BY <1>1 DEF StreamStates
  <2>4. Len(t.pipe) <= PipeCapacity
    BY <1>2, <1>3, <2>1, <2>3, PipeTail
  <2> HIDE DEF t
  <2> QED
    BY <1>1, <1>2, <2>1, <2>2, <2>3, <2>4, ReaderKeeps
<1>5. CASE ReadPayload(r)
  <2> DEFINE t == [s EXCEPT !.pipe = Tail(@), !.pc = "header",
                            !.printed = Append(@, <<s.header, Head(s.pipe)>>)]
  <2>1. /\ s.pc = "payload" /\ s.pipe # <<>> /\ streams' = [streams EXCEPT ![r] = t]
        /\ UNCHANGED <<input, now, count, echo, rt, acceptor, connected>>
    BY <1>5 DEF ReadPayload
  <2>2. t \in StreamStates /\ StreamOk(t, conn, due)
    BY <1>1, <1>2, <2>1, StreamPayload
  <2>3. /\ t.pipe = Tail(s.pipe) /\ t.open = s.open /\ t.pc # "away"
    BY <1>1 DEF StreamStates
  <2>4. Len(t.pipe) <= PipeCapacity
    BY <1>2, <1>3, <2>1, <2>3, PipeTail
  <2> HIDE DEF t
  <2> QED
    BY <1>1, <1>2, <2>1, <2>2, <2>3, <2>4, ReaderKeeps
<1>6. CASE ReadTimeout(r)
  <2> DEFINE t == [s EXCEPT !.pc = "header"]
  <2>1. /\ s.pc = "payload" /\ s.pipe = <<>> /\ s.open
        /\ streams' = [streams EXCEPT ![r] = t]
        /\ UNCHANGED <<input, now, count, echo, rt, acceptor, connected>>
    BY <1>1, <1>6 DEF ReadTimeout, EchoInv, EchoTypes
  <2>2. t \in StreamStates /\ StreamOk(t, conn, due)
    BY <1>1, <1>2, <2>1, StreamTimeout
  <2>3. t.pipe = s.pipe /\ t.open = s.open /\ t.pc # "away"
    BY <1>1 DEF StreamStates
  <2> HIDE DEF t
  <2> QED
    BY <1>1, <1>2, <2>1, <2>2, <2>3, ReaderKeeps
<1>7. CASE ReaderEnds(r)
  <2> DEFINE t == [s EXCEPT !.pc = "done", !.pipe = <<>>]
  <2>1. /\ s.pc # "away" /\ streams' = [streams EXCEPT ![r] = t]
        /\ UNCHANGED <<input, now, count, echo, rt, acceptor, connected>>
    BY <1>1, <1>7 DEF ReaderEnds, EchoInv, EchoTypes
  <2>2. t \in StreamStates /\ StreamOk(t, conn, due)
    BY <1>1, <1>2, StreamCut
  <2>3. /\ t.pipe = <<>> /\ t.open = s.open /\ t.pc = "done" /\ t.printed = s.printed
    BY <1>1 DEF StreamStates
  <2>4. Len(t.pipe) <= PipeCapacity
    BY <1>3, <2>3, EmptySeq
  <2> HIDE DEF t
  <2> QED
    BY <1>1, <1>2, <2>1, <2>2, <2>3, <2>4, ReaderKeeps
<1> QED
  BY <1>4, <1>5, <1>6, <1>7

\* The runtime is through with the stream it writes to.
LEMMA TodoAdvances ==
    ASSUME EchoInv, Writing, rt.todo # <<>>, NEW q, q = Target, echo' = echo,
           rt' = [rt EXCEPT !.part = 1, !.todo = Tail(@)]
    PROVE  /\ q \in Readers /\ q \in Conn /\ Due(q) = <<rt.frame, rt.part>>
           /\ Due(q)' = <<rt.frame + 1, 1>> /\ rt.frame \in Nat /\ rt.part \in {1, 2}
           /\ rt' \in Runtimes /\ rt'.pc = "writing" /\ rt'.frame = echo.frames
           /\ Owed' = Owed \ {q} /\ QueueExact(rt'.todo, Owed')
           /\ \A r \in Readers : r # q => Due(r)' = Due(r)
<1>1. EchoTypes /\ ThreadsLink
  BY DEF EchoInv
<1>2. /\ rt.todo \in Seq(Readers) /\ rt.frame \in Nat /\ rt.part \in {1, 2}
      /\ QueueExact(rt.todo, Owed) /\ rt.pc = "writing"
      /\ rt.frame = echo.frames /\ echo # None /\ Owed \subseteq Conn
  BY <1>1 DEF EchoTypes, Runtimes, ThreadsLink, Writing
<1>3. /\ q \in Owed /\ Tail(rt.todo) \in Seq(Readers)
      /\ QueueExact(Tail(rt.todo), Owed \ {q})
  BY <1>2, QueueTail DEF Target
<1>4. /\ rt' \in Runtimes /\ rt'.pc = "writing" /\ rt'.frame = rt.frame
      /\ rt'.todo = Tail(rt.todo) /\ rt'.part = 1
  BY <1>1, <1>2, <1>3 DEF EchoTypes, Runtimes
<1>5. Owed' = Owed \ {q}
  BY <1>3, <1>4 DEF QueueExact, Owed
<1>6. q \in Conn /\ q \in Readers
  BY <1>2, <1>3, EchoFacts
<1>7. Due(q) = <<rt.frame, rt.part>>
  BY <1>3 DEF Due, Target
<1>8. ASSUME NEW r \in Readers
      PROVE  Due(r)' = IF r \in Owed \ {q} THEN <<rt.frame, 1>> ELSE <<rt.frame + 1, 1>>
  BY <1>2, <1>4, <1>5 DEF Due
<1>9. ASSUME NEW r \in Readers, r # q PROVE Due(r)' = Due(r)
  <2>1. CASE r \in Owed
    BY <1>8, <1>9, <2>1 DEF Due, Target
  <2>2. CASE r \notin Owed
    BY <1>2, <1>8, <1>9, <2>2 DEF Due
  <2> QED
    BY <2>1, <2>2
<1> QED
  BY <1>2, <1>3, <1>4, <1>5, <1>6, <1>7, <1>8, <1>9

LEMMA WritePartKeeps ==
    ASSUME EchoInv, WritePart
    PROVE  EchoInv'
<1>1. /\ Writing /\ rt.todo # <<>> /\ ~Gone(Target)
      /\ Len(streams[Target].pipe) < PipeCapacity
      /\ streams' = [streams EXCEPT ![Target].pipe = Append(@, <<rt.frame, rt.part>>)]
      /\ rt' = IF rt.part = 1 THEN [rt EXCEPT !.part = 2]
               ELSE [rt EXCEPT !.part = 1, !.todo = Tail(@)]
      /\ echo' = echo /\ acceptor' = acceptor /\ connected' = connected
      /\ input' = input /\ now' = now /\ count' = count
  BY DEF WritePart
<1>q. PICK q : q = Target
  OBVIOUS
<1>2. EchoTypes /\ ThreadsLink
  BY DEF EchoInv
<1>3. /\ q \in Owed /\ q \in Conn /\ q \in Readers /\ rt.frame \in Nat
      /\ rt.part \in {1, 2} /\ rt.frame = echo.frames /\ echo # None /\ rt.pc = "writing"
      /\ Due(q) = <<rt.frame, rt.part>>
  <2>1. /\ rt.todo \in Seq(Readers) /\ QueueExact(rt.todo, Owed) /\ Owed \subseteq Conn
        /\ rt.frame \in Nat /\ rt.part \in {1, 2} /\ rt.pc = "writing"
        /\ rt.frame = echo.frames /\ echo # None
    BY <1>1, <1>2 DEF EchoTypes, Runtimes, ThreadsLink, Writing
  <2>2. q \in Owed
    BY <1>1, <1>q, <2>1, QueueTail DEF Target
  <2>3. Due(q) = <<rt.frame, rt.part>>
    BY <1>q, <2>2 DEF Due, Target
  <2> QED
    BY <2>1, <2>2, <2>3, EchoFacts
\* The runtime after the write.
<1>4. /\ rt' \in Runtimes /\ rt'.pc = "writing" /\ rt'.frame = rt.frame
      /\ Owed' \subseteq Owed /\ QueueExact(rt'.todo, Owed')
      /\ \A r \in Readers : r # q => Due(r)' = Due(r)
      /\ Due(q)' \in Parts /\ Follows(Due(q), Due(q)')
  <2>1. CASE rt.part = 1
    <3>1. /\ rt' \in Runtimes /\ rt'.pc = "writing" /\ rt'.frame = rt.frame
          /\ rt'.todo = rt.todo /\ rt'.part = 2
      BY <1>1, <1>2, <1>3, <2>1 DEF EchoTypes, Runtimes
    <3>2. Owed' = Owed
      BY <3>1 DEF Owed
    <3>3. \A r \in Readers : r # q => Due(r)' = Due(r)
      BY <1>1, <1>q, <3>1, <3>2 DEF Due, Target
    <3>4. Due(q)' = <<rt.frame, 2>>
      BY <1>3, <1>q, <3>1, <3>2 DEF Due, Target
    <3>5. Due(q)' \in Parts /\ Follows(Due(q), Due(q)')
      BY <1>3, <2>1, <3>4 DEF Parts, Follows
    <3> QED
      BY <1>2, <3>1, <3>2, <3>3, <3>5 DEF ThreadsLink
  <2>2. CASE rt.part # 1
    <3>1. rt' = [rt EXCEPT !.part = 1, !.todo = Tail(@)]
      BY <1>1, <2>2
    <3>2. /\ Due(q)' = <<rt.frame + 1, 1>>
          /\ rt' \in Runtimes /\ rt'.pc = "writing" /\ rt'.frame = echo.frames
          /\ Owed' = Owed \ {q} /\ QueueExact(rt'.todo, Owed')
          /\ \A r \in Readers : r # q => Due(r)' = Due(r)
      BY <1>1, <1>q, <3>1, TodoAdvances
    <3>3. Due(q)' \in Parts /\ Follows(Due(q), Due(q)')
      BY <1>3, <2>2, <3>2 DEF Parts, Follows
    <3> QED
      BY <1>3, <3>2, <3>3
  <2> QED
    BY <2>1, <2>2
\* The stream after the write.
<1> DEFINE s == streams[q]
           due == <<rt.frame, rt.part>>
           t == [s EXCEPT !.pipe = Append(@, due)]
<1>5. s \in StreamStates /\ StreamLink(q) /\ due \in Parts /\ (q \in Conn) = TRUE
  BY <1>3, EchoFacts DEF Parts
<1>6. StreamOk(s, TRUE, due)
  BY <1>3, <1>5 DEF StreamLink
<1>7. t \in StreamStates /\ StreamOk(t, TRUE, Due(q)')
  BY <1>3, <1>4, <1>5, <1>6, StreamPush
<1>8. /\ t.pc = s.pc /\ t.open = s.open /\ t.printed = s.printed
      /\ Len(t.pipe) <= PipeCapacity /\ s.open /\ s.pc # "away"
  <2>1. t.pc = s.pc /\ t.open = s.open /\ t.printed = s.printed /\ t.pipe = Append(s.pipe, due)
    BY <1>5 DEF StreamStates
  <2>2. s.pipe \in Seq(Parts) /\ PipeCapacity \in Nat
    BY <1>5, BoundAssumption DEF StreamStates
  <2>3. Len(t.pipe) = Len(s.pipe) + 1 /\ Len(s.pipe) \in Nat
    BY <1>5, <2>1, <2>2, AppendProperties, LenProperties
  <2> QED
    BY <1>1, <1>q, <1>5, <2>1, <2>2, <2>3 DEF StreamLink
<1>9. streams' = [streams EXCEPT ![q] = t]
  BY <1>1, <1>q
<1> HIDE DEF t, due
<1>10. streams'[q] = t /\ \A r \in Readers : r # q => streams'[r] = streams[r]
  BY <1>2, <1>3, <1>9 DEF EchoTypes
<1>11. EchoTypes'
  BY <1>1, <1>2, <1>4, <1>7, <1>9 DEF EchoTypes
<1>12. Conn' = Conn
  BY <1>1 DEF Conn
<1>13. acceptor \in Readers => streams'[acceptor].open = streams[acceptor].open
  BY <1>8, <1>10
<1>14. ThreadsLink'
  BY <1>1, <1>2, <1>3, <1>4, <1>12, <1>13 DEF ThreadsLink
<1>15. ASSUME NEW r \in Readers PROVE StreamLink(r)'
  <2>1. CASE r # q
    BY <1>1, <1>4, <1>10, <1>12, <2>1, StreamKept
  <2>2. CASE r = q
    <3>1. streams'[r] = t /\ (r \in Conn') = TRUE
      BY <1>5, <1>10, <1>12, <2>2
    <3>2. StreamOk(streams'[r], r \in Conn', Due(r)')
      BY <1>7, <2>2, <3>1 DEF Due
    <3> QED
      BY <1>1, <1>3, <1>8, <3>1, <3>2 DEF StreamLink
  <2> QED
    BY <2>1, <2>2
<1> QED
  BY <1>11, <1>14, <1>15 DEF EchoInv

\* A write that fails, or times out: the stream is dropped with what is in it.
LEMMA WriteFailsStays ==
    ASSUME EchoInv, WriteFails
    PROVE  EchoInv'
<1>1. /\ Writing /\ rt.todo # <<>>
      /\ streams' = [streams EXCEPT ![Target].open = FALSE]
      /\ connected' = RemoveFirst(connected, Target)
      /\ rt' = [rt EXCEPT !.part = 1, !.todo = Tail(@)]
      /\ echo' = echo /\ acceptor' = acceptor
      /\ input' = input /\ now' = now /\ count' = count
  BY DEF WriteFails
<1>q. PICK q : q = Target
  OBVIOUS
<1>2. EchoTypes /\ ThreadsLink
  BY DEF EchoInv
<1>3. /\ q \in Readers /\ q \in Conn /\ rt' \in Runtimes /\ rt'.pc = "writing"
      /\ rt'.frame = echo.frames /\ Owed' = Owed \ {q} /\ QueueExact(rt'.todo, Owed')
      /\ \A r \in Readers : r # q => Due(r)' = Due(r)
  BY <1>1, <1>q, TodoAdvances
<1>4. connected' \in Seq(Readers) /\ QueueExact(connected', Conn \ {q})
  <2>1. connected \in Seq(Readers) /\ QueueExact(connected, Conn)
    BY <1>2 DEF EchoTypes, ThreadsLink
  <2> QED
    BY <1>1, <1>q, <1>3, <2>1, QueueRemove
<1>5. Conn' = Conn \ {q}
  BY <1>4 DEF QueueExact, Conn
<1> DEFINE s == streams[q]
           t == [s EXCEPT !.open = FALSE]
<1>6. s \in StreamStates /\ StreamLink(q) /\ (q \in Conn) = TRUE
  BY <1>3, EchoFacts
<1>7. StreamOk(s, TRUE, Due(q))
  BY <1>6 DEF StreamLink
<1>8. t \in StreamStates /\ StreamOk(t, FALSE, Due(q)')
  BY <1>6, <1>7, StreamCut
<1>9. /\ t.pc = s.pc /\ t.open = FALSE /\ t.printed = s.printed /\ t.pipe = s.pipe
      /\ s.pc # "away"
  BY <1>6 DEF StreamStates, StreamLink
<1>10. streams' = [streams EXCEPT ![q] = t]
  BY <1>1, <1>q
<1> HIDE DEF t
<1>11. streams'[q] = t /\ \A r \in Readers : r # q => streams'[r] = streams[r]
  BY <1>2, <1>3, <1>10 DEF EchoTypes
<1>12. EchoTypes'
  BY <1>1, <1>2, <1>3, <1>4, <1>8, <1>10 DEF EchoTypes
<1>13. /\ echo # None /\ Owed \subseteq Conn
       /\ acceptor \in Readers => acceptor \notin Conn' /\ streams'[acceptor].open
  BY <1>1, <1>2, <1>3, <1>5, <1>11 DEF ThreadsLink, Writing
<1>14. ThreadsLink'
  BY <1>1, <1>2, <1>3, <1>4, <1>5, <1>13 DEF ThreadsLink
<1>15. ASSUME NEW r \in Readers PROVE StreamLink(r)'
  <2>1. CASE r # q
    BY <1>1, <1>3, <1>5, <1>11, <2>1, StreamKept
  <2>2. CASE r = q
    <3>1. streams'[r] = t /\ (r \in Conn') = FALSE
      BY <1>5, <1>11, <2>2
    <3>2. StreamOk(streams'[r], r \in Conn', Due(r)')
      BY <1>8, <2>2, <3>1 DEF Due
    <3> QED
      BY <1>1, <1>6, <1>9, <3>1, <3>2 DEF StreamLink
  <2> QED
    BY <2>1, <2>2
<1> QED
  BY <1>12, <1>14, <1>15 DEF EchoInv

\* The inputs are samples the program can read.
LEMMA InputFacts ==
    ASSUME EchoTypes, NEW s \in Inputs[input].samples, NEW step \in Inputs[input].steps
    PROVE  /\ s.writer \in Writers \cup {None} /\ s.seq \in Nat /\ s.age \in Int
           /\ step \in Nat /\ now + step \in Nat /\ count + 1 \in Nat
BY InputAssumption DEF EchoTypes

\* A message: when it is to be echoed, every connected stream is owed a frame.
LEMMA ObserveKeeps ==
    ASSUME EchoInv, NEW s \in Inputs[input].samples, NEW step \in Inputs[input].steps,
           Observe(s, step)
    PROVE  EchoInv'
<1>1. EchoTypes /\ ThreadsLink
  BY DEF EchoInv
<1>2. /\ s.writer \in Writers \cup {None} /\ s.seq \in Nat /\ count + 1 \in Nat
      /\ now + step \in Nat
  BY <1>1, InputFacts
<1>3. /\ Free /\ count' = count + 1 /\ now' = now + step /\ input' = input
      /\ acceptor' = acceptor /\ connected' = connected /\ streams' = streams
  BY DEF Observe
<1>4. CASE ~Concerns(echo, s)
  <2>1. UNCHANGED echoVars
    BY <1>4 DEF Observe, echoVars
  <2> QED
    BY <1>1, <1>2, <1>3, <2>1, EchoUntouched DEF EchoTypes
<1>5. CASE Concerns(echo, s)
  <2>1. /\ echo' = EchoObserve(s)
        /\ rt' = [pc |-> "writing", frame |-> echo'.frames, part |-> 1, todo |-> connected]
    BY <1>5 DEF Observe
  <2>2. echo # None /\ echo \in EchoSessions /\ echo.frames \in Nat
    BY <1>1, <1>5 DEF Concerns, EchoTypes, EchoSessions
  <2>3. echo' \in EchoSessions /\ echo'.frames = echo.frames + 1 /\ echo' # None
    <3>1. echo' \in EchoSessions /\ echo'.frames = echo.frames + 1
      <4> DEFINE sq == IF s.writer = None THEN echo.seqs ELSE [echo.seqs EXCEPT ![s.writer] = s.seq]
      <4>1. sq \in [Writers -> Nat \cup {None}]
        <5>1. echo.seqs \in [Writers -> Nat \cup {None}]
          BY <2>2 DEF EchoSessions
        <5> QED
          BY <1>2, <5>1
      <4>2. echo' = [echo EXCEPT !.frames = @ + 1, !.seqs = sq]
        BY <2>1 DEF EchoObserve
      <4> HIDE DEF sq
      <4>3. echo' = [topic |-> echo.topic, seqs |-> sq, frames |-> echo.frames + 1]
        BY <2>2, <4>2 DEF EchoSessions
      <4>4. echo.topic \in Topics /\ echo.frames + 1 \in Nat
        BY <2>2 DEF EchoSessions
      <4> QED
        BY <4>1, <4>3, <4>4 DEF EchoSessions
    <3> QED
      BY <3>1, EchoFacts
  <2>4. /\ rt' \in Runtimes /\ rt'.pc = "writing" /\ rt'.frame = echo.frames + 1
        /\ rt'.part = 1 /\ rt'.todo = connected
    BY <1>1, <2>1, <2>2, <2>3 DEF Runtimes, EchoTypes
  <2>5. EchoTypes'
    BY <1>1, <1>2, <1>3, <2>3, <2>4 DEF EchoTypes
  <2>6. Conn' = Conn /\ Owed' = Conn /\ Owed = {}
    <3>1. rt.todo = <<>>
      BY <1>1, <1>3 DEF ThreadsLink, Free
    <3> QED
      BY <1>3, <2>4, <3>1, EchoFacts DEF Conn, Owed
  <2>7. ThreadsLink'
    BY <1>1, <1>3, <2>2, <2>3, <2>4, <2>6 DEF ThreadsLink
  <2>8. ASSUME NEW r \in Readers, r \in Conn PROVE Due(r)' = Due(r)
    BY <2>2, <2>3, <2>4, <2>6, <2>8 DEF Due
  <2>9. \A r \in Readers : StreamLink(r)'
    BY <1>3, <2>3, <2>6, <2>8, StreamKept
  <2> QED
    BY <2>5, <2>7, <2>9 DEF EchoInv
<1> QED
  BY <1>4, <1>5

LEMMA EchoInvInit ==
    ASSUME Init
    PROVE  EchoInv
<1>1. /\ input \in DOMAIN Inputs /\ count \in Nat /\ now \in Nat /\ echo = None
      /\ rt = FreeRuntime /\ acceptor = "none" /\ connected = <<>>
      /\ streams = [r \in Readers |->
           [pc |-> "away", pipe |-> <<>>, open |-> FALSE, header |-> None, printed |-> <<>>]]
  BY DEF Init
<1>2. rt \in Runtimes /\ rt.pc = "free" /\ rt.todo = <<>>
  BY <1>1, EmptySeq DEF FreeRuntime, Runtimes
<1>3. Conn = {} /\ Owed = {}
  <2>1. DOMAIN <<>> = {}
    OBVIOUS
  <2> QED
    BY <1>1, <1>2, <2>1 DEF Conn, Owed, ToSet
<1>4. ASSUME NEW r \in Readers PROVE streams[r] \in StreamStates /\ StreamLink(r)
  <2>1. /\ streams[r] \in StreamStates
        /\ streams[r].pc = "away" /\ streams[r].pipe = <<>> /\ streams[r].open = FALSE
        /\ streams[r].printed = <<>>
    <3>1. <<>> \in Seq(Parts) /\ <<>> \in Seq((Nat \cup {None}) \X Parts)
      OBVIOUS
    <3> QED
      BY <1>1, <3>1 DEF StreamStates
  <2>2. Due(r) \in Parts
    BY <1>1, <1>3 DEF Due, Parts
  <2>3. (r \in Conn) = FALSE
    BY <1>3
  <2>4. StreamOk(streams[r], r \in Conn, Due(r))
    BY <2>1, <2>2, <2>3, StreamFresh
  <2>5. Len(<<>>) <= PipeCapacity
    BY BoundAssumption, EmptySeq
  <2> QED
    BY <2>1, <2>3, <2>4, <2>5 DEF StreamLink
<1>5. EchoTypes
  BY <1>1, <1>2, <1>4, EmptySeq DEF EchoTypes
<1>6. ThreadsLink
  <2>1. "none" \notin Readers
    BY NamesAssumption
  <2> QED
    BY <1>1, <1>2, <1>3, <2>1, QueueEmpty DEF ThreadsLink
<1> QED
  BY <1>4, <1>5, <1>6 DEF EchoInv

LEMMA EchoInvNext ==
    ASSUME EchoInv, Next
    PROVE  EchoInv'
<1>1. /\ input \in DOMAIN Inputs /\ count \in Nat /\ now \in Nat
  BY DEF EchoInv, EchoTypes
<1>2. CASE \E t \in Topics : StartBw(t) \/ StartHz(t) \/ StartDelay(t)
  BY <1>1, <1>2, EchoUntouched DEF StartBw, StartHz, StartDelay
<1>3. CASE StopBw \/ StopHz \/ StopDelay
  BY <1>1, <1>3, EchoUntouched DEF StopBw, StopHz, StopDelay
<1>4. CASE \E t \in Topics : StartEcho(t)
  BY <1>4, StartEchoKeeps
<1>5. CASE StopEcho
  BY <1>5, StopEchoKeeps
<1>6. CASE \E s \in Inputs[input].samples, step \in Inputs[input].steps : Observe(s, step)
  BY <1>6, ObserveKeeps
<1>7. CASE Runtime
  BY <1>7, JoinedKeeps, WritePartKeeps, WriteFailsStays, WriteDoneKeeps DEF Runtime
<1>8. CASE Acceptor \/ \E r \in Readers : AcceptStream(r)
  BY <1>8, PushStreamKeeps, AcceptorKeeps DEF Acceptor
<1>9. CASE \E r \in Readers : Connect(r)
  BY <1>9, ConnectKeeps
<1>10. CASE \E r \in Readers : \/ ReadHeader(r) \/ ReadPayload(r)
                               \/ ReadTimeout(r) \/ ReaderEnds(r)
  BY <1>10, ReadsKeep
<1> QED
  BY <1>2, <1>3, <1>4, <1>5, <1>6, <1>7, <1>8, <1>9, <1>10 DEF Next

LEMMA EchoInvStutter ==
    ASSUME EchoInv, UNCHANGED vars
    PROVE  EchoInv'
BY EchoUntouched DEF vars, EchoInv, EchoTypes

LEMMA EchoInvariant == Spec => []EchoInv
<1>1. Init => EchoInv
  BY EchoInvInit
<1>2. EchoInv /\ [Next]_vars => EchoInv'
  BY EchoInvNext, EchoInvStutter
<1> QED
  BY <1>1, <1>2, PTL DEF Spec

\* Every message a reader prints is one whole frame, and the frames it prints
\* are consecutive, for any number of readers, any capacity of their sockets
\* and any order in which writes and reads time out.
THEOREM FramesStayWhole == Spec => []FramesWhole
<1>1. EchoInv => FramesWhole
  <2> SUFFICES ASSUME EchoInv, NEW r \in Readers PROVE PrintedWhole(streams[r].printed)
                 /\ streams[r].printed \in Seq((Nat \cup {None}) \X Parts)
    BY DEF FramesWhole, PrintedWhole
  <2>1. streams[r] \in StreamStates /\ StreamLink(r)
    BY EchoFacts
  <2> QED
    BY <2>1 DEF StreamLink, StreamOk, StreamStates
<1> QED
  BY <1>1, EchoInvariant, PTL

----------------------------------------------------------------------------
(* Windows, sums and selections of sequences.                              *)

\* The last n elements of a sequence, by their places.
LEMMA LastNForm ==
    ASSUME NEW S, NEW s \in Seq(S), NEW n \in Nat
    PROVE  LET t == LastN(s, n)
               k == IF Len(s) > n THEN Len(s) - n ELSE 0
           IN  /\ t \in Seq(S) /\ k \in Nat /\ k <= Len(s) /\ Len(t) = Len(s) - k /\ Len(t) <= n
               /\ DOMAIN t = 1 .. Len(t) /\ Len(s) \in Nat
               /\ \A i \in 1 .. Len(t) : t[i] = s[k + i] /\ k + i \in 1 .. Len(s)
<1> DEFINE k == IF Len(s) > n THEN Len(s) - n ELSE 0
           t == SubSeq(s, k + 1, Len(s))
<1>1. Len(s) \in Nat /\ k \in Nat /\ k <= Len(s) /\ Len(s) - k <= n
  BY LenProperties
<1>2. LastN(s, n) = t
  <2>1. k + 1 = IF Len(s) > n THEN Len(s) - n + 1 ELSE 1
    BY <1>1
  <2> HIDE DEF k
  <2> QED
    BY <2>1 DEF LastN
<1> HIDE DEF k
<1>3. \A i \in k + 1 .. Len(s) : s[i] \in S
  <2> TAKE i \in k + 1 .. Len(s)
  <2>1. i \in 1 .. Len(s)
    BY <1>1
  <2> QED
    BY <2>1, ElementOfSeq
<1>4. k + 1 \in Int /\ Len(s) \in Int
  BY <1>1
<1>5. /\ t \in Seq(S) /\ Len(t) = IF k + 1 <= Len(s) THEN Len(s) - (k + 1) + 1 ELSE 0
      /\ \A i \in 1 .. Len(s) - (k + 1) + 1 : t[i] = s[k + 1 + i - 1]
  BY <1>3, <1>4, SubSeqProperties
<1> HIDE DEF t
<1>6. Len(t) = Len(s) - k /\ Len(s) - (k + 1) + 1 = Len(s) - k
  BY <1>1, <1>5
<1>7. ASSUME NEW i \in 1 .. Len(t) PROVE t[i] = s[k + i] /\ k + i \in 1 .. Len(s)
  <2>1. k + 1 + i - 1 = k + i /\ i \in 1 .. Len(s) - (k + 1) + 1 /\ k + i \in 1 .. Len(s)
    BY <1>1, <1>6
  <2> QED
    BY <1>5, <2>1
<1>8. DOMAIN t = 1 .. Len(t)
  BY <1>5, LenProperties
<1> QED
  BY <1>1, <1>2, <1>5, <1>6, <1>7, <1>8 DEF k

\* Where a window starts that has slid by one.
LEMMA WindowStarts ==
    ASSUME NEW l \in Nat, NEW n \in Nat \ {0}, NEW k, NEW ka, NEW kb,
           k = IF l > n THEN l - n ELSE 0,
           ka = IF (l - k) + 1 > n THEN ((l - k) + 1) - n ELSE 0,
           kb = IF l + 1 > n THEN (l + 1) - n ELSE 0
    PROVE  k + ka = kb
<1>1. CASE l > n
  BY <1>1
<1>2. CASE ~(l > n)
  BY <1>2
<1> QED
  BY <1>1, <1>2

\* A window that slides over a sequence holds the sequence's last elements.
LEMMA LastNAppend ==
    ASSUME NEW S, NEW s \in Seq(S), NEW x \in S, NEW n \in Nat \ {0}
    PROVE  LastN(Append(LastN(s, n), x), n) = LastN(Append(s, x), n)
<1> DEFINE q == LastN(s, n)
           k == IF Len(s) > n THEN Len(s) - n ELSE 0
           a == Append(q, x)
           b == Append(s, x)
           ka == IF Len(a) > n THEN Len(a) - n ELSE 0
           kb == IF Len(b) > n THEN Len(b) - n ELSE 0
<1>0. n \in Nat
  OBVIOUS
<1>1. /\ q \in Seq(S) /\ k \in Nat /\ Len(q) = Len(s) - k /\ Len(s) \in Nat
      /\ \A i \in 1 .. Len(q) : q[i] = s[k + i] /\ k + i \in 1 .. Len(s)
  BY <1>0, LastNForm
<1>k. k = IF Len(s) > n THEN Len(s) - n ELSE 0
  OBVIOUS
<1> HIDE DEF q, k
<1>2. a \in Seq(S) /\ Len(a) = Len(q) + 1 /\ a[Len(q) + 1] = x
      /\ \A i \in 1 .. Len(q) : a[i] = q[i]
  BY <1>1, AppendProperties
<1>3. b \in Seq(S) /\ Len(b) = Len(s) + 1 /\ b[Len(s) + 1] = x
      /\ \A i \in 1 .. Len(s) : b[i] = s[i]
  BY <1>1, AppendProperties
<1>4. /\ LastN(a, n) \in Seq(S) /\ Len(LastN(a, n)) = Len(a) - ka /\ ka \in Nat
      /\ \A i \in 1 .. Len(LastN(a, n)) : LastN(a, n)[i] = a[ka + i]
  BY <1>0, <1>2, LastNForm
<1>5. /\ LastN(b, n) \in Seq(S) /\ Len(LastN(b, n)) = Len(b) - kb /\ kb \in Nat
      /\ \A i \in 1 .. Len(LastN(b, n)) : LastN(b, n)[i] = b[kb + i]
  BY <1>0, <1>3, LastNForm
<1>ka. ka = IF Len(a) > n THEN Len(a) - n ELSE 0
  OBVIOUS
<1>kb. kb = IF Len(b) > n THEN Len(b) - n ELSE 0
  OBVIOUS
<1> HIDE DEF a, b, ka, kb
<1>6. k + ka = kb
  <2>1. ka = IF (Len(s) - k) + 1 > n THEN ((Len(s) - k) + 1) - n ELSE 0
    BY <1>1, <1>2, <1>ka
  <2>2. kb = IF Len(s) + 1 > n THEN (Len(s) + 1) - n ELSE 0
    BY <1>3, <1>kb
  <2>3. Len(s) \in Nat
    BY <1>1
  <2> DEFINE l == Len(s)
  <2>4. /\ k = IF l > n THEN l - n ELSE 0
        /\ ka = IF (l - k) + 1 > n THEN ((l - k) + 1) - n ELSE 0
        /\ kb = IF l + 1 > n THEN (l + 1) - n ELSE 0
        /\ l \in Nat
    BY <1>k, <2>1, <2>2, <2>3
  <2> HIDE DEF l
  <2> QED
    BY <2>4, WindowStarts
<1>l. Len(q) \in Nat
  BY <1>1, LenProperties
<1>7. Len(LastN(a, n)) = Len(LastN(b, n))
  <2>1. Len(a) - ka = Len(b) - kb
    <3>1. Len(q) = Len(s) - k /\ k \in Nat /\ Len(s) \in Nat
      BY <1>1
    <3>2. Len(a) = Len(q) + 1 /\ Len(b) = Len(s) + 1
      BY <1>2, <1>3
    <3>3. ka \in Nat /\ kb \in Nat
      BY <1>4, <1>5
    <3> QED
      BY <1>6, <3>1, <3>2, <3>3
  <2> QED
    BY <1>4, <1>5, <2>1
<1>8. ASSUME NEW i \in 1 .. Len(LastN(a, n)) PROVE LastN(a, n)[i] = LastN(b, n)[i]
  <2>1. LastN(a, n)[i] = a[ka + i] /\ LastN(b, n)[i] = b[kb + i] /\ kb + i = k + (ka + i)
        /\ ka + i \in 1 .. Len(q) + 1
    BY <1>1, <1>2, <1>4, <1>5, <1>6, <1>7
  <2> DEFINE j == ka + i
  <2>2. j \in 1 .. Len(q) + 1 /\ kb + i = k + j
    BY <2>1
  <2> HIDE DEF j
  <2>3. CASE j = Len(q) + 1
    <3>1. k + j = Len(s) + 1
      BY <1>1, <2>3
    <3> QED
      BY <1>2, <1>3, <2>1, <2>2, <2>3, <3>1 DEF j
  <2>4. CASE j # Len(q) + 1
    <3>1. j \in 1 .. Len(q)
      BY <1>l, <2>2, <2>4
    <3>2. a[j] = s[k + j] /\ b[k + j] = s[k + j]
      BY <1>1, <1>2, <1>3, <3>1
    <3> QED
      BY <2>1, <2>2, <3>2 DEF j
  <2> QED
    BY <2>3, <2>4
<1>9. LastN(a, n) = LastN(b, n)
  BY <1>4, <1>5, <1>7, <1>8, SeqEqual
<1> QED
  BY <1>9 DEF a, b, q

\* A sequence without elements has no last ones.
LEMMA LastNEmpty ==
    ASSUME NEW n \in Nat
    PROVE  LastN(<<>>, n) = <<>>
<1>1. Len(<<>>) = 0 /\ ~(0 > n) /\ SubSeq(<<>>, 1, 0) = <<>>
  BY EmptySeq, SubSeqEmpty
<1> QED
  BY <1>1 DEF LastN

\* What Sum adds up.
LEMMA SumForm ==
    ASSUME NEW s \in Seq(Int)
    PROVE  \E u \in [0 .. Len(s) -> Int] :
             /\ u[0] = 0 /\ \A n \in 1 .. Len(s) : u[n] = u[n - 1] + s[n]
             /\ Sum(s) = u[Len(s)]
<1> DEFINE N == Len(s)
           u == CHOOSE g : g = [n \in 0 .. N |-> IF n = 0 THEN 0 ELSE g[n - 1] + s[n]]
<1>1. N \in Nat /\ \A n \in 1 .. N : s[n] \in Int
  BY LenProperties, ElementOfSeq
<1>2. u \in [0 .. N -> Int] /\ u[0] = 0 /\ \A n \in 1 .. N : u[n] = u[n - 1] + s[n]
  <2> HIDE DEF N
  <2> QED
    BY <1>1, RunningSum
<1>3. Sum(s) = u[N]
  BY DEF Sum
<1> HIDE DEF u
<1> QED
  BY <1>2, <1>3

\* The sum of the differences between neighbours is that of the outermost.
LEMMA SumTelescopes ==
    ASSUME NEW N \in Nat, NEW f, \A i \in 1 .. N + 1 : f[i] \in Int,
           NEW g \in Seq(Int), Len(g) = N, \A i \in 1 .. N : g[i] = f[i + 1] - f[i]
    PROVE  Sum(g) = f[N + 1] - f[1]
<1>1. PICK u \in [0 .. N -> Int] :
        /\ u[0] = 0 /\ \A n \in 1 .. N : u[n] = u[n - 1] + g[n]
        /\ Sum(g) = u[N]
  BY SumForm
<1> DEFINE T == {n \in 0 .. N : u[n] = f[n + 1] - f[1]}
<1>2. 0 \in T
  <2>1. f[1] \in Int
    OBVIOUS
  <2> QED
    BY <1>1, <2>1
<1>3. ASSUME NEW n \in 0 .. N, n < N, n \in T PROVE n + 1 \in T
  <2>1. n + 1 \in 1 .. N /\ n + 1 \in 0 .. N /\ (n + 1) - 1 = n
        /\ n + 1 \in 1 .. N + 1 /\ (n + 1) + 1 \in 1 .. N + 1 /\ 1 \in 1 .. N + 1
    BY <1>3
  <2>2. u[n + 1] = u[n] + g[n + 1] /\ g[n + 1] = f[(n + 1) + 1] - f[n + 1]
    BY <1>1, <2>1
  <2>3. u[n] = f[n + 1] - f[1] /\ f[1] \in Int /\ f[n + 1] \in Int /\ f[(n + 1) + 1] \in Int
    BY <1>3, <2>1
  <2>4. u[n + 1] = f[(n + 1) + 1] - f[1]
    <3> DEFINE x == f[1]
               y == f[n + 1]
               z == f[(n + 1) + 1]
    <3>1. u[n + 1] = u[n] + (z - y) /\ u[n] = y - x /\ x \in Int /\ y \in Int /\ z \in Int
      BY <2>2, <2>3
    <3> HIDE DEF x, y, z
    <3>2. u[n + 1] = z - x
      BY <3>1
    <3> QED
      BY <3>2 DEF x, z
  <2> QED
    BY <2>1, <2>4
<1> HIDE DEF T
<1>4. 0 .. N \subseteq T
  BY <1>2, <1>3, BoundedInduction
<1>5. N \in T
  BY <1>4
<1> QED
  BY <1>1, <1>5 DEF T

\* A sum of natural numbers is one, and zero only if all of them are.
LEMMA SumOfNaturals ==
    ASSUME NEW g \in Seq(Nat)
    PROVE  Sum(g) \in Nat /\ (~(Sum(g) > 0) => \A i \in 1 .. Len(g) : g[i] = 0)
<1> DEFINE N == Len(g)
<1>1. N \in Nat /\ \A i \in 1 .. N : g[i] \in Nat
  BY LenProperties, ElementOfSeq
<1>2. g \in Seq(Int)
  <2>1. Nat \subseteq Int
    OBVIOUS
  <2> QED
    BY <2>1, SeqMonotonic
<1>3. PICK u \in [0 .. N -> Int] :
        /\ u[0] = 0 /\ \A n \in 1 .. N : u[n] = u[n - 1] + g[n]
        /\ Sum(g) = u[N]
  BY <1>2, SumForm
<1> HIDE DEF N
<1> DEFINE T == {n \in 0 .. N : u[n] \in Nat /\ \A i \in 1 .. n : g[i] <= u[n]}
<1>4. 0 \in T
  BY <1>1, <1>3
<1>5. ASSUME NEW n \in 0 .. N, n < N, n \in T PROVE n + 1 \in T
  <2>1. n + 1 \in 1 .. N /\ n + 1 \in 0 .. N /\ (n + 1) - 1 = n
    BY <1>1, <1>5
  <2>2. u[n + 1] = u[n] + g[n + 1] /\ u[n] \in Nat /\ g[n + 1] \in Nat
        /\ \A i \in 1 .. n : g[i] <= u[n]
    BY <1>1, <1>3, <1>5, <2>1
  <2>3. ASSUME NEW i \in 1 .. n + 1 PROVE g[i] <= u[n + 1]
    <3>1. CASE i = n + 1
      BY <2>2, <3>1
    <3>2. CASE i # n + 1
      <4>1. i \in 1 .. n /\ g[i] \in Nat
        BY <1>1, <2>1, <3>2
      <4> QED
        BY <2>2, <4>1
    <3> QED
      BY <3>1, <3>2
  <2> QED
    BY <2>1, <2>2, <2>3
<1> HIDE DEF T
<1>6. 0 .. N \subseteq T
  BY <1>1, <1>4, <1>5, BoundedInduction
<1>7. N \in T
  BY <1>1, <1>6
<1>8. u[N] \in Nat /\ \A i \in 1 .. N : g[i] <= u[N]
  BY <1>7 DEF T
<1>9. ASSUME ~(Sum(g) > 0), NEW i \in 1 .. N PROVE g[i] = 0
  <2>1. g[i] \in Nat /\ g[i] <= u[N] /\ u[N] \in Nat /\ ~(u[N] > 0)
    BY <1>1, <1>3, <1>8, <1>9
  <2> QED
    BY <2>1
<1> QED
  BY <1>3, <1>8, <1>9 DEF N

\* How a selection comes about.
SelectSteps(s, P, u) ==
    /\ u[0] = <<>>
    /\ \A n \in 1 .. Len(s) : u[n] = IF n \in P THEN Append(u[n - 1], s[n]) ELSE u[n - 1]
    /\ Select(s, P) = u[Len(s)]

LEMMA SelectForm ==
    ASSUME NEW S, NEW s \in Seq(S), NEW P
    PROVE  \E u \in [0 .. Len(s) -> Seq(S)] : SelectSteps(s, P, u)
<1> DEFINE N == Len(s)
           Is(g) == g = [n \in 0 .. N |->
                           IF n = 0 THEN <<>>
                           ELSE IF n \in P THEN Append(g[n - 1], s[n]) ELSE g[n - 1]]
           Q == Seq(S)
           H == [x \in (1 .. N) \X Q |-> IF x[1] \in P THEN Append(x[2], s[x[1]]) ELSE x[2]]
<1>1. N \in Nat /\ \A n \in 1 .. N : s[n] \in S
  BY LenProperties, ElementOfSeq
<1>2. \A q \in Q, n \in 1 .. N : Append(q, s[n]) \in Q
  BY <1>1, AppendProperties
<1>3. <<>> \in Q
  BY EmptySeq
<1> HIDE DEF N, Q
<1>4. H \in [(1 .. N) \X Q -> Q]
      /\ \A n \in 1 .. N, q \in Q : H[<<n, q>>] = IF n \in P THEN Append(q, s[n]) ELSE q
  BY <1>2
<1> HIDE DEF H
<1>5. PICK f \in [0 .. N -> Q] : f[0] = <<>> /\ \A n \in 1 .. N : f[n] = H[<<n, f[n - 1]>>]
  <2>1. H \in BoundedTurns(Q, N)
    BY <1>4 DEF BoundedTurns
  <2>2. BoundedIterations(Q, <<>>, N, H) # {}
    BY <1>1, <1>3, <2>1, BoundedRecursion
  <2> QED
    BY <2>2 DEF BoundedIterations
<1>6. ASSUME NEW n \in 1 .. N
      PROVE  f[n] = IF n \in P THEN Append(f[n - 1], s[n]) ELSE f[n - 1]
  <2>1. n - 1 \in 0 .. N
    BY <1>1
  <2> QED
    BY <1>4, <1>5, <2>1
<1>7. Is(f)
  <2>1. ASSUME NEW n \in 0 .. N
        PROVE  f[n] = IF n = 0 THEN <<>>
                      ELSE IF n \in P THEN Append(f[n - 1], s[n]) ELSE f[n - 1]
    <3>1. n # 0 => n \in 1 .. N
      BY <1>1
    <3> QED
      BY <1>5, <1>6, <3>1
  <2> QED
    BY <1>5, <2>1
<1> DEFINE u == CHOOSE g : Is(g)
<1>8. Is(u)
  BY <1>7
<1>9. Select(s, P) = u[N]
  BY DEF Select, N
<1> HIDE DEF u
<1>10. /\ u[0] = <<>>
       /\ \A n \in 1 .. N : u[n] = IF n \in P THEN Append(u[n - 1], s[n]) ELSE u[n - 1]
  <2>1. u[0] = <<>>
    BY <1>1, <1>8
  <2>2. ASSUME NEW n \in 1 .. N
        PROVE  u[n] = IF n \in P THEN Append(u[n - 1], s[n]) ELSE u[n - 1]
    <3>1. n \in 0 .. N /\ n # 0
      BY <1>1
    <3> QED
      BY <1>8, <3>1
  <2> QED
    BY <2>1, <2>2
<1>11. 0 .. N \subseteq {n \in 0 .. N : u[n] \in Q}
  <2> DEFINE T == {n \in 0 .. N : u[n] \in Q}
  <2>1. 0 \in T
    BY <1>1, <1>3, <1>10
  <2>2. ASSUME NEW n \in 0 .. N, n < N, n \in T PROVE n + 1 \in T
    <3>1. n + 1 \in 1 .. N /\ n + 1 \in 0 .. N /\ (n + 1) - 1 = n
      BY <1>1, <2>2
    <3>2. u[n + 1] = IF n + 1 \in P THEN Append(u[n], s[n + 1]) ELSE u[n]
      BY <1>10, <3>1
    <3> QED
      BY <1>2, <2>2, <3>1, <3>2
  <2> HIDE DEF T
  <2>3. 0 .. N \subseteq T
    BY <1>1, <2>1, <2>2, BoundedInduction
  <2> QED
    BY <2>3 DEF T
<1>12. u \in [0 .. N -> Q]
  BY <1>8, <1>11
<1> QED
  BY <1>9, <1>10, <1>12 DEF N, Q, SelectSteps

\* A selection grows with the sequence: by the new element, if it is wanted.
LEMMA SelectAppend ==
    ASSUME NEW S, NEW s \in Seq(S), NEW x \in S, NEW P, NEW R,
           \A i \in 1 .. Len(s) : i \in R <=> i \in P
    PROVE  /\ Select(s, P) \in Seq(S)
           /\ Select(Append(s, x), R) =
                IF Len(s) + 1 \in R THEN Append(Select(s, P), x) ELSE Select(s, P)
<1> DEFINE N == Len(s)
           t == Append(s, x)
<1>1. /\ N \in Nat /\ t \in Seq(S) /\ Len(t) = N + 1 /\ t[N + 1] = x
      /\ \A n \in 1 .. N : t[n] = s[n]
  BY LenProperties, AppendProperties
<1> HIDE DEF t
<1>2. PICK u \in [0 .. N -> Seq(S)] : SelectSteps(s, P, u)
  BY SelectForm
<1>3. PICK v \in [0 .. N + 1 -> Seq(S)] : SelectSteps(t, R, v)
  BY <1>1, SelectForm
<1>4. /\ u[0] = <<>> /\ Select(s, P) = u[N]
      /\ \A n \in 1 .. N : u[n] = IF n \in P THEN Append(u[n - 1], s[n]) ELSE u[n - 1]
  BY <1>2 DEF SelectSteps
<1>5. /\ v[0] = <<>> /\ Select(t, R) = v[N + 1]
      /\ \A n \in 1 .. N + 1 : v[n] = IF n \in R THEN Append(v[n - 1], t[n]) ELSE v[n - 1]
  BY <1>1, <1>3 DEF SelectSteps
<1>p. \A i \in 1 .. N : i \in R <=> i \in P
  OBVIOUS
<1> HIDE DEF N
<1> DEFINE T == {n \in 0 .. N : u[n] = v[n]}
<1>6. 0 \in T
  BY <1>1, <1>4, <1>5
<1>7. ASSUME NEW n \in 0 .. N, n < N, n \in T PROVE n + 1 \in T
  <2>1. n + 1 \in 1 .. N /\ n + 1 \in 1 .. N + 1 /\ n + 1 \in 0 .. N /\ (n + 1) - 1 = n
    BY <1>1, <1>7
  <2>2. u[n + 1] = IF n + 1 \in P THEN Append(u[n], s[n + 1]) ELSE u[n]
    BY <1>4, <2>1
  <2>3. v[n + 1] = IF n + 1 \in R THEN Append(v[n], t[n + 1]) ELSE v[n]
    BY <1>5, <2>1
  <2>4. t[n + 1] = s[n + 1] /\ (n + 1 \in R <=> n + 1 \in P) /\ u[n] = v[n]
    BY <1>1, <1>7, <1>p, <2>1
  <2> QED
    BY <2>1, <2>2, <2>3, <2>4
<1> HIDE DEF T
<1>8. 0 .. N \subseteq T
  BY <1>1, <1>6, <1>7, BoundedInduction
<1>9. u[N] = v[N]
  <2>1. N \in T
    BY <1>1, <1>8
  <2> QED
    BY <2>1 DEF T
<1>10. v[N + 1] = IF N + 1 \in R THEN Append(v[N], x) ELSE v[N]
  <2>1. N + 1 \in 1 .. N + 1 /\ (N + 1) - 1 = N
    BY <1>1
  <2> QED
    BY <1>1, <1>5, <2>1
<1>11. u[N] \in Seq(S)
  BY <1>1, <1>2
<1> QED
  BY <1>4, <1>5, <1>9, <1>10, <1>11 DEF N, t

\* Nothing is selected from no places.
LEMMA SelectNone ==
    ASSUME NEW S, NEW s \in Seq(S)
    PROVE  Select(s, {}) = <<>>
<1> DEFINE N == Len(s)
<1>1. N \in Nat
  BY LenProperties
<1>2. PICK u \in [0 .. N -> Seq(S)] : SelectSteps(s, {}, u)
  BY SelectForm
<1>3. u[0] = <<>> /\ Select(s, {}) = u[N] /\ \A n \in 1 .. N : u[n] = u[n - 1]
  BY <1>2 DEF SelectSteps
<1> HIDE DEF N
<1> DEFINE T == {n \in 0 .. N : u[n] = <<>>}
<1>4. 0 \in T
  BY <1>1, <1>3
<1>5. ASSUME NEW n \in 0 .. N, n < N, n \in T PROVE n + 1 \in T
  <2>1. n + 1 \in 1 .. N /\ n + 1 \in 0 .. N /\ (n + 1) - 1 = n
    BY <1>1, <1>5
  <2> QED
    BY <1>3, <1>5, <2>1
<1> HIDE DEF T
<1>6. 0 .. N \subseteq T
  BY <1>1, <1>4, <1>5, BoundedInduction
<1>7. N \in T
  BY <1>1, <1>6
<1> QED
  BY <1>3, <1>7 DEF T

----------------------------------------------------------------------------
(* The sessions of bw, hz and delay.                                       *)

SampleTopics == {s.topic : s \in UNION {Inputs[x].samples : x \in DOMAIN Inputs}}
Samples == [topic : SampleTopics, writer : Writers \cup {None}, seq : Nat, len : Nat,
            header : {"none", "zero", "stamp"}, age : Int, at : Nat]
Measures == [at : Nat, len : Nat]

\* What bw and delay keep of a sequence of samples.
Measured(s) == [i \in 1 .. Len(s) |-> [at |-> s[i].at, len |-> s[i].len]]
Ages(s) == [i \in 1 .. Len(s) |-> Distance(s[i].age)]

SeenTypes == seen \in [bw : Seq(Samples), hz : Seq(Samples), delay : Seq(Samples)]

BwInv == bw # None =>
    /\ bw \in [topic : Topics, samples : Seq(Measures)]
    /\ bw.samples = LastN(Measured(seen.bw), Window)

HzInv == hz # None =>
    /\ hz \in [topic : Topics, last : Nat \cup {None}, periods : Seq(Nat)]
    /\ hz.periods = LastN(Gaps(seen.hz), Window)
    /\ hz.last = IF seen.hz = <<>> THEN None ELSE seen.hz[Len(seen.hz)].at
    /\ \A i \in 1 .. Len(seen.hz) : seen.hz[i].at <= now
    /\ \A i \in 1 .. Len(seen.hz) - 1 : seen.hz[i].at <= seen.hz[i + 1].at

DelayInv == delay # None =>
    /\ delay \in [topic : Topics, delays : Seq(Nat), missing : BOOLEAN, mismatch : BOOLEAN]
    /\ delay.delays = LastN(Ages(SinceMismatch(seen.delay)), Window)
    /\ delay.mismatch => delay.delays = <<>>
    /\ delay.missing <=> \E i \in 1 .. Len(seen.delay) : seen.delay[i].header = "none"

\* A message when it is received.
LEMMA Stamped ==
    ASSUME EchoTypes, NEW s \in Inputs[input].samples, NEW t \in Nat
    PROVE  LET x == [s EXCEPT !.at = t]
           IN  /\ x \in Samples /\ x.at = t /\ x.len = s.len
               /\ x.age = s.age /\ x.header = s.header
               /\ s.len \in Nat /\ s.age \in Int /\ s.header \in {"none", "zero", "stamp"}
<1>1. input \in DOMAIN Inputs
  BY DEF EchoTypes
<1>2. s \in [topic : {s.topic}, writer : Writers \cup {None}, seq : Nat, len : Nat,
             header : {"none", "zero", "stamp"}, age : Int, at : Nat]
  BY <1>1, InputAssumption
<1>3. s.topic \in SampleTopics
  BY <1>1 DEF SampleTopics
<1> DEFINE x == [s EXCEPT !.at = t]
<1>4. x = [topic |-> s.topic, writer |-> s.writer, seq |-> s.seq, len |-> s.len,
           header |-> s.header, age |-> s.age, at |-> t]
  BY <1>2
<1> HIDE DEF x
<1>5. /\ s.writer \in Writers \cup {None} /\ s.seq \in Nat /\ s.len \in Nat
      /\ s.header \in {"none", "zero", "stamp"} /\ s.age \in Int
  BY <1>2
<1>6. x \in Samples
  BY <1>3, <1>4, <1>5 DEF Samples
<1> QED
  BY <1>4, <1>5, <1>6 DEF x

LEMMA MeasuredForm ==
    ASSUME NEW s \in Seq(Samples)
    PROVE  /\ Measured(s) \in Seq(Measures) /\ Len(Measured(s)) = Len(s)
           /\ \A i \in 1 .. Len(s) : Measured(s)[i] = [at |-> s[i].at, len |-> s[i].len]
<1>1. ASSUME NEW z \in Samples PROVE [at |-> z.at, len |-> z.len] \in Measures
  BY DEF Samples, Measures
<1>2. Len(s) \in Nat /\ \A i \in 1 .. Len(s) : [at |-> s[i].at, len |-> s[i].len] \in Measures
  BY <1>1, LenProperties, ElementOfSeq
<1> QED
  BY <1>2 DEF Measured

LEMMA AgesForm ==
    ASSUME NEW s \in Seq(Samples)
    PROVE  /\ Ages(s) \in Seq(Nat) /\ Len(Ages(s)) = Len(s)
           /\ \A i \in 1 .. Len(s) : Ages(s)[i] = Distance(s[i].age)
<1>1. ASSUME NEW z \in Samples PROVE Distance(z.age) \in Nat
  <2>1. z.age \in Int
    BY DEF Samples
  <2> QED
    BY <2>1 DEF Distance
<1>2. Len(s) \in Nat /\ \A i \in 1 .. Len(s) : Distance(s[i].age) \in Nat
  BY <1>1, LenProperties, ElementOfSeq
<1> QED
  BY <1>2 DEF Ages

LEMMA MeasuredAppend ==
    ASSUME NEW s \in Seq(Samples), NEW x \in Samples
    PROVE  /\ Measured(s) \in Seq(Measures) /\ Len(Measured(s)) = Len(s)
           /\ [at |-> x.at, len |-> x.len] \in Measures
           /\ Measured(Append(s, x)) = Append(Measured(s), [at |-> x.at, len |-> x.len])
<1> DEFINE y == [at |-> x.at, len |-> x.len]
           t == Append(s, x)
<1>1. Len(s) \in Nat /\ \A i \in 1 .. Len(s) : s[i] \in Samples
  BY LenProperties, ElementOfSeq
<1>2. t \in Seq(Samples) /\ Len(t) = Len(s) + 1 /\ t[Len(s) + 1] = x
      /\ \A i \in 1 .. Len(s) : t[i] = s[i]
  BY AppendProperties
<1> HIDE DEF t
<1>3. ASSUME NEW z \in Samples PROVE [at |-> z.at, len |-> z.len] \in Measures
  BY DEF Samples, Measures
<1>4. ASSUME NEW r \in Seq(Samples)
      PROVE  Measured(r) \in Seq(Measures) /\ Len(Measured(r)) = Len(r)
             /\ \A i \in 1 .. Len(r) : Measured(r)[i] = [at |-> r[i].at, len |-> r[i].len]
  BY MeasuredForm
<1>5. y \in Measures
  BY <1>3
<1> DEFINE q == Measured(s)
           p == Append(q, y)
<1>6. q \in Seq(Measures) /\ Len(q) = Len(s)
      /\ \A i \in 1 .. Len(s) : q[i] = [at |-> s[i].at, len |-> s[i].len]
  BY <1>4
<1> HIDE DEF q
<1>7. p \in Seq(Measures) /\ Len(p) = Len(s) + 1 /\ p[Len(s) + 1] = y
      /\ \A i \in 1 .. Len(s) : p[i] = q[i]
  BY <1>5, <1>6, AppendProperties
<1>8. Measured(t) \in Seq(Measures) /\ Len(Measured(t)) = Len(s) + 1
      /\ \A i \in 1 .. Len(s) + 1 : Measured(t)[i] = [at |-> t[i].at, len |-> t[i].len]
  BY <1>2, <1>4
<1> HIDE DEF p
<1>9. ASSUME NEW i \in 1 .. Len(s) + 1 PROVE Measured(t)[i] = p[i]
  <2>1. CASE i = Len(s) + 1
    BY <1>2, <1>7, <1>8, <2>1
  <2>2. CASE i # Len(s) + 1
    <3>1. i \in 1 .. Len(s)
      BY <1>1, <2>2
    <3> QED
      BY <1>2, <1>6, <1>7, <1>8, <3>1
  <2> QED
    BY <2>1, <2>2
<1>10. Measured(t) = p
  BY <1>7, <1>8, <1>9, SeqEqual
<1> QED
  BY <1>5, <1>6, <1>10 DEF p, q, t

LEMMA AgesAppend ==
    ASSUME NEW s \in Seq(Samples), NEW x \in Samples
    PROVE  /\ Ages(s) \in Seq(Nat) /\ Len(Ages(s)) = Len(s) /\ Distance(x.age) \in Nat
           /\ Ages(Append(s, x)) = Append(Ages(s), Distance(x.age))
<1> DEFINE t == Append(s, x)
<1>1. Len(s) \in Nat /\ \A i \in 1 .. Len(s) : s[i] \in Samples
  BY LenProperties, ElementOfSeq
<1>2. t \in Seq(Samples) /\ Len(t) = Len(s) + 1 /\ t[Len(s) + 1] = x
      /\ \A i \in 1 .. Len(s) : t[i] = s[i]
  BY AppendProperties
<1> HIDE DEF t
<1>3. ASSUME NEW z \in Samples PROVE Distance(z.age) \in Nat
  <2>1. z.age \in Int
    BY DEF Samples
  <2> QED
    BY <2>1 DEF Distance
<1>4. ASSUME NEW r \in Seq(Samples)
      PROVE  Ages(r) \in Seq(Nat) /\ Len(Ages(r)) = Len(r)
             /\ \A i \in 1 .. Len(r) : Ages(r)[i] = Distance(r[i].age)
  BY AgesForm
<1> DEFINE q == Ages(s)
           y == Distance(x.age)
           p == Append(q, y)
<1>5. y \in Nat
  BY <1>3
<1>6. q \in Seq(Nat) /\ Len(q) = Len(s) /\ \A i \in 1 .. Len(s) : q[i] = Distance(s[i].age)
  BY <1>4
<1> HIDE DEF q
<1>7. p \in Seq(Nat) /\ Len(p) = Len(s) + 1 /\ p[Len(s) + 1] = Distance(x.age)
      /\ \A i \in 1 .. Len(s) : p[i] = q[i]
  BY <1>5, <1>6, AppendProperties
<1>8. Ages(t) \in Seq(Nat) /\ Len(Ages(t)) = Len(s) + 1
      /\ \A i \in 1 .. Len(s) + 1 : Ages(t)[i] = Distance(t[i].age)
  BY <1>2, <1>4
<1> HIDE DEF p
<1>9. ASSUME NEW i \in 1 .. Len(s) + 1 PROVE Ages(t)[i] = p[i]
  <2>1. CASE i = Len(s) + 1
    BY <1>2, <1>7, <1>8, <2>1
  <2>2. CASE i # Len(s) + 1
    <3>1. i \in 1 .. Len(s)
      BY <1>1, <2>2
    <3> QED
      BY <1>2, <1>6, <1>7, <1>8, <3>1
  <2> QED
    BY <2>1, <2>2
<1>10. Ages(t) = p
  BY <1>7, <1>8, <1>9, SeqEqual
<1> QED
  BY <1>5, <1>6, <1>10 DEF p, q, t

\* The gaps of an ordered sequence of samples.
OrderedUpTo(s, t) ==
    /\ \A i \in 1 .. Len(s) : s[i].at <= t
    /\ \A i \in 1 .. Len(s) - 1 : s[i].at <= s[i + 1].at

LEMMA GapsForm ==
    ASSUME NEW s \in Seq(Samples), NEW t, OrderedUpTo(s, t)
    PROVE  /\ Gaps(s) \in Seq(Nat)
           /\ (s = <<>> => Gaps(s) = <<>>)
           /\ (s # <<>> => Len(Gaps(s)) = Len(s) - 1 /\ Len(s) \in Nat \ {0})
           /\ \A i \in 1 .. Len(s) - 1 : Gaps(s)[i] = s[i + 1].at - s[i].at
<1>1. Len(s) \in Nat /\ \A i \in 1 .. Len(s) : s[i].at \in Nat
  <2>1. Len(s) \in Nat /\ \A i \in 1 .. Len(s) : s[i] \in Samples
    BY LenProperties, ElementOfSeq
  <2>2. \A y \in Samples : y.at \in Nat
    BY DEF Samples
  <2> QED
    BY <2>1, <2>2
<1>2. ASSUME NEW i \in 1 .. Len(s) - 1 PROVE s[i + 1].at - s[i].at \in Nat
  <2>1. i \in 1 .. Len(s) /\ i + 1 \in 1 .. Len(s)
    BY <1>1
  <2>2. s[i].at \in Nat /\ s[i + 1].at \in Nat /\ s[i].at <= s[i + 1].at
    BY <1>1, <2>1 DEF OrderedUpTo
  <2> QED
    BY <2>2
<1>3. CASE s = <<>>
  <2>1. Len(s) = 0
    BY <1>3, EmptySeq
  <2>2. Gaps(s) = <<>>
    BY <2>1 DEF Gaps
  <2>3. 1 .. Len(s) - 1 = {} /\ <<>> \in Seq(Nat)
    BY <2>1, EmptySeq
  <2> QED
    BY <1>3, <2>2, <2>3
<1>4. CASE s # <<>>
  <2>1. Len(s) \in Nat \ {0}
    BY <1>4, EmptySeq
  <2> DEFINE n == Len(s) - 1
  <2>2. n \in Nat /\ \A i \in 1 .. n : s[i + 1].at - s[i].at \in Nat
    BY <1>2, <2>1
  <2>3. Gaps(s) = [i \in 1 .. n |-> s[i + 1].at - s[i].at]
    BY DEF Gaps
  <2> HIDE DEF n
  <2>4. Gaps(s) \in Seq(Nat) /\ Len(Gaps(s)) = n
        /\ \A i \in 1 .. n : Gaps(s)[i] = s[i + 1].at - s[i].at
    BY <2>2, <2>3
  <2> QED
    BY <1>4, <2>1, <2>4 DEF n
<1> QED
  BY <1>3, <1>4

LEMMA GapsAppend ==
    ASSUME NEW s \in Seq(Samples), NEW x \in Samples, NEW t \in Nat, OrderedUpTo(s, t), t <= x.at
    PROVE  /\ OrderedUpTo(Append(s, x), x.at)
           /\ s = <<>> => Gaps(Append(s, x)) = <<>>
           /\ s # <<>> => /\ x.at - s[Len(s)].at \in Nat
                          /\ Gaps(Append(s, x)) = Append(Gaps(s), x.at - s[Len(s)].at)
<1> DEFINE r == Append(s, x)
           l == Len(s)
<1>1. l \in Nat /\ \A i \in 1 .. l : s[i].at \in Nat
  <2>1. Len(s) \in Nat /\ \A i \in 1 .. Len(s) : s[i] \in Samples
    BY LenProperties, ElementOfSeq
  <2>2. \A y \in Samples : y.at \in Nat
    BY DEF Samples
  <2> QED
    BY <2>1, <2>2
<1>2. r \in Seq(Samples) /\ Len(r) = l + 1 /\ r[l + 1] = x /\ r # <<>>
      /\ \A i \in 1 .. l : r[i] = s[i]
  BY AppendProperties
<1>3. x.at \in Nat
  BY DEF Samples
<1> HIDE DEF r
<1>o. /\ \A i \in 1 .. l : s[i].at <= t
      /\ \A i \in 1 .. l - 1 : s[i].at <= s[i + 1].at
  BY DEF OrderedUpTo
<1>e. (s = <<>>) <=> (l = 0)
  BY <1>1, EmptySeq
<1> HIDE DEF l
<1>4. ASSUME NEW i \in 1 .. l + 1 PROVE r[i].at <= x.at
  <2>1. CASE i = l + 1
    BY <1>2, <1>3, <2>1
  <2>2. CASE i # l + 1
    <3>1. i \in 1 .. l
      BY <1>1, <2>2
    <3>2. r[i].at = s[i].at /\ s[i].at \in Nat /\ s[i].at <= t
      BY <1>1, <1>2, <1>o, <3>1
    <3> QED
      BY <1>3, <3>2
  <2> QED
    BY <2>1, <2>2
<1>5. ASSUME NEW i \in 1 .. (l + 1) - 1 PROVE r[i].at <= r[i + 1].at
  <2>1. i \in 1 .. l /\ i + 1 \in 1 .. l + 1
    BY <1>1
  <2>2. CASE i = l
    BY <1>2, <1>4, <2>1, <2>2
  <2>3. CASE i # l
    <3>1. i \in 1 .. l - 1 /\ i + 1 \in 1 .. l
      BY <1>1, <2>1, <2>3
    <3> QED
      BY <1>2, <1>o, <2>1, <3>1
  <2> QED
    BY <2>2, <2>3
<1>6. OrderedUpTo(r, x.at)
  BY <1>2, <1>4, <1>5 DEF OrderedUpTo
<1>7. /\ Gaps(r) \in Seq(Nat) /\ Len(Gaps(r)) = l
      /\ \A i \in 1 .. l : Gaps(r)[i] = r[i + 1].at - r[i].at
  <2>1. /\ Gaps(r) \in Seq(Nat) /\ Len(Gaps(r)) = Len(r) - 1
        /\ \A i \in 1 .. Len(r) - 1 : Gaps(r)[i] = r[i + 1].at - r[i].at
    BY <1>2, <1>6, GapsForm
  <2>2. Len(r) - 1 = l
    BY <1>1, <1>2
  <2> QED
    BY <2>1, <2>2
<1>8. CASE s = <<>>
  <2>1. Gaps(r) = <<>>
    BY <1>7, <1>8, <1>e, EmptySeq
  <2> QED
    BY <1>6, <1>8, <2>1 DEF r
<1>9. CASE s # <<>>
  <2> DEFINE y == x.at - s[l].at
             q == Gaps(s)
             p == Append(q, y)
  <2>1. l \in 1 .. l /\ l # 0
    BY <1>1, <1>9, <1>e
  <2>2. y \in Nat
    <3>1. s[l].at \in Nat /\ s[l].at <= t
      BY <1>1, <1>o, <2>1
    <3> QED
      BY <1>3, <3>1
  <2>3. /\ q \in Seq(Nat) /\ Len(q) = l - 1
        /\ \A i \in 1 .. l - 1 : q[i] = s[i + 1].at - s[i].at
    BY <1>9, GapsForm DEF l
  <2> HIDE DEF q
  <2>4. p \in Seq(Nat) /\ Len(p) = (l - 1) + 1 /\ p[(l - 1) + 1] = y
        /\ \A i \in 1 .. l - 1 : p[i] = q[i]
    BY <2>2, <2>3, AppendProperties
  <2>y. y = x.at - s[l].at
    OBVIOUS
  <2> HIDE DEF p, y
  <2>5. (l - 1) + 1 = l
    BY <1>1
  <2>6. ASSUME NEW i \in 1 .. l PROVE Gaps(r)[i] = p[i]
    <3>1. CASE i = l
      BY <1>2, <1>7, <2>1, <2>4, <2>5, <2>y, <3>1
    <3>2. CASE i # l
      <4>1. i \in 1 .. l - 1 /\ i + 1 \in 1 .. l
        BY <1>1, <3>2
      <4> QED
        BY <1>2, <1>7, <2>3, <2>4, <4>1
    <3> QED
      BY <3>1, <3>2
  <2>7. Gaps(r) = p
    BY <1>7, <2>4, <2>5, <2>6, SeqEqual
  <2> QED
    BY <1>6, <1>9, <2>2, <2>7 DEF r, p, q, y, l
<1> QED
  BY <1>8, <1>9

\* What another message makes of the comparable ones since the last mismatch.
LEMMA SinceMismatchForm ==
    ASSUME NEW s \in Seq(Samples)
    PROVE  SinceMismatch(s) \in Seq(Samples)
<1> DEFINE P == {i \in DOMAIN s : Comparable(s[i]) /\ \A j \in i .. Len(s) : ~Differs(s[j])}
<1>1. PICK u \in [0 .. Len(s) -> Seq(Samples)] : SelectSteps(s, P, u)
  BY SelectForm
<1>2. Len(s) \in 0 .. Len(s)
  BY LenProperties
<1> QED
  BY <1>1, <1>2 DEF SinceMismatch, SelectSteps

LEMMA SinceMismatchAppend ==
    ASSUME NEW s \in Seq(Samples), NEW x \in Samples
    PROVE  /\ SinceMismatch(s) \in Seq(Samples)
           /\ SinceMismatch(Append(s, x)) =
                IF Differs(x) THEN <<>>
                ELSE IF Comparable(x) THEN Append(SinceMismatch(s), x) ELSE SinceMismatch(s)
<1> DEFINE l == Len(s)
           r == Append(s, x)
           P == {i \in DOMAIN s : Comparable(s[i]) /\ \A j \in i .. l : ~Differs(s[j])}
           R == {i \in DOMAIN r : Comparable(r[i]) /\ \A j \in i .. Len(r) : ~Differs(r[j])}
<1>1. l \in Nat /\ DOMAIN s = 1 .. l
  BY LenProperties
<1>2. r \in Seq(Samples) /\ Len(r) = l + 1 /\ DOMAIN r = 1 .. l + 1 /\ r[l + 1] = x
      /\ \A i \in 1 .. l : r[i] = s[i]
  BY <1>1, AppendProperties, LenProperties
<1>3. SinceMismatch(s) = Select(s, P) /\ SinceMismatch(r) = Select(r, R)
  BY DEF SinceMismatch
<1> HIDE DEF r, l
<1>4. CASE Differs(x)
  <2>1. ASSUME NEW i \in R PROVE FALSE
    <3>1. i \in 1 .. l + 1 /\ \A j \in i .. l + 1 : ~Differs(r[j])
      BY <1>2, <2>1
    <3>2. l + 1 \in i .. l + 1
      BY <1>1, <3>1
    <3> QED
      BY <1>2, <1>4, <3>1, <3>2
  <2>2. R = {}
    BY <2>1
  <2> HIDE DEF R
  <2>3. SinceMismatch(r) = <<>>
    BY <1>2, <1>3, <2>2, SelectNone
  <2>4. SinceMismatch(s) \in Seq(Samples)
    BY <1>3, SelectAppend
  <2> QED
    BY <1>4, <2>3, <2>4 DEF r
<1>5. CASE ~Differs(x)
  <2>1. ASSUME NEW i \in 1 .. l PROVE i \in R <=> i \in P
    <3>1. i \in 1 .. l + 1 /\ i \in Nat
      BY <1>1
    <3>2. i \in P <=> Comparable(s[i]) /\ \A j \in i .. l : ~Differs(s[j])
      BY <1>1
    <3>3. i \in R <=> Comparable(r[i]) /\ \A j \in i .. l + 1 : ~Differs(r[j])
      BY <1>2, <3>1
    <3>4. (\A j \in i .. l + 1 : ~Differs(r[j])) <=> \A j \in i .. l : ~Differs(s[j])
      <4>1. \A j \in i .. l + 1 : j = l + 1 \/ j \in i .. l
        BY <1>1, <3>1
      <4>2. \A j \in i .. l : j \in i .. l + 1 /\ j \in 1 .. l
        BY <1>1, <3>1
      <4>3. \A j \in i .. l : r[j] = s[j]
        BY <1>2, <4>2
      <4> QED
        BY <1>2, <1>5, <4>1, <4>2, <4>3
    <3>5. r[i] = s[i]
      BY <1>2
    <3> HIDE DEF P, R
    <3> QED
      BY <3>2, <3>3, <3>4, <3>5
  <2>2. l + 1 \in R <=> Comparable(x)
    <3>1. l + 1 \in 1 .. l + 1 /\ \A j \in l + 1 .. l + 1 : j = l + 1
      BY <1>1
    <3> QED
      BY <1>2, <1>5, <3>1
  <2> HIDE DEF P, R
  <2>3. /\ Select(s, P) \in Seq(Samples)
        /\ Select(r, R) = IF l + 1 \in R THEN Append(Select(s, P), x) ELSE Select(s, P)
    BY <2>1, SelectAppend DEF r, l
  <2> QED
    BY <1>3, <1>5, <2>2, <2>3 DEF r
<1> QED
  BY <1>4, <1>5

\* What a message makes of the histories.
LEMMA ObserveSeen ==
    ASSUME SeenTypes, NEW s, NEW step, Observe(s, step), NEW x \in Samples,
           x = [s EXCEPT !.at = now + step]
    PROVE  /\ SeenTypes'
           /\ seen'.bw = IF Concerns(bw, s) THEN Append(seen.bw, x) ELSE seen.bw
           /\ seen'.hz = IF Concerns(hz, s) THEN Append(seen.hz, x) ELSE seen.hz
           /\ seen'.delay = IF Concerns(delay, s) THEN Append(seen.delay, x) ELSE seen.delay
<1> DEFINE b == IF Concerns(bw, s) THEN Append(seen.bw, x) ELSE seen.bw
           h == IF Concerns(hz, s) THEN Append(seen.hz, x) ELSE seen.hz
           d == IF Concerns(delay, s) THEN Append(seen.delay, x) ELSE seen.delay
<1>1. seen' = [k \in DOMAIN seen |->
           IF Concerns([bw |-> bw, hz |-> hz, delay |-> delay][k], s)
           THEN Append(seen[k], x) ELSE seen[k]]
  BY DEF Observe
<1>2. seen.bw \in Seq(Samples) /\ seen.hz \in Seq(Samples) /\ seen.delay \in Seq(Samples)
      /\ DOMAIN seen = {"bw", "hz", "delay"}
  BY DEF SeenTypes
<1>3. b \in Seq(Samples) /\ h \in Seq(Samples) /\ d \in Seq(Samples)
  BY <1>2, AppendProperties
<1>4. seen' = [bw |-> b, hz |-> h, delay |-> d]
  <2>1. seen'["bw"] = b /\ seen'["hz"] = h /\ seen'["delay"] = d
    BY <1>1, <1>2
  <2> HIDE DEF b, h, d
  <2> QED
    BY <1>1, <1>2, <2>1
<1> HIDE DEF b, h, d
<1>5. SeenTypes' /\ seen'.bw = b /\ seen'.hz = h /\ seen'.delay = d
  BY <1>3, <1>4 DEF SeenTypes
<1> QED
  BY <1>5 DEF b, h, d

LEMMA BwKeeps ==
    ASSUME EchoTypes, SeenTypes, BwInv, NEW s \in Inputs[input].samples,
           NEW step \in Inputs[input].steps, Observe(s, step)
    PROVE  BwInv'
<1> DEFINE t == now + step
           x == [s EXCEPT !.at = t]
<1>1. t \in Nat
  BY InputFacts
<1>2. x \in Samples /\ x.at = t /\ x.len = s.len
  BY <1>1, Stamped
<1> HIDE DEF t
<1>3. seen'.bw = IF Concerns(bw, s) THEN Append(seen.bw, x) ELSE seen.bw
  BY <1>2, ObserveSeen DEF t
<1>4. bw' = IF Concerns(bw, s) THEN BwObserve(s, t) ELSE bw
  BY DEF Observe, t
<1> HIDE DEF x
<1>5. CASE ~Concerns(bw, s)
  BY <1>3, <1>4, <1>5 DEF BwInv
<1>6. CASE Concerns(bw, s)
  <2>1. /\ bw \in [topic : Topics, samples : Seq(Measures)]
        /\ bw.samples = LastN(Measured(seen.bw), Window)
        /\ seen.bw \in Seq(Samples) /\ Window \in Nat \ {0}
    BY <1>6, BoundAssumption DEF Concerns, BwInv, SeenTypes
  <2> DEFINE y == [at |-> t, len |-> s.len]
             q == LastN(Append(bw.samples, y), Window)
  <2>2. /\ Measured(seen.bw) \in Seq(Measures) /\ y \in Measures
        /\ Measured(Append(seen.bw, x)) = Append(Measured(seen.bw), y)
    BY <1>2, <2>1, MeasuredAppend
  <2> HIDE DEF y
  <2>3. q = LastN(Measured(Append(seen.bw, x)), Window)
    BY <2>1, <2>2, LastNAppend
  <2>4. q \in Seq(Measures)
    BY <2>1, <2>2, AppendProperties, LastNForm
  <2>5. bw' = [bw EXCEPT !.samples = q]
    BY <1>4, <1>6 DEF BwObserve, y
  <2> HIDE DEF q
  <2>6. bw' \in [topic : Topics, samples : Seq(Measures)] /\ bw'.samples = q
    BY <2>1, <2>4, <2>5
  <2>7. seen'.bw = Append(seen.bw, x)
    BY <1>3, <1>6
  <2> QED
    BY <2>3, <2>6, <2>7 DEF BwInv
<1> QED
  BY <1>5, <1>6

LEMMA HzKeeps ==
    ASSUME EchoTypes, SeenTypes, HzInv, NEW s \in Inputs[input].samples,
           NEW step \in Inputs[input].steps, Observe(s, step)
    PROVE  HzInv'
<1> DEFINE t == now + step
           x == [s EXCEPT !.at = t]
           g == seen.hz
<1>1. t \in Nat /\ now \in Nat /\ now <= t
  <2>1. now \in Nat /\ step \in Nat
    BY InputFacts DEF EchoTypes
  <2> QED
    BY <2>1
<1>2. x \in Samples /\ x.at = t
  BY <1>1, Stamped
<1> HIDE DEF t
<1>3. seen'.hz = IF Concerns(hz, s) THEN Append(g, x) ELSE g
  BY <1>2, ObserveSeen DEF t
<1>4. hz' = (IF Concerns(hz, s) THEN HzObserve(t) ELSE hz) /\ now' = t
  BY DEF Observe, t
<1> HIDE DEF x
<1>g. g \in Seq(Samples) /\ Window \in Nat \ {0}
  BY BoundAssumption DEF SeenTypes
<1>5. CASE ~Concerns(hz, s)
  <2> SUFFICES ASSUME hz' # None PROVE HzInv'
    BY DEF HzInv
  <2>1. hz' = hz /\ hz # None /\ seen'.hz = g
    BY <1>3, <1>4, <1>5
  <2>2. ASSUME NEW i \in 1 .. Len(g) PROVE g[i].at <= t
    <3>1. g[i] \in Samples
      BY <1>g, ElementOfSeq
    <3>2. g[i].at \in Nat /\ g[i].at <= now
      BY <2>1, <3>1 DEF Samples, HzInv
    <3> QED
      BY <1>1, <3>2
  <2> HIDE DEF g
  <2> QED
    BY <1>4, <2>1, <2>2 DEF HzInv, g
<1>6. CASE Concerns(hz, s)
  <2>1. /\ hz \in [topic : Topics, last : Nat \cup {None}, periods : Seq(Nat)]
        /\ hz.periods = LastN(Gaps(g), Window)
        /\ hz.last = IF g = <<>> THEN None ELSE g[Len(g)].at
        /\ OrderedUpTo(g, now)
    BY <1>6 DEF Concerns, HzInv, OrderedUpTo
  <2> DEFINE ps == IF hz.last = None THEN hz.periods
                   ELSE LastN(Append(hz.periods, t - hz.last), Window)
  <2>2. hz' = [hz EXCEPT !.last = t, !.periods = ps]
    BY <1>4, <1>6 DEF HzObserve
  <2>3. /\ OrderedUpTo(Append(g, x), t)
        /\ g = <<>> => Gaps(Append(g, x)) = <<>>
        /\ g # <<>> => /\ t - g[Len(g)].at \in Nat
                       /\ Gaps(Append(g, x)) = Append(Gaps(g), t - g[Len(g)].at)
    BY <1>1, <1>2, <1>g, <2>1, GapsAppend
  <2>4. Gaps(g) \in Seq(Nat) /\ (g = <<>> => Gaps(g) = <<>>)
    BY <1>g, <2>1, GapsForm
  <2>5. Append(g, x) \in Seq(Samples) /\ Append(g, x) # <<>>
        /\ Append(g, x)[Len(Append(g, x))] = x
    BY <1>2, <1>g, AppendProperties
  <2> HIDE DEF g
  <2>6. ps = LastN(Gaps(Append(g, x)), Window) /\ ps \in Seq(Nat)
    <3>1. CASE g = <<>>
      <4>1. ps = LastN(Gaps(g), Window) /\ Gaps(g) = <<>> /\ Gaps(Append(g, x)) = <<>>
        BY <2>1, <2>3, <2>4, <3>1
      <4>2. hz.periods \in Seq(Nat) /\ hz.last = None
        BY <2>1, <3>1
      <4> QED
        BY <4>1, <4>2
    <3>2. CASE g # <<>>
      <4> DEFINE y == t - g[Len(g)].at
      <4>1. y \in Nat /\ Gaps(Append(g, x)) = Append(Gaps(g), y)
        BY <2>3, <3>2
      <4>2. hz.last # None /\ hz.last = g[Len(g)].at
        <5>1. hz.last = g[Len(g)].at
          BY <2>1, <3>2
        <5>2. Len(g) \in 1 .. Len(g)
          BY <1>g, <3>2, EmptySeq DEF g
        <5>3. g[Len(g)] \in Samples
          BY <1>g, <5>2, ElementOfSeq DEF g
        <5> QED
          BY <5>1, <5>3, NamesAssumption DEF Samples
      <4>3. ps = LastN(Append(LastN(Gaps(g), Window), y), Window)
        BY <2>1, <4>2
      <4> HIDE DEF y
      <4>4. ps = LastN(Append(Gaps(g), y), Window)
        BY <1>g, <2>4, <4>1, <4>3, LastNAppend
      <4>5. Append(Gaps(g), y) \in Seq(Nat) /\ Window \in Nat
        BY <1>g, <2>4, <4>1, AppendProperties
      <4>6. LastN(Append(Gaps(g), y), Window) \in Seq(Nat)
        BY <4>5, LastNForm
      <4> QED
        BY <4>1, <4>4, <4>6
    <3> QED
      BY <3>1, <3>2
  <2> HIDE DEF ps
  <2>7. /\ hz' \in [topic : Topics, last : Nat \cup {None}, periods : Seq(Nat)]
        /\ hz'.periods = ps /\ hz'.last = t
    BY <1>1, <2>1, <2>2, <2>6
  <2>8. seen'.hz = Append(g, x)
    BY <1>3, <1>6 DEF g
  <2> QED
    BY <1>2, <1>4, <2>3, <2>5, <2>6, <2>7, <2>8 DEF HzInv, OrderedUpTo
<1> QED
  BY <1>5, <1>6

LEMMA DelayKeeps ==
    ASSUME EchoTypes, SeenTypes, DelayInv, NEW s \in Inputs[input].samples,
           NEW step \in Inputs[input].steps, Observe(s, step)
    PROVE  DelayInv'
<1> DEFINE t == now + step
           x == [s EXCEPT !.at = t]
           g == seen.delay
<1>1. t \in Nat
  BY InputFacts
<1>2. x \in Samples /\ x.age = s.age /\ x.header = s.header
  BY <1>1, Stamped
<1> HIDE DEF t
<1>3. seen'.delay = IF Concerns(delay, s) THEN Append(g, x) ELSE g
  BY <1>2, ObserveSeen DEF t
<1>4. delay' = IF Concerns(delay, s) THEN DelayObserve(s) ELSE delay
  BY DEF Observe
<1> HIDE DEF x
<1>5. g \in Seq(Samples) /\ Window \in Nat \ {0}
  BY BoundAssumption DEF SeenTypes
<1>6. CASE ~Concerns(delay, s)
  BY <1>3, <1>4, <1>6 DEF DelayInv
<1>7. CASE Concerns(delay, s)
  <2> DEFINE q == SinceMismatch(g)
             r == SinceMismatch(Append(g, x))
             d == Distance(s.age)
             None0 == \E i \in 1 .. Len(g) : g[i].header = "none"
  <2>1. /\ delay \in [topic : Topics, delays : Seq(Nat), missing : BOOLEAN, mismatch : BOOLEAN]
        /\ delay.delays = LastN(Ages(q), Window)
        /\ delay.mismatch => delay.delays = <<>>
        /\ delay.missing <=> None0
    BY <1>7 DEF Concerns, DelayInv
  <2>2. /\ (Comparable(x) <=> Comparable(s)) /\ (Differs(x) <=> Differs(s))
        /\ (s.header = "none" => ~Comparable(s))
    BY <1>2 DEF Comparable, Differs
  <2>3. q \in Seq(Samples)
        /\ r = IF Differs(x) THEN <<>> ELSE IF Comparable(x) THEN Append(q, x) ELSE q
    BY <1>2, <1>5, SinceMismatchAppend
  <2>4. Ages(q) \in Seq(Nat) /\ d \in Nat /\ Ages(Append(q, x)) = Append(Ages(q), d)
    BY <1>2, <2>3, AgesAppend
  <2>5. (\E i \in 1 .. Len(Append(g, x)) : Append(g, x)[i].header = "none")
          <=> (None0 \/ s.header = "none")
    <3> DEFINE p == Append(g, x)
               l == Len(g)
    <3>1. /\ l \in Nat /\ Len(p) = l + 1 /\ p[l + 1] = x
          /\ \A i \in 1 .. l : p[i] = g[i]
      BY <1>2, <1>5, AppendProperties, LenProperties
    <3> HIDE DEF p
    <3>2. \A i \in 1 .. l + 1 : i = l + 1 \/ i \in 1 .. l
      BY <3>1
    <3>3. l + 1 \in 1 .. l + 1 /\ \A i \in 1 .. l : i \in 1 .. l + 1
      BY <3>1
    <3> HIDE DEF l
    <3>4. (\E i \in 1 .. l + 1 : p[i].header = "none")
            <=> ((\E i \in 1 .. l : g[i].header = "none") \/ x.header = "none")
      BY <3>1, <3>2, <3>3
    <3> QED
      BY <1>2, <3>1, <3>4 DEF l, p
  <2>6. seen'.delay = Append(g, x)
    BY <1>3, <1>7
  <2>n. Concerns(delay, s) /\ delay' = DelayObserve(s)
    BY <1>4, <1>7
  <2> HIDE DEF q, r, d, g, None0
  <2>7. CASE s.header = "none"
    <3>1. delay' = [delay EXCEPT !.missing = TRUE]
      BY <2>n, <2>2, <2>7 DEF DelayObserve
    <3>2. /\ delay' \in [topic : Topics, delays : Seq(Nat), missing : BOOLEAN, mismatch : BOOLEAN]
          /\ delay'.delays = delay.delays /\ delay'.mismatch = delay.mismatch
          /\ delay'.missing = TRUE
      BY <2>1, <3>1
    <3>3. r = q
      BY <2>2, <2>3, <2>7 DEF Differs
    <3> QED
      BY <2>1, <2>5, <2>6, <2>7, <3>2, <3>3 DEF DelayInv, r
  <2>8. CASE s.header # "none" /\ Comparable(s)
    <3> DEFINE ds == LastN(Append(delay.delays, d), Window)
    <3>1. delay' = [delay EXCEPT !.mismatch = FALSE, !.delays = ds]
      BY <2>n, <2>8 DEF DelayObserve, d
    <3>2. r = Append(q, x)
      BY <2>2, <2>3, <2>8 DEF Differs
    <3>3. ds = LastN(Append(Ages(q), d), Window)
      <4>1. ds = LastN(Append(LastN(Ages(q), Window), d), Window)
        BY <2>1
      <4> DEFINE a == Ages(q)
      <4>2. a \in Seq(Nat) /\ d \in Nat /\ Window \in Nat \ {0}
        BY <1>5, <2>4
      <4> HIDE DEF a
      <4>3. LastN(Append(LastN(a, Window), d), Window) = LastN(Append(a, d), Window)
        BY <4>2, LastNAppend
      <4> QED
        BY <4>1, <4>3 DEF a
    <3>4. LastN(Append(Ages(q), d), Window) \in Seq(Nat)
      BY <1>5, <2>4, AppendProperties, LastNForm
    <3>5. ds = LastN(Ages(r), Window) /\ ds \in Seq(Nat)
      BY <2>4, <3>2, <3>3, <3>4
    <3> HIDE DEF ds
    <3>6. /\ delay' \in [topic : Topics, delays : Seq(Nat), missing : BOOLEAN, mismatch : BOOLEAN]
          /\ delay'.delays = ds /\ delay'.mismatch = FALSE
          /\ delay'.missing = delay.missing
      BY <2>1, <3>1, <3>5
    <3> QED
      BY <2>1, <2>5, <2>6, <2>8, <3>5, <3>6 DEF DelayInv, r
  <2>9. CASE s.header # "none" /\ ~Comparable(s)
    <3>1. delay' = [delay EXCEPT !.mismatch = TRUE, !.delays = <<>>]
      BY <2>n, <2>9 DEF DelayObserve
    <3>2. /\ delay' \in [topic : Topics, delays : Seq(Nat), missing : BOOLEAN, mismatch : BOOLEAN]
          /\ delay'.delays = <<>> /\ delay'.missing = delay.missing
      <4>1. <<>> \in Seq(Nat)
        BY EmptySeq
      <4> QED
        BY <2>1, <3>1, <4>1
    <3>3. r = <<>>
      BY <2>2, <2>3, <2>9 DEF Differs
    <3>4. LastN(Ages(r), Window) = <<>>
      <4>1. Ages(r) = <<>>
        <5>1. 1 .. Len(<<>>) = {}
          BY EmptySeq
        <5> QED
          BY <3>3, <5>1 DEF Ages
      <4> QED
        BY <1>5, <4>1, LastNEmpty
    <3> QED
      BY <2>1, <2>5, <2>6, <2>9, <3>2, <3>4 DEF DelayInv, r
  <2> QED
    BY <2>7, <2>8, <2>9
<1> QED
  BY <1>6, <1>7

----------------------------------------------------------------------------
(* What echo reports lost.                                                 *)

Losses == [got : Seq(Nat), lost : Nat]

\* The loss reported for a writer is at least what is missing, and what is
\* missing when everything came in order: then the last number is the greatest.
LossOk(l) ==
    /\ l.got # <<>> =>
         /\ Max(ToSet(l.got)) \in ToSet(l.got)
         /\ \A n \in ToSet(l.got) : n <= Max(ToSet(l.got))
         /\ InOrder(l.got) => l.got[Len(l.got)] = Max(ToSet(l.got))
    /\ l.lost >= Cardinality(Missing(l.got))
    /\ InOrder(l.got) => l.lost = Cardinality(Missing(l.got))

LossInv ==
    /\ losses \in [Writers -> Losses]
    /\ \A w \in Writers :
         /\ LossOk(losses[w])
         /\ echo # None =>
              echo.seqs[w] = IF losses[w].got = <<>> THEN None
                             ELSE losses[w].got[Len(losses[w].got)]

\* A sequence with one more element, as a set and in order.
LEMMA AppendNumber ==
    ASSUME NEW g \in Seq(Nat), NEW n \in Nat
    PROVE  LET h == Append(g, n)
           IN  /\ h \in Seq(Nat) /\ h # <<>> /\ Len(g) \in Nat /\ Len(h) = Len(g) + 1
               /\ h[Len(g) + 1] = n /\ ToSet(h) = ToSet(g) \cup {n} /\ ToSet(g) \subseteq Nat
               /\ Head(h) = IF g = <<>> THEN n ELSE Head(g)
               /\ g # <<>> => Len(g) \in 1 .. Len(g) /\ g[Len(g)] \in ToSet(g) /\ Head(g) \in ToSet(g)
               /\ InOrder(h) <=> InOrder(g) /\ (g # <<>> => g[Len(g)] < n)
<1> DEFINE h == Append(g, n)
           l == Len(g)
<1>1. /\ h \in Seq(Nat) /\ h # <<>> /\ Len(h) = l + 1 /\ h[l + 1] = n
      /\ \A i \in 1 .. l : h[i] = g[i]
  BY AppendProperties
<1>2. l \in Nat /\ DOMAIN g = 1 .. l /\ DOMAIN h = 1 .. l + 1
  BY <1>1, LenProperties
<1>3. Head(h) = IF g = <<>> THEN n ELSE Head(g)
  BY HeadTailAppend
<1>4. g = <<>> <=> l = 0
  BY EmptySeq
<1>5. \A i \in 1 .. l : g[i] \in Nat
  BY ElementOfSeq
<1>h. g # <<>> => Head(g) = g[1]
  BY <1>2, <1>4
<1> HIDE DEF h, l
<1>6. \A i \in 1 .. l + 1 : i = l + 1 \/ i \in 1 .. l
  BY <1>2
<1>7. l + 1 \in 1 .. l + 1 /\ \A i \in 1 .. l : i \in 1 .. l + 1
  BY <1>2
<1>8. ToSet(h) = ToSet(g) \cup {n} /\ ToSet(g) \subseteq Nat
  BY <1>1, <1>2, <1>5, <1>6, <1>7 DEF ToSet
<1>9. g # <<>> => l \in 1 .. l /\ 1 \in 1 .. l
  BY <1>2, <1>4
<1>10. g # <<>> => g[l] \in ToSet(g) /\ Head(g) \in ToSet(g)
  BY <1>2, <1>9, <1>h DEF ToSet
<1>11. InOrder(h) <=> InOrder(g) /\ (g # <<>> => g[l] < n)
  <2>1. InOrder(h) <=> \A i \in 1 .. (l + 1) - 1 : h[i] < h[i + 1]
    BY <1>1 DEF InOrder
  <2>2. InOrder(g) <=> \A i \in 1 .. l - 1 : g[i] < g[i + 1]
    BY DEF InOrder, l
  <2>3. ASSUME NEW i \in 1 .. l - 1 PROVE i \in 1 .. l /\ h[i] = g[i] /\ h[i + 1] = g[i + 1]
    <3>1. i \in 1 .. l /\ i + 1 \in 1 .. l
      BY <1>2
    <3> QED
      BY <1>1, <3>1
  <2>4. (l + 1) - 1 = l /\ \A i \in 1 .. l : i = l \/ i \in 1 .. l - 1
    BY <1>2
  <2>5. CASE g = <<>>
    <3>1. 1 .. l = {} /\ 1 .. l - 1 = {}
      BY <1>4, <2>5
    <3> QED
      BY <2>1, <2>2, <2>4, <2>5, <3>1
  <2>6. CASE g # <<>>
    <3>1. l \in 1 .. l /\ h[l] = g[l] /\ h[l + 1] = n
      BY <1>1, <1>9, <2>6
    <3> QED
      BY <2>1, <2>2, <2>3, <2>4, <2>6, <3>1
  <2> QED
    BY <2>5, <2>6
<1> QED
  BY <1>1, <1>2, <1>3, <1>8, <1>9, <1>10, <1>11 DEF h, l

\* A message with number n: what lies between the last number and n is lost.
LEMMA LossNoted ==
    ASSUME NEW l \in Losses, LossOk(l), NEW n \in Nat, NEW e,
           e = IF l.got # <<>> /\ n > l.got[Len(l.got)] + 1
               THEN n - l.got[Len(l.got)] - 1 ELSE 0
    PROVE  LET m == [got |-> Append(l.got, n), lost |-> l.lost + e]
           IN  m \in Losses /\ LossOk(m)
<1> DEFINE g == l.got
           h == Append(g, n)
           k == g[Len(g)]
           m == [got |-> h, lost |-> l.lost + e]
           A == ToSet(g)
           a == Max(A)
<1>1. g \in Seq(Nat) /\ l.lost \in Nat
  BY DEF Losses
<1>2. /\ h \in Seq(Nat) /\ h # <<>> /\ Len(h) = Len(g) + 1 /\ h[Len(g) + 1] = n
      /\ ToSet(h) = A \cup {n} /\ A \subseteq Nat
      /\ Head(h) = IF g = <<>> THEN n ELSE Head(g)
      /\ g # <<>> => k \in A /\ Head(g) \in A
      /\ InOrder(h) <=> InOrder(g) /\ (g # <<>> => k < n)
  BY <1>1, AppendNumber
<1>3. /\ g # <<>> => a \in A /\ (\A i \in A : i <= a) /\ (InOrder(g) => k = a)
      /\ l.lost >= Cardinality(Missing(g))
      /\ InOrder(g) => l.lost = Cardinality(Missing(g))
  BY DEF LossOk
<1>4. e = IF g # <<>> /\ n > k + 1 THEN n - k - 1 ELSE 0
  OBVIOUS
<1>5. Missing(h) = (Head(h) .. Max(A \cup {n})) \ (A \cup {n})
  BY <1>2 DEF Missing
<1>6. g # <<>> => Missing(g) = (Head(g) .. a) \ A
  BY DEF Missing
<1>7. m.got = h /\ m.lost = l.lost + e
  OBVIOUS
<1>t. h[Len(h)] = n /\ ToSet(h) = A \cup {n}
  BY <1>2
<1>k. g # <<>> => k \in Nat /\ a \in Nat /\ Head(g) \in Nat /\ k <= a
  BY <1>2, <1>3
<1>e. e \in Nat
  BY <1>4, <1>k
<1>m. m \in Losses
  BY <1>1, <1>2, <1>e DEF Losses
<1> HIDE DEF g, h, k, m, A, a
<1>8. ASSUME NEW b \in A \cup {n}, \A i \in A \cup {n} : i <= b,
             InOrder(h) => n = b,
             l.lost + e >= Cardinality(Missing(h)),
             InOrder(h) => l.lost + e = Cardinality(Missing(h))
      PROVE  LossOk(m)
  <2>1. A \cup {n} \subseteq Nat
    BY <1>2
  <2>2. Max(A \cup {n}) = b
    BY <1>8, <2>1, MaxIs
  <2> QED
    BY <1>2, <1>7, <1>8, <1>t, <2>2 DEF LossOk
<1>9. ASSUME g = <<>> PROVE LossOk(m)
  <2>1. A = {}
    <3>1. DOMAIN <<>> = {}
      OBVIOUS
    <3> QED
      BY <1>9, <3>1 DEF A, ToSet
  <2>2. Missing(h) = {} /\ Missing(g) = {}
    <3>0. {n} \subseteq Nat /\ n \in {n} /\ \A y \in {n} : y <= n
      OBVIOUS
    <3>1. Max({n}) = n
      BY <3>0, MaxIs
    <3>2. n .. n = {n}
      OBVIOUS
    <3> QED
      BY <1>2, <1>5, <1>9, <2>1, <3>1, <3>2 DEF Missing
  <2>3. Cardinality({}) = 0
    BY FS_EmptySet
  <2>4. InOrder(g)
    <3>1. 1 .. Len(<<>>) - 1 = {}
      BY EmptySeq
    <3> QED
      BY <1>9, <3>1 DEF InOrder
  <2>5. e = 0 /\ l.lost = 0
    BY <1>3, <1>4, <1>9, <2>2, <2>3, <2>4
  <2> QED
    BY <1>8, <2>1, <2>2, <2>3, <2>5
<1>10. ASSUME g # <<>>, n <= a PROVE LossOk(m)
  <2>1. /\ a \in A /\ \A i \in A : i <= a /\ k \in Nat /\ a \in Nat /\ k <= a
    BY <1>3, <1>10, <1>k
  <2>2. Max(A \cup {n}) = a
    <3>1. A \cup {n} \subseteq Nat /\ a \in A \cup {n} /\ \A i \in A \cup {n} : i <= a
      BY <1>2, <1>10, <2>1
    <3> QED
      BY <3>1, MaxIs
  <2>3. Missing(h) \subseteq Missing(g)
    BY <1>2, <1>5, <1>6, <1>10, <2>2
  <2>4. IsFiniteSet(Missing(g))
    <3>0. Head(g) \in Int /\ a \in Int
      BY <1>10, <1>k
    <3>1. IsFiniteSet(Head(g) .. a)
      BY <3>0, FS_Interval
    <3> QED
      BY <1>6, <1>10, <3>1, FS_Subset
  <2>5. Cardinality(Missing(h)) <= Cardinality(Missing(g)) /\ Cardinality(Missing(h)) \in Nat
        /\ Cardinality(Missing(g)) \in Nat
    BY <2>3, <2>4, FS_Subset, FS_CardinalityType
  <2>6. ~InOrder(h)
    <3>1. SUFFICES ASSUME InOrder(h) PROVE FALSE
      OBVIOUS
    <3>2. k = a /\ k < n
      BY <1>2, <1>3, <1>10, <3>1
    <3> QED
      BY <1>10, <2>1, <3>2
  <2>7. l.lost + e >= Cardinality(Missing(h))
    BY <1>1, <1>3, <1>e, <2>5
  <2> QED
    BY <1>8, <1>10, <2>1, <2>6, <2>7
<1>11. ASSUME g # <<>>, ~(n <= a) PROVE LossOk(m)
  <2>1. /\ a \in A /\ (\A i \in A : i <= a) /\ k \in Nat /\ a \in Nat /\ k <= a
        /\ Head(g) \in Nat /\ Head(g) <= a
    BY <1>2, <1>3, <1>11, <1>k
  <2>2. Max(A \cup {n}) = n
    <3>1. A \cup {n} \subseteq Nat /\ n \in A \cup {n} /\ \A i \in A \cup {n} : i <= n
      BY <1>2, <1>11, <2>1
    <3> QED
      BY <3>1, MaxIs
  <2> DEFINE M == Missing(g)
             I == a + 1 .. n - 1
  <2>3. Missing(h) = M \cup I /\ M \cap I = {}
    <3>1. Missing(h) = (Head(g) .. n) \ (A \cup {n})
      BY <1>2, <1>5, <1>11, <2>2
    <3>2. M = (Head(g) .. a) \ A
      BY <1>6, <1>11
    <3> HIDE DEF M
    <3>3. \A i \in Head(g) .. n : i \in Head(g) .. a \/ i = n \/ i \in I
      BY <1>11, <2>1
    <3>4. \A i \in I : i \in Head(g) .. n /\ i # n /\ i \notin A /\ i \notin Head(g) .. a
      BY <1>11, <2>1
    <3>5. \A i \in Head(g) .. a : i \in Head(g) .. n /\ i # n
      BY <1>11, <2>1
    <3> HIDE DEF I
    <3> QED
      BY <3>1, <3>2, <3>3, <3>4, <3>5
  <2>4. IsFiniteSet(M) /\ IsFiniteSet(I) /\ Cardinality(I) = n - a - 1
    <3>0. Head(g) \in Int /\ a \in Int
      BY <2>1
    <3>1. IsFiniteSet(Head(g) .. a)
      BY <3>0, FS_Interval
    <3>2. IsFiniteSet(M)
      BY <1>6, <1>11, <3>1, FS_Subset
    <3>3. a + 1 \in Int /\ n - 1 \in Int
      BY <2>1
    <3>4. IsFiniteSet(I) /\ Cardinality(I) = IF a + 1 > n - 1 THEN 0 ELSE (n - 1) - (a + 1) + 1
      BY <3>3, FS_Interval
    <3> HIDE DEF I, M
    <3> QED
      BY <1>11, <2>1, <3>2, <3>4
  <2>5. Cardinality(Missing(h)) = Cardinality(M) + (n - a - 1) /\ Cardinality(M) \in Nat
    <3> HIDE DEF M, I
    <3>1. Cardinality(M \cup I) = Cardinality(M) + Cardinality(I) - Cardinality(M \cap I)
      BY <2>4, FS_Union
    <3>2. Cardinality({}) = 0 /\ Cardinality(M) \in Nat /\ Cardinality(I) \in Nat
      BY <2>4, FS_EmptySet, FS_CardinalityType
    <3>3. Cardinality(M \cap I) = 0
      BY <2>3, <3>2
    <3> QED
      BY <2>3, <2>4, <3>1, <3>2, <3>3
  <2>6. e = n - k - 1
    BY <1>4, <1>11, <2>1
  <2>7. l.lost >= Cardinality(M) /\ (InOrder(g) => l.lost = Cardinality(M) /\ k = a)
    BY <1>3, <1>11
  <2> HIDE DEF M, I
  <2>8. l.lost + e >= Cardinality(Missing(h))
    <3> DEFINE x == Cardinality(M)
               y == Cardinality(Missing(h))
               z == l.lost
    <3>1. y = x + (n - a - 1) /\ x \in Nat /\ z >= x /\ e = n - k - 1
      BY <2>5, <2>6, <2>7
    <3>2. z \in Nat /\ n \in Nat /\ a \in Nat /\ k \in Nat /\ k <= a
      BY <1>1, <2>1
    <3> HIDE DEF x, y, z
    <3>3. z + e >= y
      BY <3>1, <3>2
    <3> QED
      BY <3>3 DEF y, z
  <2>9. InOrder(h) => l.lost + e = Cardinality(Missing(h))
    <3>1. InOrder(h) => InOrder(g)
      BY <1>2
    <3> QED
      BY <1>1, <1>11, <2>1, <2>5, <2>6, <2>7, <3>1
  <2>10. \A i \in A \cup {n} : i <= n
    BY <1>2, <1>11, <2>1
  <2> QED
    BY <1>8, <2>8, <2>9, <2>10
<1>12. LossOk(m)
  BY <1>9, <1>10, <1>11
<1> QED
  BY <1>12, <1>m DEF m, h, g

LEMMA NothingLost == LossOk([got |-> <<>>, lost |-> 0])
<1>1. Missing(<<>>) = {} /\ Cardinality({}) = 0
  BY FS_EmptySet DEF Missing
<1> QED
  BY <1>1 DEF LossOk

\* A message: the writer's last number is the one it is compared with.
LEMMA LossKeeps ==
    ASSUME EchoTypes, LossInv, NEW s \in Inputs[input].samples,
           NEW step \in Inputs[input].steps, Observe(s, step)
    PROVE  LossInv'
<1>1. s.writer \in Writers \cup {None} /\ s.seq \in Nat
  BY InputFacts
<1>2. losses \in [Writers -> Losses] /\ None \notin Writers /\ None \notin EchoSessions
  BY NamesAssumption DEF LossInv, EchoSessions
<1>3. CASE ~Concerns(echo, s)
  <2>1. echo' = echo /\ losses' = losses
    BY <1>3 DEF Observe
  <2> QED
    BY <2>1 DEF LossInv
<1>4. CASE Concerns(echo, s)
  <2>1. echo' = EchoObserve(s) /\ losses' = Note(losses, s, LostBefore(s))
    BY <1>4 DEF Observe
  <2>2. echo # None /\ echo \in EchoSessions /\ echo.seqs \in [Writers -> Nat \cup {None}]
    BY <1>4 DEF Concerns, EchoTypes, EchoSessions
  <2>3. echo'.seqs = IF s.writer = None THEN echo.seqs
                     ELSE [echo.seqs EXCEPT ![s.writer] = s.seq]
    BY <2>1, <2>2 DEF EchoObserve, EchoSessions
  <2>4. CASE s.writer = None
    <3>1. losses' = losses /\ echo'.seqs = echo.seqs
      BY <2>1, <2>3, <2>4 DEF Note
    <3> QED
      BY <2>2, <3>1 DEF LossInv
  <2>5. CASE s.writer # None
    <3> DEFINE v == s.writer
               l == losses[v]
               g == l.got
               e == LostBefore(s)
               m == [got |-> Append(g, s.seq), lost |-> l.lost + e]
    <3>1. v \in Writers /\ l \in Losses /\ g \in Seq(Nat) /\ LossOk(l)
      BY <1>1, <1>2, <2>5 DEF LossInv, Losses
    <3>2. echo.seqs[v] = IF g = <<>> THEN None ELSE g[Len(g)]
      BY <2>2, <3>1 DEF LossInv
    <3>3. g # <<>> => g[Len(g)] \in Nat /\ g[Len(g)] # None
      <4>1. g # <<>> => Len(g) \in 1 .. Len(g)
        BY <3>1, EmptySeq
      <4> QED
        BY <3>1, <4>1, ElementOfSeq, NamesAssumption
    <3>4. e = IF g # <<>> /\ s.seq > g[Len(g)] + 1 THEN s.seq - g[Len(g)] - 1 ELSE 0
      BY <2>5, <3>2, <3>3 DEF LostBefore
    <3>5. m \in Losses /\ LossOk(m)
      BY <1>1, <3>1, <3>4, LossNoted
    <3>6. losses' = [losses EXCEPT ![v] = m]
      BY <2>1, <2>5 DEF Note
    <3>7. m.got # <<>> /\ m.got[Len(m.got)] = s.seq
      <4>1. m.got = Append(g, s.seq)
        OBVIOUS
      <4> QED
        BY <1>1, <3>1, <4>1, AppendProperties
    <3> HIDE DEF m
    <3>8. losses' \in [Writers -> Losses]
      BY <1>2, <3>5, <3>6
    <3>9. ASSUME NEW w \in Writers
          PROVE  /\ LossOk(losses'[w])
                 /\ echo'.seqs[w] = IF losses'[w].got = <<>> THEN None
                                    ELSE losses'[w].got[Len(losses'[w].got)]
      <4>1. CASE w = v
        <5>1. losses'[w] = m
          BY <1>2, <3>1, <3>6, <4>1
        <5>2. echo'.seqs[w] = s.seq
          BY <2>2, <2>3, <2>5, <3>1, <4>1
        <5> QED
          BY <3>5, <3>7, <5>1, <5>2
      <4>2. CASE w # v
        <5>1. losses'[w] = losses[w]
          BY <1>2, <3>6, <4>2
        <5>2. echo'.seqs[w] = echo.seqs[w]
          BY <2>2, <2>3, <2>5, <4>2
        <5> QED
          BY <2>2, <5>1, <5>2 DEF LossInv
      <4> QED
        BY <4>1, <4>2
    <3> QED
      BY <3>8, <3>9 DEF LossInv
  <2> QED
    BY <2>4, <2>5
<1> QED
  BY <1>3, <1>4

\* A session of echo starts without losses.
LEMMA LossStarts ==
    ASSUME losses' = NoLosses,
           echo' = None \/ \E t \in Topics :
             echo' = [topic |-> t, seqs |-> [w \in Writers |-> None], frames |-> 0]
    PROVE  LossInv'
<1>1. [got |-> <<>>, lost |-> 0] \in Losses
  BY EmptySeq DEF Losses
<1>2. losses' \in [Writers -> Losses]
      /\ \A w \in Writers : losses'[w] = [got |-> <<>>, lost |-> 0]
  BY <1>1 DEF NoLosses
<1>3. echo' # None => \A w \in Writers : echo'.seqs[w] = None
  OBVIOUS
<1>4. ASSUME NEW w \in Writers
      PROVE  LossOk(losses'[w]) /\ losses'[w].got = <<>>
  BY <1>2, NothingLost
<1> QED
  BY <1>2, <1>3, <1>4 DEF LossInv

----------------------------------------------------------------------------
(* What is reported, as an inductive invariant.                            *)

ReportInv == EchoInv /\ SeenTypes /\ BwInv /\ HzInv /\ DelayInv /\ LossInv

\* The steps of the echo stream leave the rates alone.
LEMMA RatesUntouched ==
    ASSUME SeenTypes, BwInv, HzInv, DelayInv, UNCHANGED <<rateVars, seen, now>>
    PROVE  SeenTypes' /\ BwInv' /\ HzInv' /\ DelayInv'
<1>1. bw' = bw /\ hz' = hz /\ delay' = delay /\ seen' = seen /\ now' = now
  BY DEF rateVars
<1>2. SeenTypes'
  BY <1>1 DEF SeenTypes
<1>3. BwInv'
  BY <1>1 DEF BwInv
<1>4. HzInv'
  BY <1>1 DEF HzInv
<1>5. DelayInv'
  BY <1>1 DEF DelayInv
<1> QED
  BY <1>2, <1>3, <1>4, <1>5

LEMMA LossUntouched ==
    ASSUME LossInv, losses' = losses, echo' = echo \/ echo' = None
    PROVE  LossInv'
BY DEF LossInv

\* The sequences of a session that has seen nothing.
LEMMA NothingSeen ==
    /\ <<>> \in Seq(Samples) /\ Len(<<>>) = 0
    /\ LastN(Measured(<<>>), Window) = <<>>
    /\ LastN(Gaps(<<>>), Window) = <<>>
    /\ LastN(Ages(SinceMismatch(<<>>)), Window) = <<>>
<1>1. <<>> \in Seq(Samples) /\ Len(<<>>) = 0 /\ Window \in Nat
  BY EmptySeq, BoundAssumption
<1>2. 1 .. Len(<<>>) = {} /\ 1 .. Len(<<>>) - 1 = {}
  BY <1>1
<1>3. Measured(<<>>) = <<>> /\ Gaps(<<>>) = <<>> /\ Ages(<<>>) = <<>>
  BY <1>2 DEF Measured, Gaps, Ages
<1>4. SinceMismatch(<<>>) = <<>>
  <2> DEFINE P == {i \in DOMAIN <<>> : Comparable(<<>>[i])
                                       /\ \A j \in i .. Len(<<>>) : ~Differs(<<>>[j])}
  <2>1. DOMAIN <<>> = {}
    OBVIOUS
  <2>2. P = {}
    BY <2>1
  <2>3. SinceMismatch(<<>>) = Select(<<>>, P)
    BY DEF SinceMismatch
  <2> QED
    BY <1>1, <2>2, <2>3, SelectNone
<1> QED
  BY <1>1, <1>3, <1>4, LastNEmpty

\* A session that starts has seen nothing.
LEMMA BwStartKeeps ==
    ASSUME SeenTypes, BwInv, HzInv, DelayInv, NEW t \in Topics, StartBw(t)
    PROVE  SeenTypes' /\ BwInv' /\ HzInv' /\ DelayInv'
<1>1. hz' = hz /\ delay' = delay /\ now' = now
  BY DEF StartBw
<1>2. bw' = [topic |-> t, samples |-> <<>>] /\ seen' = [seen EXCEPT !.bw = <<>>]
  BY DEF StartBw
<1>3. SeenTypes' /\ seen'.bw = <<>> /\ seen'.hz = seen.hz /\ seen'.delay = seen.delay
  BY <1>2, NothingSeen DEF SeenTypes
<1>4. bw' \in [topic : Topics, samples : Seq(Measures)] /\ bw'.samples = <<>>
  BY <1>2
<1>5. BwInv'
  BY <1>3, <1>4, NothingSeen DEF BwInv
<1>6. HzInv' /\ DelayInv'
  BY <1>1, <1>3 DEF HzInv, DelayInv
<1> QED
  BY <1>3, <1>5, <1>6

LEMMA HzStartKeeps ==
    ASSUME SeenTypes, BwInv, HzInv, DelayInv, NEW t \in Topics, StartHz(t)
    PROVE  SeenTypes' /\ BwInv' /\ HzInv' /\ DelayInv'
<1>1. bw' = bw /\ delay' = delay /\ now' = now
  BY DEF StartHz
<1>2. hz' = [topic |-> t, last |-> None, periods |-> <<>>] /\ seen' = [seen EXCEPT !.hz = <<>>]
  BY DEF StartHz
<1>3. SeenTypes' /\ seen'.hz = <<>> /\ seen'.bw = seen.bw /\ seen'.delay = seen.delay
  BY <1>2, NothingSeen DEF SeenTypes
<1>4. hz' \in [topic : Topics, last : Nat \cup {None}, periods : Seq(Nat)]
      /\ hz'.periods = <<>> /\ hz'.last = None
  BY <1>2
<1>5. HzInv'
  <2>1. 1 .. Len(<<>>) = {} /\ 1 .. Len(<<>>) - 1 = {}
    BY NothingSeen
  <2> QED
    BY <1>3, <1>4, <2>1, NothingSeen DEF HzInv
<1>6. BwInv' /\ DelayInv'
  BY <1>1, <1>3 DEF BwInv, DelayInv
<1> QED
  BY <1>3, <1>5, <1>6

LEMMA DelayStartKeeps ==
    ASSUME SeenTypes, BwInv, HzInv, DelayInv, NEW t \in Topics, StartDelay(t)
    PROVE  SeenTypes' /\ BwInv' /\ HzInv' /\ DelayInv'
<1>1. bw' = bw /\ hz' = hz /\ now' = now
  BY DEF StartDelay
<1>2. /\ delay' = [topic |-> t, delays |-> <<>>, missing |-> FALSE, mismatch |-> FALSE]
      /\ seen' = [seen EXCEPT !.delay = <<>>]
  BY DEF StartDelay
<1>3. SeenTypes' /\ seen'.delay = <<>> /\ seen'.bw = seen.bw /\ seen'.hz = seen.hz
  BY <1>2, NothingSeen DEF SeenTypes
<1>4. /\ delay' \in [topic : Topics, delays : Seq(Nat), missing : BOOLEAN, mismatch : BOOLEAN]
      /\ delay'.delays = <<>> /\ delay'.mismatch = FALSE /\ delay'.missing = FALSE
  BY <1>2
<1>5. DelayInv'
  <2>1. 1 .. Len(<<>>) = {}
    BY NothingSeen
  <2> QED
    BY <1>3, <1>4, <2>1, NothingSeen DEF DelayInv
<1>6. BwInv' /\ HzInv'
  BY <1>1, <1>3 DEF BwInv, HzInv
<1> QED
  BY <1>3, <1>5, <1>6

LEMMA ReportInvInit ==
    ASSUME Init
    PROVE  ReportInv
<1>1. /\ bw = None /\ hz = None /\ delay = None /\ echo = None /\ losses = NoLosses
      /\ seen = [bw |-> <<>>, hz |-> <<>>, delay |-> <<>>]
  BY DEF Init
<1>2. SeenTypes
  BY <1>1, NothingSeen DEF SeenTypes
<1>3. LossInv
  <2>1. [got |-> <<>>, lost |-> 0] \in Losses
    BY EmptySeq DEF Losses
  <2>2. losses \in [Writers -> Losses]
        /\ \A w \in Writers : losses[w] = [got |-> <<>>, lost |-> 0]
    BY <1>1, <2>1 DEF NoLosses
  <2> QED
    BY <1>1, <2>2, NothingLost DEF LossInv
<1> QED
  BY <1>1, <1>2, <1>3, EchoInvInit DEF ReportInv, BwInv, HzInv, DelayInv

LEMMA ReportInvNext ==
    ASSUME ReportInv, Next
    PROVE  ReportInv'
<1>1. EchoInv' /\ EchoTypes
  BY EchoInvNext DEF ReportInv, EchoInv
<1>2. SeenTypes /\ BwInv /\ HzInv /\ DelayInv /\ LossInv
  BY DEF ReportInv
<1> SUFFICES SeenTypes' /\ BwInv' /\ HzInv' /\ DelayInv' /\ LossInv'
  BY <1>1 DEF ReportInv
<1>3. CASE \E t \in Topics : StartBw(t) \/ StartHz(t) \/ StartDelay(t)
  <2>1. echo' = echo /\ losses' = losses
    BY <1>3 DEF StartBw, StartHz, StartDelay, echoVars
  <2> QED
    BY <1>2, <1>3, <2>1, LossUntouched, BwStartKeeps, HzStartKeeps, DelayStartKeeps
<1>4. CASE StopBw \/ StopHz \/ StopDelay
  <2>1. echo' = echo /\ losses' = losses
    BY <1>4 DEF StopBw, StopHz, StopDelay, echoVars
  <2>2. CASE StopBw
    <3>1. bw' = None /\ seen' = seen /\ hz' = hz /\ delay' = delay /\ now' = now
      BY <2>2 DEF StopBw
    <3> QED
      BY <1>2, <2>1, <3>1, LossUntouched DEF SeenTypes, BwInv, HzInv, DelayInv
  <2>3. CASE StopHz
    <3>1. hz' = None /\ seen' = seen /\ bw' = bw /\ delay' = delay /\ now' = now
      BY <2>3 DEF StopHz
    <3> QED
      BY <1>2, <2>1, <3>1, LossUntouched DEF SeenTypes, BwInv, HzInv, DelayInv
  <2>4. CASE StopDelay
    <3>1. delay' = None /\ seen' = seen /\ bw' = bw /\ hz' = hz /\ now' = now
      BY <2>4 DEF StopDelay
    <3> QED
      BY <1>2, <2>1, <3>1, LossUntouched DEF SeenTypes, BwInv, HzInv, DelayInv
  <2> QED
    BY <1>4, <2>2, <2>3, <2>4
<1>5. CASE \E t \in Topics : StartEcho(t)
  <2>1. PICK t \in Topics : StartEcho(t)
    BY <1>5
  <2>2. /\ UNCHANGED <<rateVars, seen, now>> /\ losses' = NoLosses
        /\ echo' = [topic |-> t, seqs |-> [w \in Writers |-> None], frames |-> 0]
    BY <2>1 DEF StartEcho
  <2> QED
    BY <1>2, <2>2, RatesUntouched, LossStarts
<1>6. CASE \E s \in Inputs[input].samples, step \in Inputs[input].steps : Observe(s, step)
  <2>1. PICK s \in Inputs[input].samples, step \in Inputs[input].steps : Observe(s, step)
    BY <1>6
  <2>2. BwInv' /\ HzInv' /\ DelayInv' /\ LossInv'
    BY <1>1, <1>2, <2>1, BwKeeps, HzKeeps, DelayKeeps, LossKeeps
  <2>3. now + step \in Nat
    BY <1>1, <2>1, InputFacts
  <2>4. [s EXCEPT !.at = now + step] \in Samples
    BY <1>1, <2>1, <2>3, Stamped
  <2>5. SeenTypes'
    BY <1>2, <2>1, <2>4, ObserveSeen
  <2> QED
    BY <2>2, <2>5
<1>7. CASE \/ StopEcho \/ Runtime \/ Acceptor
           \/ \E r \in Readers : AcceptStream(r) \/ Connect(r) \/ ReadHeader(r) \/ ReadPayload(r)
                                  \/ ReadTimeout(r) \/ ReaderEnds(r)
  <2>1. /\ UNCHANGED <<rateVars, seen, now>> /\ losses' = losses
        /\ echo' = echo \/ echo' = None
    BY <1>7 DEF StopEcho, Runtime, Joined, WritePart, WriteFails, WriteDone, Acceptor,
                PushStream, AcceptorExit, AcceptStream, Connect, ReadHeader, ReadPayload,
                ReadTimeout, ReaderEnds
  <2> QED
    BY <1>2, <2>1, RatesUntouched, LossUntouched
<1> QED
  BY <1>3, <1>4, <1>5, <1>6, <1>7 DEF Next

LEMMA ReportInvStutter ==
    ASSUME ReportInv, UNCHANGED vars
    PROVE  ReportInv'
<1>1. /\ UNCHANGED <<rateVars, seen, now>> /\ losses' = losses /\ echo' = echo
  BY DEF vars, echoVars
<1>2. SeenTypes' /\ BwInv' /\ HzInv' /\ DelayInv' /\ LossInv'
  BY <1>1, RatesUntouched, LossUntouched DEF ReportInv
<1> QED
  BY <1>2, EchoInvStutter DEF ReportInv

LEMMA ReportInvariant == Spec => []ReportInv
<1>1. Init => ReportInv
  BY ReportInvInit
<1>2. ReportInv /\ [Next]_vars => ReportInv'
  BY ReportInvNext, ReportInvStutter
<1> QED
  BY <1>1, <1>2, PTL DEF Spec

----------------------------------------------------------------------------
(* What the invariant says of the reports.                                 *)

\* The last gaps of a sequence are the gaps of its last elements.
LEMMA LastGaps ==
    ASSUME NEW s \in Seq(Samples), NEW t, OrderedUpTo(s, t), NEW n \in Nat \ {0}
    PROVE  LET last == LastN(s, n + 1)
           IN  /\ last \in Seq(Samples) /\ Gaps(last) \in Seq(Nat)
               /\ LastN(Gaps(s), n) = Gaps(last)
               /\ last # <<>> => Len(Gaps(last)) = Len(last) - 1 /\ Len(last) \in Nat \ {0}
               /\ last = <<>> => Gaps(last) = <<>>
<1> DEFINE last == LastN(s, n + 1)
           g == Gaps(s)
           k == IF Len(s) > n + 1 THEN Len(s) - (n + 1) ELSE 0
           q == LastN(g, n)
           h == Gaps(last)
<1>1. n + 1 \in Nat /\ n \in Nat /\ Len(s) \in Nat
  BY LenProperties
<1>2. /\ last \in Seq(Samples) /\ k \in Nat /\ k <= Len(s) /\ Len(last) = Len(s) - k
      /\ \A i \in 1 .. Len(last) : last[i] = s[k + i] /\ k + i \in 1 .. Len(s)
  BY <1>1, LastNForm
<1> HIDE DEF last, k
<1>3. OrderedUpTo(last, t)
  <2>1. \A i \in 1 .. Len(last) : last[i].at <= t
    BY <1>2 DEF OrderedUpTo
  <2>2. ASSUME NEW i \in 1 .. Len(last) - 1 PROVE last[i].at <= last[i + 1].at
    <3>1. i \in 1 .. Len(last) /\ i + 1 \in 1 .. Len(last)
      BY <1>1, <1>2
    <3>2. last[i] = s[k + i] /\ last[i + 1] = s[(k + i) + 1] /\ k + i \in 1 .. Len(s) - 1
      <4>1. last[i + 1] = s[k + (i + 1)] /\ k + (i + 1) = (k + i) + 1
            /\ k + (i + 1) \in 1 .. Len(s) /\ k + i \in 1 .. Len(s)
        BY <1>2, <3>1
      <4> QED
        BY <1>1, <1>2, <3>1, <4>1
    <3> QED
      BY <3>2 DEF OrderedUpTo
  <2> QED
    BY <2>1, <2>2 DEF OrderedUpTo
<1>4. /\ g \in Seq(Nat) /\ (s = <<>> => g = <<>>)
      /\ (s # <<>> => Len(g) = Len(s) - 1 /\ Len(s) \in Nat \ {0})
      /\ \A i \in 1 .. Len(s) - 1 : g[i] = s[i + 1].at - s[i].at
  BY GapsForm
<1>5. /\ h \in Seq(Nat) /\ (last = <<>> => h = <<>>)
      /\ (last # <<>> => Len(h) = Len(last) - 1 /\ Len(last) \in Nat \ {0})
      /\ \A i \in 1 .. Len(last) - 1 : h[i] = last[i + 1].at - last[i].at
  BY <1>2, <1>3, GapsForm
<1> HIDE DEF g, h
<1>6. q = h
  <2>1. CASE s = <<>>
    <3>1. last = <<>>
      BY <1>1, <2>1, LastNEmpty DEF last
    <3> QED
      BY <1>1, <1>4, <1>5, <2>1, <3>1, LastNEmpty
  <2>2. CASE s # <<>>
    <3>1. Len(s) \in Nat \ {0} /\ Len(g) = Len(s) - 1
      BY <1>4, <2>2
    <3>2. k = IF Len(g) > n THEN Len(g) - n ELSE 0
      BY <1>1, <3>1 DEF k
    <3>3. /\ q \in Seq(Nat) /\ Len(q) = Len(g) - k
          /\ \A i \in 1 .. Len(q) : q[i] = g[k + i] /\ k + i \in 1 .. Len(g)
      BY <1>1, <1>4, <3>2, LastNForm
    <3> HIDE DEF q
    <3>4. Len(last) \in Nat \ {0} /\ Len(h) = Len(last) - 1 /\ Len(q) = Len(last) - 1
      <4>1. k < Len(s)
        BY <1>1, <3>1 DEF k
      <4>2. Len(last) \in Nat \ {0}
        BY <1>2, <3>1, <4>1
      <4>3. last # <<>>
        BY <4>2, EmptySeq
      <4> QED
        BY <1>2, <1>5, <3>1, <3>3, <4>2, <4>3
    <3>5. ASSUME NEW i \in 1 .. Len(q) PROVE q[i] = h[i]
      <4>1. i \in 1 .. Len(last) /\ i + 1 \in 1 .. Len(last) /\ i \in 1 .. Len(last) - 1
        BY <3>4
      <4>2. last[i] = s[k + i] /\ last[i + 1] = s[(k + i) + 1] /\ k + (i + 1) = (k + i) + 1
        BY <1>2, <4>1
      <4>3. q[i] = g[k + i] /\ k + i \in 1 .. Len(s) - 1
        BY <3>1, <3>3
      <4>4. g[k + i] = s[(k + i) + 1].at - s[k + i].at
        BY <1>4, <4>3
      <4>5. h[i] = last[i + 1].at - last[i].at
        BY <1>5, <4>1
      <4> QED
        BY <4>2, <4>3, <4>4, <4>5
    <3> QED
      BY <1>5, <3>3, <3>4, <3>5, SeqEqual
  <2> QED
    BY <2>1, <2>2
<1> QED
  BY <1>2, <1>5, <1>6 DEF last, g, h

LEMMA ShapeHolds ==
    ASSUME ReportInv
    PROVE  TypeOK
<1>1. EchoInv /\ EchoTypes /\ ThreadsLink /\ SeenTypes /\ BwInv /\ HzInv /\ DelayInv
  BY DEF ReportInv, EchoInv
<1>2. Window \in Nat
  BY BoundAssumption
<1>3. bw # None => Len(bw.samples) <= Window
  <2> SUFFICES ASSUME bw # None PROVE Len(bw.samples) <= Window
    OBVIOUS
  <2>1. bw.samples = LastN(Measured(seen.bw), Window) /\ Measured(seen.bw) \in Seq(Measures)
    BY <1>1, MeasuredForm DEF BwInv, SeenTypes
  <2> QED
    BY <1>2, <2>1, LastNForm
<1>4. hz # None => Len(hz.periods) <= Window
  <2> SUFFICES ASSUME hz # None PROVE Len(hz.periods) <= Window
    OBVIOUS
  <2>1. hz.periods = LastN(Gaps(seen.hz), Window) /\ seen.hz \in Seq(Samples)
        /\ OrderedUpTo(seen.hz, now)
    BY <1>1 DEF HzInv, SeenTypes, OrderedUpTo
  <2>2. Gaps(seen.hz) \in Seq(Nat)
    BY <2>1, GapsForm
  <2> QED
    BY <1>2, <2>1, <2>2, LastNForm
<1>5. delay # None => Len(delay.delays) <= Window /\ {delay.missing, delay.mismatch} \subseteq BOOLEAN
  <2> SUFFICES ASSUME delay # None
               PROVE  Len(delay.delays) <= Window /\ {delay.missing, delay.mismatch} \subseteq BOOLEAN
    OBVIOUS
  <2>1. /\ delay \in [topic : Topics, delays : Seq(Nat), missing : BOOLEAN, mismatch : BOOLEAN]
        /\ delay.delays = LastN(Ages(SinceMismatch(seen.delay)), Window)
        /\ seen.delay \in Seq(Samples)
    BY <1>1 DEF DelayInv, SeenTypes
  <2>2. Ages(SinceMismatch(seen.delay)) \in Seq(Nat)
    BY <2>1, SinceMismatchForm, AgesForm
  <2> QED
    BY <1>2, <2>1, <2>2, LastNForm
<1>6. echo # None => echo.topic \in Topics /\ echo.frames \in Nat
  BY <1>1 DEF EchoTypes, EchoSessions
<1>7. IsInjective(connected) /\ ToSet(connected) \subseteq Readers
  BY <1>1, EchoFacts DEF ThreadsLink, QueueExact, Conn
<1>8. ASSUME NEW r \in Readers
      PROVE  /\ streams[r].pc \in {"away", "header", "payload", "done"}
             /\ Len(streams[r].pipe) <= PipeCapacity
             /\ Contains(connected, r) => streams[r].open
  BY <1>1, EchoFacts DEF StreamLink, StreamStates
<1> QED
  BY <1>1, <1>3, <1>4, <1>5, <1>6, <1>7, <1>8 DEF TypeOK, EchoTypes, ThreadsLink

\* bw: the sizes of the last messages.
LEMMA BwExact ==
    ASSUME ReportInv, bw # None, bw.samples # <<>>
    PROVE  LET last == LastN(seen.bw, Window)
           IN  /\ BwStats.count = Len(last)
               /\ BwStats.total = Sum([i \in DOMAIN last |-> last[i].len])
               /\ BwStats.elapsed = Last(last).at - Head(last).at
<1> DEFINE s == seen.bw
           last == LastN(s, Window)
           k == IF Len(s) > Window THEN Len(s) - Window ELSE 0
           q == LastN(Measured(s), Window)
<1>1. bw.samples = q /\ s \in Seq(Samples) /\ Window \in Nat
  BY BoundAssumption DEF ReportInv, BwInv, SeenTypes
<1>2. /\ Measured(s) \in Seq(Measures) /\ Len(Measured(s)) = Len(s)
      /\ \A i \in 1 .. Len(s) : Measured(s)[i] = [at |-> s[i].at, len |-> s[i].len]
  BY <1>1, MeasuredForm
<1>3. /\ last \in Seq(Samples) /\ k \in Nat /\ Len(last) = Len(s) - k /\ Len(s) \in Nat
      /\ DOMAIN last = 1 .. Len(last)
      /\ \A i \in 1 .. Len(last) : last[i] = s[k + i] /\ k + i \in 1 .. Len(s)
  BY <1>1, LastNForm
<1> DEFINE a == Measured(s)
<1>a. a \in Seq(Measures) /\ Len(a) = Len(s)
  BY <1>2
<1> HIDE DEF a
<1>k. k = IF Len(a) > Window THEN Len(a) - Window ELSE 0
  BY <1>a
<1>4. /\ q \in Seq(Measures) /\ Len(q) = Len(s) - k /\ DOMAIN q = 1 .. Len(q)
      /\ \A i \in 1 .. Len(q) : q[i] = a[k + i]
  <2> DEFINE b == LastN(a, Window)
             kb == IF Len(a) > Window THEN Len(a) - Window ELSE 0
  <2>0. /\ b \in Seq(Measures) /\ Len(b) = Len(a) - kb /\ DOMAIN b = 1 .. Len(b)
        /\ \A i \in 1 .. Len(b) : b[i] = a[kb + i]
    BY <1>1, <1>a, LastNForm
  <2> HIDE DEF k, kb
  <2>1. /\ b \in Seq(Measures) /\ Len(b) = Len(a) - k /\ DOMAIN b = 1 .. Len(b)
        /\ \A i \in 1 .. Len(b) : b[i] = a[k + i]
    BY <1>k, <2>0 DEF kb
  <2>2. q = b
    BY DEF a
  <2> HIDE DEF b, q
  <2> QED
    BY <1>a, <2>1, <2>2
<1> HIDE DEF q, last, k, s
<1>5. Len(q) = Len(last) /\ DOMAIN q = DOMAIN last
  BY <1>3, <1>4
<1>6. ASSUME NEW i \in DOMAIN last
      PROVE  q[i].at = last[i].at /\ q[i].len = last[i].len
  <2>1. q[i] = a[k + i] /\ last[i] = s[k + i] /\ k + i \in 1 .. Len(s)
    BY <1>3, <1>4, <1>5
  <2>2. a[k + i] = [at |-> s[k + i].at, len |-> s[k + i].len]
    BY <1>2, <2>1 DEF a
  <2> QED
    BY <2>1, <2>2
<1> DEFINE lens == [i \in DOMAIN q |-> q[i].len]
<1>7. lens = [i \in DOMAIN last |-> last[i].len]
  BY <1>5, <1>6
<1>8. Len(lens) = Len(q)
  BY <1>3, <1>4
<1>9. Len(last) \in 1 .. Len(last) /\ 1 \in 1 .. Len(last)
  <2>1. Len(q) \in Nat /\ Len(q) # 0
    BY <1>1, <1>4, EmptySeq, LenProperties
  <2> QED
    BY <1>5, <2>1
<1>10. Last(q).at = Last(last).at /\ Head(q).at = Head(last).at
  <2>1. Last(q) = q[Len(q)] /\ Last(last) = last[Len(last)]
    BY DEF Last
  <2>2. Head(q) = q[1] /\ Head(last) = last[1]
    BY <1>3, <1>4, <1>5, <1>9, EmptySeq
  <2> QED
    BY <1>3, <1>5, <1>6, <1>9, <2>1, <2>2
<1>11. /\ BwStats.count = Len(lens) /\ BwStats.total = Sum(lens)
       /\ BwStats.elapsed = Last(q).at - Head(q).at
  BY <1>1 DEF BwStats
<1> HIDE DEF lens
<1>12. BwStats.total = Sum([i \in DOMAIN last |-> last[i].len])
  BY <1>7, <1>11
<1> QED
  BY <1>5, <1>8, <1>10, <1>11, <1>12 DEF last, s

\* hz: the gaps between the last messages.
LEMMA HzExact ==
    ASSUME ReportInv, hz # None
    PROVE  LET last == LastN(seen.hz, Window + 1)
           IN  /\ HasHzStats =>
                    /\ HzStats.count = Len(last) - 1
                    /\ HzStats.total = Last(last).at - Head(last).at
                    /\ HzStats.min = Min(ToSet(Gaps(last))) /\ HzStats.max = Max(ToSet(Gaps(last)))
               /\ ~HasHzStats => \A i \in DOMAIN Gaps(last) : Gaps(last)[i] = 0
<1> DEFINE s == seen.hz
           last == LastN(s, Window + 1)
           h == Gaps(last)
<1>1. /\ s \in Seq(Samples) /\ Window \in Nat \ {0} /\ OrderedUpTo(s, now)
      /\ hz.periods = LastN(Gaps(s), Window)
  BY BoundAssumption DEF ReportInv, HzInv, SeenTypes, OrderedUpTo
<1>2. /\ last \in Seq(Samples) /\ h \in Seq(Nat) /\ hz.periods = h
      /\ last # <<>> => Len(h) = Len(last) - 1 /\ Len(last) \in Nat \ {0}
      /\ last = <<>> => h = <<>>
  BY <1>1, LastGaps
<1>d. DOMAIN h = 1 .. Len(h)
  BY <1>2, LenProperties
<1>f. \A i \in 1 .. Len(last) - 1 : h[i] = last[i + 1].at - last[i].at
  BY DEF Gaps
<1> HIDE DEF last, h
<1>3. ASSUME HasHzStats
      PROVE  /\ HzStats.count = Len(last) - 1
             /\ HzStats.total = Last(last).at - Head(last).at
             /\ HzStats.min = Min(ToSet(h)) /\ HzStats.max = Max(ToSet(h))
  <2>1. h # <<>> /\ last # <<>>
    BY <1>2, <1>3 DEF HasHzStats
  <2> DEFINE N == Len(h)
             f == [i \in 1 .. N + 1 |-> last[i].at]
  <2>2. N \in Nat /\ Len(last) = N + 1 /\ h \in Seq(Int)
    BY <1>2, <2>1, LenProperties
  <2>3. \A i \in 1 .. N + 1 : f[i] = last[i].at /\ f[i] \in Int
    <3>1. \A i \in 1 .. Len(last) : last[i] \in Samples
      BY <1>2, ElementOfSeq
    <3>2. \A y \in Samples : y.at \in Int
      BY DEF Samples
    <3> QED
      BY <2>2, <3>1, <3>2
  <2>4. ASSUME NEW i \in 1 .. N PROVE h[i] = f[i + 1] - f[i]
    <3>1. i \in 1 .. N + 1 /\ i + 1 \in 1 .. N + 1 /\ i \in 1 .. Len(last) - 1
      BY <2>2
    <3> HIDE DEF f, N
    <3> QED
      BY <1>f, <2>3, <3>1
  <2> HIDE DEF f, N
  <2>5. Sum(h) = f[N + 1] - f[1]
    <3>1. Len(h) = N
      BY DEF N
    <3> QED
      BY <2>2, <2>3, <2>4, <3>1, SumTelescopes
  <2>6. f[N + 1] = last[Len(last)].at /\ f[1] = last[1].at
    BY <2>2, <2>3
  <2>7. Last(last) = last[Len(last)] /\ Head(last) = last[1]
    BY <1>2, <2>1 DEF Last
  <2>8. HzStats.count = N /\ HzStats.total = Sum(h)
        /\ HzStats.min = Min(ToSet(h)) /\ HzStats.max = Max(ToSet(h))
    BY <1>2 DEF HzStats, N, Least, Greatest
  <2>9. N = Len(last) - 1
    BY <2>2
  <2> QED
    BY <2>5, <2>6, <2>7, <2>8, <2>9
<1>4. ASSUME ~HasHzStats
      PROVE  \A i \in DOMAIN h : h[i] = 0
  <2>1. CASE h = <<>>
    <3>1. DOMAIN h = {}
      BY <1>d, <2>1, EmptySeq
    <3> QED
      BY <3>1
  <2>2. CASE h # <<>>
    <3>1. ~(Sum(h) > 0)
      BY <1>2, <1>4, <2>2 DEF HasHzStats
    <3> QED
      BY <1>2, <1>d, <3>1, SumOfNaturals
  <2> QED
    BY <2>1, <2>2
<1> QED
  BY <1>3, <1>4 DEF last, h, s

\* delay: the ages of the last comparable messages.
LEMMA DelayExact ==
    ASSUME ReportInv, delay # None
    PROVE  LET last == LastN(SinceMismatch(seen.delay), Window)
           IN  /\ delay.delays = [i \in DOMAIN last |-> Distance(last[i].age)]
               /\ delay.mismatch => delay.delays = <<>>
               /\ delay.missing <=> \E i \in DOMAIN seen.delay : seen.delay[i].header = "none"
<1> DEFINE s == SinceMismatch(seen.delay)
           last == LastN(s, Window)
           k == IF Len(s) > Window THEN Len(s) - Window ELSE 0
           q == LastN(Ages(s), Window)
<1>1. /\ delay.delays = q /\ (delay.mismatch => delay.delays = <<>>)
      /\ delay.missing <=> \E i \in 1 .. Len(seen.delay) : seen.delay[i].header = "none"
      /\ seen.delay \in Seq(Samples) /\ Window \in Nat
  BY BoundAssumption DEF ReportInv, DelayInv, SeenTypes
<1>2. DOMAIN seen.delay = 1 .. Len(seen.delay) /\ s \in Seq(Samples)
  BY <1>1, SinceMismatchForm, LenProperties
<1> HIDE DEF s
<1>3. /\ Ages(s) \in Seq(Nat) /\ Len(Ages(s)) = Len(s)
      /\ \A i \in 1 .. Len(s) : Ages(s)[i] = Distance(s[i].age)
  BY <1>2, AgesForm
<1>4. /\ last \in Seq(Samples) /\ k \in Nat /\ Len(last) = Len(s) - k
      /\ DOMAIN last = 1 .. Len(last)
      /\ \A i \in 1 .. Len(last) : last[i] = s[k + i] /\ k + i \in 1 .. Len(s)
  BY <1>1, <1>2, LastNForm
<1> DEFINE a == Ages(s)
<1>a. a \in Seq(Nat) /\ Len(a) = Len(s)
  BY <1>3
<1> HIDE DEF a
<1>k. k = IF Len(a) > Window THEN Len(a) - Window ELSE 0
  BY <1>a
<1>5. /\ q \in Seq(Nat) /\ Len(q) = Len(s) - k /\ DOMAIN q = 1 .. Len(q)
      /\ \A i \in 1 .. Len(q) : q[i] = a[k + i]
  <2> DEFINE b == LastN(a, Window)
             kb == IF Len(a) > Window THEN Len(a) - Window ELSE 0
  <2>0. /\ b \in Seq(Nat) /\ Len(b) = Len(a) - kb /\ DOMAIN b = 1 .. Len(b)
        /\ \A i \in 1 .. Len(b) : b[i] = a[kb + i]
    BY <1>1, <1>a, LastNForm
  <2> HIDE DEF k, kb
  <2>1. /\ b \in Seq(Nat) /\ Len(b) = Len(a) - k /\ DOMAIN b = 1 .. Len(b)
        /\ \A i \in 1 .. Len(b) : b[i] = a[k + i]
    BY <1>k, <2>0 DEF kb
  <2>2. q = b
    BY DEF a
  <2> HIDE DEF b, q
  <2> QED
    BY <1>a, <2>1, <2>2
<1> HIDE DEF q, last, k
<1>6. q = [i \in DOMAIN last |-> Distance(last[i].age)]
  <2>1. DOMAIN q = DOMAIN last /\ \A i \in DOMAIN last : q[i] = Distance(last[i].age)
    BY <1>3, <1>4, <1>5 DEF a
  <2>2. q = [i \in DOMAIN q |-> q[i]]
    BY <1>5
  <2> QED
    BY <2>1, <2>2
<1> QED
  BY <1>1, <1>2, <1>6 DEF last, s

\* What hz, bw, delay and echo tell their user is true of the messages that
\* arrived since the session started, for any window and any arrivals.
THEOREM ReportsStayTrue == Spec => []ReportsTrue
<1>1. ReportInv => StatsExact
  BY BwExact, HzExact, DelayExact DEF StatsExact
<1>2. ReportInv => LossReported
  BY DEF ReportInv, LossInv, LossOk, LossReported
<1>3. ReportInv => ReportsTrue
  BY <1>1, <1>2, ShapeHolds DEF ReportsTrue
<1> QED
  BY <1>3, ReportInvariant, PTL

----------------------------------------------------------------------------
(* The shadow subscribers.                                                  *)

\* Only user topics are wanted: the topics of service endpoints drop out.
LEMMA ShmTopicsTyped == \A pubs, parts : ShmTopics(pubs, parts) \subseteq UserTopics
BY ShadowAssumptions DEF ShmTopics

\* A synchronisation leaves wanted subscribers only, all of them unless a
\* spawn failed, and counts its failures.
LEMMA SyncEffect ==
    ASSUME SubsTypeOK, SyncShadowSubs
    PROVE  /\ shadow' \subseteq WantedShadows'
           /\ behind' \in BOOLEAN
           /\ ~behind' => shadow' = WantedShadows'
           /\ faults' \in 0 .. MaxFaults
<1>1. PICK failed \in SUBSET (WantedShadows' \ shadow) :
          /\ faults + Cardinality(failed) <= MaxFaults
          /\ faults' = faults + Cardinality(failed)
          /\ shadow' = (shadow \cup (WantedShadows' \ failed)) \cap WantedShadows'
          /\ behind' = (failed # {})
  BY Zenon DEF SyncShadowSubs
<1>2. WantedShadows' \subseteq UserTopics
  BY ShmTopicsTyped DEF WantedShadows
<1>3. Cardinality(failed) \in Nat
  <2>1. failed \subseteq UserTopics
    BY <1>2
  <2> QED
    BY <2>1, ShadowAssumptions, FS_Subset, FS_CardinalityType
<1>4. faults' \in 0 .. MaxFaults
  BY <1>1, <1>3, ShadowAssumptions DEF SubsTypeOK
<1> HIDE DEF WantedShadows
<1> QED
  BY <1>1, <1>4

\* The handlers keep the table, the sessions and the subscribers well-formed.
THEOREM SubsTypeCorrect == SubsSpec => []SubsTypeOK
<1>1. SubsInit => SubsTypeOK
  <2> SUFFICES ASSUME SubsInit PROVE SubsTypeOK
    OBVIOUS
  <2>1. observing \in [Observers -> UserTopics \cup {NoTopic}]
    BY DEF SubsInit
  <2>2. faults \in 0 .. MaxFaults
    BY ShadowAssumptions DEF SubsInit
  <2> QED
    BY <2>1, <2>2 DEF SubsInit, SubsTypeOK
<1>2. SubsTypeOK /\ [SubsNext]_subsVars => SubsTypeOK'
  <2> SUFFICES ASSUME SubsTypeOK, [SubsNext]_subsVars PROVE SubsTypeOK'
    OBVIOUS
  <2> USE ShadowAssumptions
  <2>1. ASSUME SyncShadowSubs
        PROVE  shadow' \subseteq UserTopics /\ behind' \in BOOLEAN /\ faults' \in 0 .. MaxFaults
    <3>1. WantedShadows' \subseteq UserTopics
      BY ShmTopicsTyped DEF WantedShadows
    <3> QED
      BY <2>1, <3>1, SyncEffect
  <2>2. ASSUME NEW topics \in SUBSET UserTopics, BagRecord(topics) PROVE SubsTypeOK'
    BY <2>1, <2>2 DEF BagRecord, SessionCommand, discVars, SubsTypeOK
  <2>3. CASE BagStop
    BY <2>1, <2>3 DEF BagStop, SessionCommand, discVars, SubsTypeOK
  <2>4. ASSUME NEW o \in Observers, NEW t \in UserTopics, ObserverStart(o, t) PROVE SubsTypeOK'
    BY <2>1, <2>4 DEF ObserverStart, SessionCommand, discVars, SubsTypeOK
  <2>5. ASSUME NEW o \in Observers, ObserverStop(o) PROVE SubsTypeOK'
    BY <2>1, <2>5 DEF ObserverStop, SessionCommand, discVars, SubsTypeOK
  <2>6. CASE \E p \in Participants : Spdp(p) \/ DisposeParticipant(p)
    BY <2>6 DEF Spdp, DisposeParticipant, DiscoveryOnly, sessionVars, SubsTypeOK
  <2>7. CASE \E e \in Endpoints : Sedp(e) \/ DisposeEndpoint(e)
    BY <2>7 DEF Sedp, DisposeEndpoint, DiscoveryOnly, sessionVars, SubsTypeOK
  <2>8. CASE SweepTick
    BY <2>8 DEF SweepTick, discVars, sessionVars, SubsTypeOK
  <2>9. ASSUME NEW parts \in SUBSET Participants, NEW ends \in SUBSET Endpoints,
               NEW zenoh \in BOOLEAN, Sweep(parts, ends, zenoh)
        PROVE  SubsTypeOK'
    <3>1. shadow' \subseteq UserTopics /\ behind' \in BOOLEAN /\ faults' \in 0 .. MaxFaults
      BY <2>1, <2>9 DEF Sweep, SubsTypeOK
    <3> QED
      BY <2>9, <3>1 DEF Sweep, sessionVars, SubsTypeOK
  <2>10. CASE UNCHANGED subsVars
    BY <2>10 DEF subsVars, discVars, sessionVars, SubsTypeOK
  <2> QED
    BY <2>2, <2>3, <2>4, <2>5, <2>6, <2>7, <2>8, <2>9, <2>10 DEF SubsNext, SweepStep
<1> QED
  BY <1>1, <1>2, PTL DEF SubsSpec

----------------------------------------------------------------------------
(* Both properties are inductive with the type invariant: every command    *)
(* and every sweep that changes something synchronises, and what discovery *)
(* events change meanwhile is neither the sessions nor the subscribers.    *)

ShadowInv == ShadowsAreObserved /\ ShadowsExact

\* After a synchronisation the subscribers are what the sessions ask for.
LEMMA SyncEstablishes ==
    ASSUME SubsTypeOK, SyncShadowSubs PROVE ShadowInv'
<1>1. /\ shadow' \subseteq WantedShadows'
      /\ ~behind' => shadow' = WantedShadows'
  BY SyncEffect
<1>2. ~AllTopics' => WantedShadows' \subseteq Candidates'
  BY DEF WantedShadows
<1> QED
  BY <1>1, <1>2 DEF ShadowInv, ShadowsAreObserved, ShadowsExact

\* Every step preserves the two properties.
LEMMA ShadowInvStep == SubsTypeOK /\ ShadowInv /\ [SubsNext]_subsVars => ShadowInv'
<1> SUFFICES ASSUME SubsTypeOK, ShadowInv, [SubsNext]_subsVars PROVE ShadowInv'
  OBVIOUS
<1>1. CASE SyncShadowSubs
  BY <1>1, SyncEstablishes
<1>2. CASE DiscoveryOnly
  BY <1>2 DEF DiscoveryOnly, sessionVars, ShadowInv, ShadowsAreObserved, ShadowsExact,
              AllTopics, Candidates, Observed
<1>3. CASE UNCHANGED <<discVars, sessionVars, shadow, behind>>
  BY <1>3 DEF discVars, sessionVars, ShadowInv, ShadowsAreObserved, ShadowsExact,
              AllTopics, Candidates, Observed, WantedShadows
<1>4. CASE \E topics \in SUBSET UserTopics : BagRecord(topics)
  BY <1>1, <1>4 DEF BagRecord, SessionCommand
<1>5. CASE BagStop
  BY <1>1, <1>5 DEF BagStop, SessionCommand
<1>6. CASE \E o \in Observers : ObserverStop(o) \/ \E t \in UserTopics : ObserverStart(o, t)
  BY <1>1, <1>6 DEF ObserverStart, ObserverStop, SessionCommand
<1>7. CASE \E p \in Participants : Spdp(p) \/ DisposeParticipant(p)
  BY <1>2, <1>7 DEF Spdp, DisposeParticipant
<1>8. CASE \E e \in Endpoints : Sedp(e) \/ DisposeEndpoint(e)
  BY <1>2, <1>8 DEF Sedp, DisposeEndpoint
<1>9. CASE SweepTick
  BY <1>3, <1>9 DEF SweepTick
<1>10. ASSUME NEW parts \in SUBSET Participants, NEW ends \in SUBSET Endpoints,
              NEW zenoh \in BOOLEAN, Sweep(parts, ends, zenoh)
       PROVE  ShadowInv'
  <2>1. CASE parts \cup ends # {} \/ zenoh
    BY <1>1, <1>10, <2>1 DEF Sweep
  <2>2. CASE parts \cup ends = {} /\ ~zenoh
    <3>1. UNCHANGED <<discVars, sessionVars, shadow, behind>>
      BY <1>10, <2>2 DEF Sweep, discVars
    <3> QED
      BY <1>3, <3>1
  <2> QED
    BY <2>1, <2>2
<1>11. CASE UNCHANGED subsVars
  BY <1>3, <1>11 DEF subsVars
<1> QED
  BY <1>4, <1>5, <1>6, <1>7, <1>8, <1>9, <1>10, <1>11 DEF SubsNext, SweepStep

\* The two properties hold in every reachable state.
LEMMA ShadowInvariant == SubsSpec => []ShadowInv
<1>1. SubsInit => ShadowInv
  BY DEF SubsInit, ShadowInv, ShadowsAreObserved, ShadowsExact, WantedShadows, ShmTopics
<1> QED
  BY <1>1, SubsTypeCorrect, ShadowInvStep, PTL DEF SubsSpec

\* A helper process never outlives the sessions that ask for its topic.
THEOREM NoHelperWithoutSession == SubsSpec => []ShadowsAreObserved
<1>1. ShadowInv => ShadowsAreObserved
  BY DEF ShadowInv
<1> QED
  BY <1>1, ShadowInvariant, PTL

\* Until discovery changes or a spawn fails, the helper processes are exactly
\* the ones that the sessions and the discovery table call for.
THEOREM HelpersAreExact == SubsSpec => []ShadowsExact
<1>1. ShadowInv => ShadowsExact
  BY DEF ShadowInv
<1> QED
  BY <1>1, ShadowInvariant, PTL
=============================================================================
