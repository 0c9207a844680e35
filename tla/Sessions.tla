------------------------------ MODULE Sessions ------------------------------
(* The observation sessions of the runtime and everyone who starts and      *)
(* stops them.  There is one session of each kind and it has no owner: the  *)
(* command line tools (cli/topic, cli/bag) and the pages of the GUI         *)
(* (gui/topic_monitor.rs, gui/bag_recorder.rs) start, poll and stop it      *)
(* through the command server (command/server.rs), whose threads pass each  *)
(* request to the runtime (runtime/command.rs) and wait for its reply, but  *)
(* not for ever.  What the sessions measure is in Observers.                *)
EXTENDS Naturals, Sequences, FiniteSets, SequencesExt

CONSTANTS Topics,
  Relative,      \* the topic names that do not start with '/'
  Clients,       \* command line processes,
  Kind, Topic,   \*   the kind of session each runs and the topic it names
  Monitor,       \* the worker thread of the Topic Monitor page
  Recorder,      \* the worker thread of the Bag Recorder page
  Scenarios,     \* to choose one from: who takes part, how often users act
                 \* (a bound) and which faults strike, each at most once
  Slots,         \* places for connections; more than are ever needed
  MaxInFlight,   \* MAX_CONCURRENT_CLIENTS
  MaxEvents,     \* bound on events a page has not drained
  None

ASSUME BoundAssumption == MaxInFlight \in Nat \ {0}

Kinds == {"hz", "bw", "delay", "echo", "bag"}
Faults == {"timeout", "giveup", "kill", "busy"}

VARIABLES
  scenario,   \* [procs, inputs, faults]
  faults,     \* the faults that have struck
  inputs,     \* user inputs so far
  conns,      \* [Slots -> connection or None]
  inFlight,   \* in_flight
  queue,      \* runtime_command_tx/rx: [slot, req], slot None once abandoned
  sessions,   \* [Kinds -> session or None]
  wanted,     \* the topics sync_filter_and_shadow was last called with
  phase,      \* [Clients -> where a command line process is]
  paused,     \* [Clients -> wait_for_controls' paused]
  ui,         \* TopicMonitorPage: selected_topic, echo_enabled, state
  inbox,      \* MonitorCommands not yet taken
  events,     \* MonitorEvents not yet drained
  worker,     \* monitor_worker: requests to make, active_topic, echo_enabled
  page        \* BagRecorderPage and recorder_worker

serverVars == <<conns, inFlight, queue>>
runtimeVars == <<sessions, wanted>>
clientVars == <<phase, paused>>
monitorVars == <<ui, inbox, events, worker>>
vars == <<scenario, faults, inputs, serverVars, runtimeVars, clientVars,
          monitorVars, page>>

Request(op, kind, topic, flag) ==
  [op |-> op, kind |-> kind, topic |-> topic, flag |-> flag]
Start(kind, topic) == Request("start", kind, topic, FALSE)
Stop(kind) == Request("stop", kind, None, FALSE)
Status(kind) == Request("status", kind, None, FALSE)
Reply(outcome, val) == [outcome |-> outcome, val |-> val]
Error == Reply("error", None)
Failed == Reply("failed", None)

Init ==
  /\ scenario \in Scenarios
  /\ faults = {} /\ inputs = 0
  /\ conns = [s \in Slots |-> None] /\ inFlight = 0 /\ queue = <<>>
  /\ sessions = [k \in Kinds |-> None] /\ wanted = {}
  /\ phase = [c \in Clients |-> "absent"]
  /\ paused = [c \in Clients |-> FALSE]
  /\ ui = [selected |-> None, echo |-> FALSE, panel |-> {}]
  /\ inbox = <<>> /\ events = <<>>
  /\ worker = [todo |-> <<>>, active |-> None, echo |-> FALSE, okay |-> TRUE]
  /\ page = [shown |-> None, inbox |-> <<>>, events |-> <<>>, pc |-> "recv"]

Strikes(f) ==
  /\ f \in scenario.faults \ faults
  /\ faults' = faults \cup {f}

-----------------------------------------------------------------------------
(* send_request: connect, write the request, wait for the answer.           *)

Calls(p) == {s \in Slots : conns[s] # None /\ conns[s].owner = p}

Issue(p, req) ==
  /\ Calls(p) = {}
  /\ \E s \in Slots : conns[s] = None
  /\ LET s == CHOOSE s \in Slots : conns[s] = None
     IN  conns' = [conns EXCEPT ![s] =
           [stage |-> "connected", owner |-> p, req |-> req, reply |-> None]]

(* A client that leaves: an answered connection closes, a handler goes on.  *)
Abandon(p) ==
  [s \in Slots |-> IF s \notin Calls(p) THEN conns[s]
                   ELSE IF conns[s].stage = "answered" THEN None
                   ELSE [conns[s] EXCEPT !.owner = None]]

(* The call of p ends with `out`: the answer, or the 15 s read timeout.     *)
Returns(p, out) ==
  \/ \E s \in Calls(p) :
       /\ conns[s].stage = "answered"
       /\ out = conns[s].reply
       /\ conns' = [conns EXCEPT ![s] = None]
       /\ UNCHANGED faults
  \/ /\ \E s \in Calls(p) : conns[s].stage # "answered"
     /\ out = Failed
     /\ Strikes("giveup")
     /\ conns' = Abandon(p)

Answers(p) == {conns[s].reply : s \in Calls(p)} \cup {Failed}

-----------------------------------------------------------------------------
(* The command server.                                                      *)

(* The connection after the handler has written the response.               *)
Written(s, reply) ==
  IF conns[s].owner = None THEN None
  ELSE [conns[s] EXCEPT !.stage = "answered", !.reply = reply]

(* The accept thread admits a connection or tells it the server is busy, in *)
(* which case the client may find the socket closed before it has written.  *)
Accept(s) ==
  /\ conns[s] # None /\ conns[s].stage = "connected"
  /\ \/ /\ inFlight < MaxInFlight
        /\ inFlight' = inFlight + 1
        /\ conns' = [conns EXCEPT ![s].stage = "reading"]
        /\ UNCHANGED faults
     \/ /\ inFlight >= MaxInFlight
        /\ \E busy \in {Error, Failed} : conns' = [conns EXCEPT ![s] = Written(s, busy)]
        /\ faults' = faults \cup {"busy"}
        /\ UNCHANGED inFlight
  /\ UNCHANGED <<scenario, inputs, queue, runtimeVars, clientVars, monitorVars, page>>

(* Mutant: a request that cannot be read leaves in_flight as it was.        *)
HandleClientLeaks(s) ==
  /\ conns[s] # None /\ conns[s].stage = "reading"
  /\ \/ /\ conns' = [conns EXCEPT ![s].stage = "waiting"]
        /\ queue' = Append(queue, [slot |-> s, req |-> conns[s].req])
     \/ /\ conns[s].owner = None
        /\ conns' = [conns EXCEPT ![s] = None]
        /\ UNCHANGED queue
  /\ UNCHANGED <<scenario, faults, inputs, inFlight, runtimeVars, clientVars, monitorVars, page>>

(* handle_client: the request is read and handed to the runtime; a client   *)
(* that has gone may have sent only part of it.                             *)
HandleClient(s) ==
  /\ conns[s] # None /\ conns[s].stage = "reading"
  /\ \/ /\ conns' = [conns EXCEPT ![s].stage = "waiting"]
        /\ queue' = Append(queue, [slot |-> s, req |-> conns[s].req])
        /\ UNCHANGED inFlight
     \/ /\ conns[s].owner = None
        /\ conns' = [conns EXCEPT ![s] = None]
        /\ inFlight' = inFlight - 1
        /\ UNCHANGED queue
  /\ UNCHANGED <<scenario, faults, inputs, runtimeVars, clientVars, monitorVars, page>>

(* recv_timeout expires: the client is told so, but the command stays in    *)
(* the runtime's channel.                                                   *)
CommandTimeout(s) ==
  /\ conns[s] # None /\ conns[s].stage = "waiting"
  /\ Strikes("timeout")
  /\ conns' = [conns EXCEPT ![s].stage = "replied", ![s].reply = Error]
  /\ queue' = [i \in DOMAIN queue |->
       IF queue[i].slot = s THEN [queue[i] EXCEPT !.slot = None] ELSE queue[i]]
  /\ UNCHANGED <<scenario, inputs, inFlight, runtimeVars, clientVars, monitorVars, page>>

Respond(s) ==
  /\ conns[s] # None /\ conns[s].stage = "replied"
  /\ conns' = [conns EXCEPT ![s] = Written(s, conns[s].reply)]
  /\ inFlight' = inFlight - 1
  /\ UNCHANGED <<scenario, faults, inputs, queue, runtimeVars, clientVars, monitorVars, page>>

-----------------------------------------------------------------------------
(* The runtime.                                                             *)

Active(ss) == {k \in Kinds : ss[k] # None}
ObservedTopics(ss) == {ss[k].topic : k \in Active(ss)}

(* hz_, bw_, delay_, echo_start_session and handle_bag_record_command.      *)
Refused(req) ==
  \/ sessions[req.kind] # None
  \/ req.kind # "bag" /\ req.topic \in Relative

(* Starting the acceptor or the recorder, and stopping the recorder, can    *)
(* fail; the recording is over in any case.                                 *)
MayFail(req) ==
  \/ req.op = "start" /\ req.kind \in {"echo", "bag"}
  \/ req.op = "stop" /\ req.kind = "bag" /\ sessions["bag"] # None

(* The sessions after a command.                                            *)
SessionsAfter(req, fails) ==
  CASE req.op = "start" /\ ~Refused(req) /\ ~fails ->
         [sessions EXCEPT ![req.kind] = [topic |-> req.topic, flag |-> req.flag]]
    [] req.op = "stop" -> [sessions EXCEPT ![req.kind] = None]
    [] req.op = "pause" /\ sessions["bag"] # None ->
         [sessions EXCEPT !["bag"].flag = req.flag]
    [] OTHER -> sessions

(* Its reply; a status of the panel is the sessions of hz, bw and delay.    *)
ReplyTo(req, fails) ==
  CASE req.op = "start" /\ (Refused(req) \/ fails) -> Error
    [] req.op = "stop" /\ fails -> Error
    [] req.op = "stop" /\ ~fails -> Reply("ok", None)
    [] req.op = "status" /\ req.kind = "panel" ->
         Reply("ok", [k \in {"hz", "bw", "delay"} |-> sessions[k]])
    [] OTHER -> Reply("ok", SessionsAfter(req, fails)[req.kind])

(* A start that succeeds and every stop end with sync_filter_and_shadow.    *)
Syncs(req, fails) ==
  \/ req.op = "stop"
  \/ req.op = "start" /\ ~Refused(req) /\ ~fails

(* The reply channel, if the handler still holds its end.                   *)
SendReply(slot, reply) ==
  IF slot = None THEN conns
  ELSE [conns EXCEPT ![slot].stage = "replied", ![slot].reply = reply]

(* Mutant: a command whose handler has given up is skipped.                 *)
HandleCommandInTime ==
  /\ queue # <<>>
  /\ LET req == Head(queue).req
     IN  IF Head(queue).slot = None THEN UNCHANGED <<sessions, wanted, conns>>
         ELSE \E fails \in IF MayFail(req) THEN BOOLEAN ELSE {FALSE} :
                /\ sessions' = SessionsAfter(req, fails)
                /\ wanted' = IF Syncs(req, fails) THEN ObservedTopics(sessions') ELSE wanted
                /\ conns' = SendReply(Head(queue).slot, ReplyTo(req, fails))
  /\ queue' = Tail(queue)
  /\ UNCHANGED <<scenario, faults, inputs, inFlight, clientVars, monitorVars, page>>

HandleRuntimeCommand ==
  /\ queue # <<>>
  /\ LET req == Head(queue).req
     IN  \E fails \in IF MayFail(req) THEN BOOLEAN ELSE {FALSE} :
           /\ sessions' = SessionsAfter(req, fails)
           /\ wanted' = IF Syncs(req, fails) THEN ObservedTopics(sessions') ELSE wanted
           /\ conns' = SendReply(Head(queue).slot, ReplyTo(req, fails))
  /\ queue' = Tail(queue)
  /\ UNCHANGED <<scenario, faults, inputs, inFlight, clientVars, monitorVars, page>>

(* delay_observe_payload: a sample of the topic without a usable stamp.     *)
DelayFlag ==
  /\ sessions["delay"] # None
  /\ sessions' = [sessions EXCEPT !["delay"].flag = TRUE]
  /\ UNCHANGED <<scenario, faults, inputs, serverVars, wanted, clientVars, monitorVars, page>>

-----------------------------------------------------------------------------
(* Command line processes.                                                  *)

ClientStart(c) ==
  /\ c \in scenario.procs /\ phase[c] = "absent"
  /\ Issue(c, Start(Kind[c], Topic[c]))
  /\ phase' = [phase EXCEPT ![c] = "starting"]
  /\ UNCHANGED <<scenario, faults, inputs, inFlight, queue, runtimeVars, paused, monitorVars, page>>

(* One tick of wait_for_samples or wait_for_stats.                          *)
ClientPoll(c) ==
  /\ phase[c] = "watching" /\ Kind[c] \in {"hz", "bw", "delay"}
  /\ Issue(c, Status(Kind[c]))
  /\ phase' = [phase EXCEPT ![c] = "polling"]
  /\ UNCHANGED <<scenario, faults, inputs, inFlight, queue, runtimeVars, paused, monitorVars, page>>

(* wait_for_controls: the space bar.                                        *)
ClientPause(c) ==
  /\ phase[c] = "watching" /\ Kind[c] = "bag"
  /\ inputs < scenario.inputs /\ inputs' = inputs + 1
  /\ Issue(c, Request("pause", "bag", None, ~paused[c]))
  /\ phase' = [phase EXCEPT ![c] = "pausing"]
  /\ UNCHANGED <<scenario, faults, inFlight, queue, runtimeVars, paused, monitorVars, page>>

(* Ctrl-C, or for echo the end of the stream; or the wait loop has ended.   *)
ClientStop(c) ==
  /\ phase[c] \in {"watching", "leaving"}
  /\ Issue(c, Stop(Kind[c]))
  /\ phase' = [phase EXCEPT ![c] = "stopping"]
  /\ UNCHANGED <<scenario, faults, inputs, inFlight, queue, runtimeVars, paused, monitorVars, page>>

(* Mutant: the end of the wait loop ends the process.                       *)
PhaseAfterExits(c, out) ==
  IF phase[c] # "stopping" /\ out.outcome = "ok" /\ out.val # None
     /\ (Kind[c] = "delay" => ~out.val.flag)
  THEN "watching" ELSE "gone"

(* Where an answer takes a process: hz and bw exit when a poll fails, delay *)
(* ends its wait loop and stops the session whatever came.  (Echo asks for  *)
(* the type of its topic before it starts; the query changes nothing.)      *)
PhaseAfter(c, out) ==
  CASE phase[c] = "starting" -> IF out.outcome = "ok" THEN "watching" ELSE "gone"
    [] phase[c] = "polling" /\ Kind[c] = "delay" ->
         IF out.outcome = "ok" /\ out.val # None /\ ~out.val.flag
         THEN "watching" ELSE "leaving"
    [] phase[c] = "polling" /\ Kind[c] # "delay" ->
         IF out.outcome = "ok" THEN "watching" ELSE "gone"
    [] phase[c] = "pausing" ->
         IF out.outcome = "ok" /\ out.val # None THEN "watching" ELSE "gone"
    [] phase[c] = "stopping" -> "gone"

(* Echo was not told the type of its topic, and finds out only now that the *)
(* session runs: it exits without stopping it (cli/topic/echo.rs:80).       *)
LacksType(c, out) ==
  phase[c] = "starting" /\ Kind[c] = "echo" /\ out.outcome = "ok"

ClientReturn(c) ==
  \E out \in Answers(c) :
    /\ Returns(c, out)
    /\ \/ phase' = [phase EXCEPT ![c] = PhaseAfter(c, out)]
       \/ LacksType(c, out) /\ phase' = [phase EXCEPT ![c] = "untyped"]
    /\ paused' = IF phase[c] \in {"starting", "pausing"} /\ phase'[c] = "watching"
                 THEN [paused EXCEPT ![c] = out.val.flag]
                 ELSE paused
    /\ UNCHANGED <<scenario, inputs, inFlight, queue, runtimeVars, monitorVars, page>>

Running(c) == phase[c] \notin {"absent", "untyped", "gone"}

Kill(c) ==
  /\ Running(c)
  /\ Strikes("kill")
  /\ phase' = [phase EXCEPT ![c] = "gone"]
  /\ conns' = Abandon(c)
  /\ UNCHANGED <<scenario, inputs, inFlight, queue, runtimeVars, paused, monitorVars, page>>

-----------------------------------------------------------------------------
(* The Topic Monitor page: what the user does, ...                          *)

Input(commands) ==
  /\ Monitor \in scenario.procs
  /\ inputs < scenario.inputs /\ inputs' = inputs + 1
  /\ inbox' = inbox \o commands
  /\ UNCHANGED <<scenario, faults, serverVars, runtimeVars, clientVars, events, worker, page>>

Command(name, arg) == [name |-> name, arg |-> arg]

(* topic_btn, or a click on the topic in the graph.                         *)
ClickTopic(t) ==
  LET deselects == ui.selected = t
  IN  /\ Input(<<IF deselects THEN Command("deselect", None) ELSE Command("select", t)>>)
      /\ ui' = [ui EXCEPT !.selected = IF deselects THEN None ELSE t, !.panel = {}]

ToggleEcho ==
  /\ ui.selected # None
  /\ Input(<<Command("echo", ~ui.echo)>>)
  /\ ui' = [ui EXCEPT !.echo = ~ui.echo]

ChangeWindow ==
  /\ ui.selected # None
  /\ Input(<<Command("window", None)>>)
  /\ UNCHANGED ui

PauseForLeave ==
  /\ ui.selected # None \/ ui.echo
  /\ Input(<<Command("echo", FALSE), Command("deselect", None)>>)
  /\ ui' = [selected |-> None, echo |-> FALSE, panel |-> {}]

DrainEvents ==
  /\ events # <<>>
  /\ ui' = [ui EXCEPT !.panel = Last(events)]
  /\ events' = <<>>
  /\ UNCHANGED <<scenario, faults, inputs, serverVars, runtimeVars, clientVars, inbox, worker, page>>

(* ... and what its worker does with it.                                    *)
StopSessions == <<Stop("hz"), Stop("bw"), Stop("delay")>>
Settle(topic) == Request("settle", "panel", topic, FALSE)

StartSessions(t) ==
  StopSessions \o <<Start("hz", t), Start("bw", t), Start("delay", t), Settle(t)>>

Todo(cmd) ==
  CASE cmd.name = "select" -> <<Stop("echo")>> \o StartSessions(cmd.arg)
    [] cmd.name = "window" -> IF worker.active = None THEN <<>>
                              ELSE <<Stop("echo")>> \o StopSessions
                                     \o StartSessions(worker.active)
    [] cmd.name = "deselect" -> <<Stop("echo")>> \o StopSessions \o <<Settle(None)>>
    [] cmd.name = "echo" /\ ~cmd.arg -> <<Stop("echo")>>
    [] OTHER -> IF worker.active = None THEN <<>> ELSE <<Start("echo", worker.active)>>

ApplyCommand ==
  /\ inbox # <<>> /\ worker.todo = <<>> /\ Calls(Monitor) = {}
  /\ inbox' = Tail(inbox)
  /\ worker' = [worker EXCEPT !.todo = Todo(Head(inbox)),
                  !.echo = IF Head(inbox).name = "echo" THEN Head(inbox).arg ELSE @]
  /\ UNCHANGED <<scenario, faults, inputs, serverVars, runtimeVars, clientVars, ui, events, page>>

(* start_sessions ends: an Error response counts as a started session.      *)
SetActive ==
  /\ worker.todo # <<>> /\ Head(worker.todo).op = "settle"
  /\ LET t == IF worker.okay THEN Head(worker.todo).topic ELSE None
     IN  worker' = [worker EXCEPT !.active = t, !.okay = TRUE,
           !.todo = IF worker.echo /\ t # None THEN <<Start("echo", t)>> ELSE <<>>]
  /\ UNCHANGED <<scenario, faults, inputs, serverVars, runtimeVars, clientVars, ui, inbox, events, page>>

MonitorCall ==
  /\ worker.todo # <<>> /\ Head(worker.todo).op # "settle"
  /\ Issue(Monitor, Head(worker.todo))
  /\ UNCHANGED <<scenario, faults, inputs, inFlight, queue, runtimeVars, clientVars, monitorVars, page>>

MonitorPoll ==
  /\ worker.todo = <<>> /\ inbox = <<>> /\ worker.active # None
  /\ Len(events) < MaxEvents
  /\ Issue(Monitor, Status("panel"))
  /\ UNCHANGED <<scenario, faults, inputs, inFlight, queue, runtimeVars, clientVars, monitorVars, page>>

(* The numbers a snapshot shows, named by the topics they were measured on: *)
(* none unless hz has seen a message within the last two seconds.           *)
Snapshots(out) ==
  IF out.outcome = "ok" /\ out.val["hz"] # None
  THEN {{}, {out.val[k].topic : k \in {k \in DOMAIN out.val : out.val[k] # None}}}
  ELSE {{}}

MonitorReturn ==
  \E out \in Answers(Monitor) :
    /\ Returns(Monitor, out)
    /\ IF worker.todo = <<>>
       THEN /\ \E shown \in Snapshots(out) : events' = Append(events, shown)
            /\ UNCHANGED worker
       ELSE /\ worker' = [worker EXCEPT !.todo = Tail(@),
                 !.okay = @ /\ ~( /\ out.outcome = "failed"
                                  /\ Head(worker.todo).op = "start"
                                  /\ Head(worker.todo).kind \in {"hz", "bw"} )]
            /\ UNCHANGED events
    /\ UNCHANGED <<scenario, inputs, inFlight, queue, runtimeVars, clientVars, ui, inbox, page>>

-----------------------------------------------------------------------------
(* The Bag Recorder page.                                                   *)

Press(req) ==
  /\ Recorder \in scenario.procs
  /\ inputs < scenario.inputs /\ inputs' = inputs + 1
  /\ page' = [page EXCEPT !.inbox = Append(@, req)]
  /\ UNCHANGED <<scenario, faults, serverVars, runtimeVars, clientVars, monitorVars>>

PressStart(t) ==
  page.shown = None /\ \E flag \in BOOLEAN : Press(Request("start", "bag", t, flag))
PressStop == page.shown # None /\ Press(Stop("bag"))
PressPause == page.shown # None /\ Press(Request("pause", "bag", None, ~page.shown.flag))

(* recorder_worker: one command if there is one, then always a poll.        *)
RecorderCommand ==
  /\ page.pc = "recv" /\ page.inbox # <<>>
  /\ Issue(Recorder, Head(page.inbox))
  /\ page' = [page EXCEPT !.inbox = Tail(@), !.pc = "command"]
  /\ UNCHANGED <<scenario, faults, inputs, inFlight, queue, runtimeVars, clientVars, monitorVars>>

(* Mutant: the page polls only while it shows a recording.                  *)
RecorderPollShown ==
  /\ Recorder \in scenario.procs /\ page.shown # None
  /\ page.pc = "poll" \/ (page.pc = "recv" /\ page.inbox = <<>>)
  /\ Len(page.events) < MaxEvents
  /\ Issue(Recorder, Status("bag"))
  /\ page' = [page EXCEPT !.pc = "polling"]
  /\ UNCHANGED <<scenario, faults, inputs, inFlight, queue, runtimeVars, clientVars, monitorVars>>

RecorderPoll ==
  /\ Recorder \in scenario.procs
  /\ page.pc = "poll" \/ (page.pc = "recv" /\ page.inbox = <<>>)
  /\ Len(page.events) < MaxEvents
  /\ Issue(Recorder, Status("bag"))
  /\ page' = [page EXCEPT !.pc = "polling"]
  /\ UNCHANGED <<scenario, faults, inputs, inFlight, queue, runtimeVars, clientVars, monitorVars>>

(* A pause reports nothing to the page, and neither does a refused stop.    *)
RecorderReturn ==
  \E out \in Answers(Recorder), s \in Calls(Recorder) :
    /\ Returns(Recorder, out)
    /\ page' = [page EXCEPT
         !.pc = IF page.pc = "command" THEN "poll" ELSE "recv",
         !.events = IF out.outcome = "ok" /\ conns[s].req.op # "pause"
                    THEN Append(@, out.val) ELSE @]
    /\ UNCHANGED <<scenario, inputs, inFlight, queue, runtimeVars, clientVars, monitorVars>>

RecorderDrain ==
  /\ page.events # <<>>
  /\ page' = [page EXCEPT !.shown = Last(page.events), !.events = <<>>]
  /\ UNCHANGED <<scenario, faults, inputs, serverVars, runtimeVars, clientVars, monitorVars>>

-----------------------------------------------------------------------------
Server == \E s \in Slots : Accept(s) \/ HandleClient(s) \/ Respond(s)
ClientGoesOn(c) == ClientReturn(c) \/ (phase[c] = "leaving" /\ ClientStop(c))
MonitorWorker == ApplyCommand \/ SetActive \/ MonitorCall \/ MonitorPoll \/ MonitorReturn
RecorderWorker == RecorderCommand \/ RecorderPoll \/ RecorderReturn

Next ==
  \/ Server
  \/ \E s \in Slots : CommandTimeout(s)
  \/ HandleRuntimeCommand \/ DelayFlag
  \/ \E c \in Clients :
       ClientStart(c) \/ ClientPoll(c) \/ ClientPause(c) \/ ClientStop(c) \/ ClientReturn(c) \/ Kill(c)
  \/ \E t \in Topics : ClickTopic(t) \/ PressStart(t)
  \/ ToggleEcho \/ ChangeWindow \/ PauseForLeave \/ DrainEvents
  \/ MonitorWorker
  \/ PressStop \/ PressPause \/ RecorderWorker \/ RecorderDrain

Spec == Init /\ [][Next]_vars

(* The threads keep running and the pages keep drawing; users, clients that *)
(* watch and faults are free to do nothing.                                 *)
FairSpec ==
  /\ Spec
  /\ \A s \in Slots : WF_vars(Accept(s) \/ HandleClient(s) \/ Respond(s))
  /\ WF_vars(HandleRuntimeCommand)
  /\ \A c \in Clients : WF_vars(ClientGoesOn(c))
  /\ WF_vars(MonitorWorker) /\ WF_vars(DrainEvents)
  /\ WF_vars(RecorderWorker) /\ WF_vars(RecorderDrain)
-----------------------------------------------------------------------------
SessionType == [topic : Topics, flag : BOOLEAN]
Panel == [{"hz", "bw", "delay"} -> SessionType \cup {None}]

Requests ==
  {req \in [op : {"start", "stop", "status", "pause"}, kind : Kinds \cup {"panel"},
            topic : Topics \cup {None}, flag : BOOLEAN] :
     /\ req.op = "start" => req.topic \in Topics
     /\ req.kind = "panel" => req.op = "status"
     /\ req.op = "pause" => req.kind = "bag"}
BagRequests == {req \in Requests : req.kind = "bag"}
Replies == [outcome : {"ok", "error", "failed"}, val : SessionType \cup Panel \cup {None}]
Connection ==
  [stage : {"connected", "reading", "waiting", "replied", "answered"},
   owner : Clients \cup {Monitor, Recorder, None}, req : Requests, reply : Replies \cup {None}]
MonitorCommands ==
  {cmd \in [name : {"select", "window", "deselect", "echo"}, arg : Topics \cup {None} \cup BOOLEAN] :
     /\ cmd.name = "select" => cmd.arg \in Topics
     /\ cmd.name = "echo" => cmd.arg \in BOOLEAN}
Work == Requests \cup {Settle(t) : t \in Topics \cup {None}}

ASSUME SessionAssumptions ==
  /\ IsFiniteSet(Slots)
  /\ Kind \in [Clients -> Kinds] /\ Topic \in [Clients -> Topics]
  /\ Monitor \notin Clients /\ Recorder \notin Clients \cup {Monitor}
  /\ None \notin Clients \cup {Monitor, Recorder} /\ None \notin Topics /\ None \notin Slots
  /\ None \notin SessionType /\ None \notin Connection
  /\ Scenarios \subseteq [procs : SUBSET (Clients \cup {Monitor, Recorder}),
                          inputs : Nat, faults : SUBSET Faults]

(* Connections, sessions, pages and processes hold what the code can put    *)
(* there.                                                                   *)
TypeOK ==
  /\ scenario \in Scenarios
  /\ faults \subseteq Faults
  /\ conns \in [Slots -> Connection \cup {None}]
  /\ \A s \in Slots : conns[s] # None =>
       /\ conns[s].stage = "answered" => conns[s].owner # None
       /\ conns[s].owner \in scenario.procs \cup {None}
  /\ queue \in Seq([slot : Slots \cup {None}, req : Requests])
  /\ sessions \in [Kinds -> SessionType \cup {None}]
  /\ wanted \subseteq Topics
  /\ phase \in [Clients -> {"absent", "starting", "watching", "polling", "pausing",
                            "leaving", "stopping", "untyped", "gone"}]
  /\ paused \in [Clients -> BOOLEAN]
  /\ ui \in [selected : Topics \cup {None}, echo : BOOLEAN, panel : SUBSET Topics]
  /\ inbox \in Seq(MonitorCommands) /\ events \in Seq(SUBSET Topics)
  /\ worker \in [todo : Seq(Work), active : Topics \cup {None}, echo : BOOLEAN, okay : BOOLEAN]
  /\ page \in [shown : SessionType \cup {None}, inbox : Seq(BagRequests),
               events : Seq(SessionType \cup {None}), pc : {"recv", "command", "poll", "polling"}]

Handlers == {s \in Slots : conns[s] # None /\ conns[s].stage \in {"reading", "waiting", "replied"}}

(* in_flight counts exactly the handler threads that are alive, never more  *)
(* than its limit, whether they answer, time out, or read half a request    *)
(* from a client that was killed; and a handler that waits has exactly one  *)
(* command in the runtime's channel, its own, so a reply that comes after a *)
(* timeout reaches nobody.                                                  *)
HandlersExact ==
  /\ inFlight = Cardinality(Handlers) /\ inFlight <= MaxInFlight
  /\ \A s \in Slots :
       LET own == {i \in DOMAIN queue : queue[i].slot = s}
       IN  IF conns[s] # None /\ conns[s].stage = "waiting"
           THEN \E i \in own : own = {i} /\ queue[i].req = conns[s].req
           ELSE own = {}

(* Between commands the kernel filter and the shadow subscribers have been  *)
(* synchronised with exactly the topics of the sessions that are active,    *)
(* also when a command fails halfway or nobody waits for it any more.       *)
FilterFollows == wanted = ObservedTopics(sessions)

(* Server and runtime are consistent between any two commands, whoever      *)
(* timed out, was killed or was refused in between.                         *)
ServerExact == TypeOK /\ HandlersExact /\ FilterFollows

(* Who still means to stop a session of kind k.                             *)
MonitorCares(k) ==
  \/ worker.todo # <<>> \/ inbox # <<>> \/ Calls(Monitor) # {}
  \/ worker.active # None /\ (k = "echo" => worker.echo)
Cares(k) ==
  \/ \E c \in Clients : Kind[c] = k /\ Running(c)
  \/ k # "bag" /\ MonitorCares(k)
  \/ k = "bag" /\ Recorder \in scenario.procs

(* An echo process that lacked the type of its topic is gone and has not    *)
(* stopped its session.                                                     *)
LeftByEcho(k) == k = "echo" /\ \E c \in Clients : phase[c] = "untyped"

(* Unless a fault struck, no session is left running that nobody will stop, *)
(* however many processes and pages start and stop the one session of a     *)
(* kind under each other's feet: but for the echo session, once an echo     *)
(* process has exited because it does not know the type of its topic.       *)
NoOrphans ==
  faults = {} => \A k \in Active(sessions) : Cares(k) \/ LeftByEcho(k)

(* A stop the runtime was handed ends the session, even when the handler    *)
(* gave up waiting or the client is gone.                                   *)
StopsHappen ==
  \A k \in {"hz", "delay", "bag"} :
    (\E i \in DOMAIN queue : queue[i].req = Stop(k)) ~> (sessions[k] = None)

(* Once everybody leaves the recording alone, the Bag Recorder page shows   *)
(* it as it is, although commands, polls and events cross each other and    *)
(* the page is not told what became of a pause.                             *)
PageConverges == Recorder \in scenario.procs => <>[](page.shown = sessions["bag"])

(* Once the user of the Topic Monitor stops clicking, the panels show       *)
(* numbers of the selected topic only, although snapshots of the topic      *)
(* selected before are still on their way; provided nobody else uses the    *)
(* sessions and no request fails for good.                                  *)
PanelConverges ==
  (scenario.procs = {Monitor} /\ [](faults \subseteq {"timeout"}))
    => <>[](ui.selected # None => ui.panel \subseteq {ui.selected})

(* Both pages of the GUI end up showing the runtime as it is.               *)
PagesConverge == PageConverges /\ PanelConverges
=============================================================================
