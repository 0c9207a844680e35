---------------------------- MODULE MCGraphState ----------------------------
(* A participant with a publisher, a service server, an action client and   *)
(* its node lists (nodes that split, swap an endpoint or share a name), and *)
(* a participant on another host that subscribes to node lists.             *)
EXTENDS GraphState, TLC

CONSTANTS p1, p2, info, talk, serve, goal, hear, a, b

MCOwner == info :> p1 @@ talk :> p1 @@ serve :> p1 @@ goal :> p1 @@ hear :> p2
MCInfoWriter == p1 :> info @@ p2 :> None

Named(prefix, name, action, call, kind, part) ==
    [prefix |-> prefix, name |-> name, action |-> action, call |-> call,
     kind |-> kind, part |-> part]

MCWire ==
    info :> Named("rt", "ros_discovery_info", "none", "none", "msg", "none")
    @@ hear :> Named("rt", "ros_discovery_info", "none", "none", "msg", "none")
    @@ talk :> Named("rt", "chatter", "none", "none", "msg", "none")
    @@ serve :> Named("rq", "add", "none", "Request", "srv", "Request")
    @@ goal :> Named("rq", "nav", "send_goal", "Request", "action", "Request")

Node(name, ends) == [name |-> name, endpoints |-> ends]

MCInfos ==
    p1 :> {<<Node(a, {talk}), Node(b, {serve, goal})>>,
           <<Node(b, {talk, goal}), Node(a, {serve})>>,
           <<Node(a, {talk}), Node(a, {goal})>>}
    @@ p2 :> {}

MCSources == p1 :> {"local"} @@ p2 :> {"local", "remote"}
=============================================================================
