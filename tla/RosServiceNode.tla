--------------------------- MODULE RosServiceNode ---------------------------
(***************************************************************************)
(* RosServiceNode of BehaviorTree.ROS2: a node of a tree that asks a       *)
(* service and waits for the response in later ticks.  The client, its     *)
(* executor and the responses that wait there are shared by the nodes with *)
(* the same service name, so another node's spin may take a response of    *)
(* this one, and this one's those of an earlier activation.  Requests are  *)
(* numbered; the service answers in any order, late, or never.             *)
(***************************************************************************)
EXTENDS Integers, Sequences

CONSTANTS
    ServiceNames,  \* the values of the port service_name
    MaxRequests    \* bound on the number of requests

VARIABLES
    srvStatus,          \* status() of the node
    service_name_,
    namePort,           \* the value of the port
    future_response_,   \* the request it waits for, or 0
    response_received_,
    response_,          \* the request the kept response answers, or 0
    expired,            \* the service timeout has passed since the request
    requests,           \* the number of requests so far
    askedOf,            \* per request: the service it was sent to
    answers,            \* responses that wait in the executor
    completed,          \* requests whose future is complete
    delivered           \* the last response given to onResponseReceived, or 0

srvVars == <<srvStatus, service_name_, namePort, future_response_, response_received_,
             response_, expired, requests, askedOf, answers, completed, delivered>>

SrvInit ==
    /\ srvStatus = "IDLE"
    /\ namePort \in ServiceNames /\ service_name_ = namePort
    /\ future_response_ = 0 /\ response_received_ = FALSE /\ response_ = 0
    /\ expired = FALSE /\ requests = 0 /\ askedOf = <<>>
    /\ answers = {} /\ completed = {} /\ delivered = 0

\* The parts of a tick in IDLE: the client is exchanged when the port names
\* another service; an invalid request or a service that is not ready fails.
TickFails ==
    /\ srvStatus # "RUNNING" /\ requests < MaxRequests
    /\ service_name_' = namePort
    /\ response_received_' = FALSE /\ future_response_' = 0 /\ response_' = 0
    /\ srvStatus' = "FAILURE"
    /\ delivered' = 0
    /\ UNCHANGED <<namePort, expired, requests, askedOf, answers, completed>>

TickSends ==
    /\ srvStatus # "RUNNING" /\ requests < MaxRequests
    /\ service_name_' = namePort
    /\ requests' = requests + 1
    /\ askedOf' = Append(askedOf, service_name_')
    /\ response_received_' = FALSE /\ response_' = 0
    /\ future_response_' = requests'
    /\ expired' = FALSE
    /\ srvStatus' = "RUNNING"
    /\ delivered' = 0
    /\ UNCHANGED <<namePort, answers, completed>>

\* spin_some: every response that waits at the node's client is taken.
Taken == {r \in answers : askedOf[r] = service_name_}

(* Mutant: a request that is not answered is waited for without a limit. *)
TickWaitsForever ==
    /\ srvStatus = "RUNNING"
    /\ answers' = answers \ Taken
    /\ completed' = completed \union Taken
    /\ IF ~response_received_ /\ future_response_ \notin completed'
       THEN UNCHANGED <<srvStatus, response_received_, response_, future_response_, delivered>>
       ELSE /\ response_received_' = TRUE
            /\ response_' = IF response_received_ THEN response_ ELSE future_response_
            /\ future_response_' = 0
            /\ delivered' = response_'
            /\ srvStatus' \in {"SUCCESS", "FAILURE"}
    /\ UNCHANGED <<service_name_, namePort, expired, requests, askedOf>>

\* A tick in RUNNING.  What onResponseReceived and onFailure return is up to the
\* class derived from this one.
TickWaits ==
    /\ srvStatus = "RUNNING"
    /\ answers' = answers \ Taken
    /\ completed' = completed \union Taken
    /\ IF ~response_received_ /\ future_response_ \notin completed'
       THEN /\ srvStatus' \in IF expired THEN {"SUCCESS", "FAILURE"} ELSE {"RUNNING"}
            /\ UNCHANGED <<response_received_, response_, future_response_, delivered>>
       ELSE /\ response_received_' = TRUE
            /\ response_' = IF response_received_ THEN response_ ELSE future_response_
            /\ future_response_' = 0
            /\ delivered' = response_'
            /\ srvStatus' \in {"SUCCESS", "FAILURE"}
    /\ UNCHANGED <<service_name_, namePort, expired, requests, askedOf>>

\* The request of a halted node is not withdrawn.
HaltService ==
    /\ srvStatus = "RUNNING"
    /\ srvStatus' = "IDLE"
    /\ UNCHANGED <<service_name_, namePort, future_response_, response_received_, response_,
                   expired, requests, askedOf, answers, completed, delivered>>

-----------------------------------------------------------------------------
(* The surroundings.                                                         *)

srvNode == <<srvStatus, service_name_, future_response_, response_received_, response_,
             requests, askedOf, delivered>>

ServiceAnswers(r) ==
    /\ r \in (1..requests) \ (answers \union completed)
    /\ answers' = answers \union {r}
    /\ UNCHANGED <<srvNode, namePort, expired, completed>>

OtherNodeSpins(name) ==
    LET taken == {r \in answers : askedOf[r] = name} IN
    /\ taken # {}
    /\ answers' = answers \ taken
    /\ completed' = completed \union taken
    /\ UNCHANGED <<srvNode, namePort, expired>>

ServiceTimeout ==
    /\ srvStatus = "RUNNING" /\ ~expired
    /\ expired' = TRUE
    /\ UNCHANGED <<srvNode, namePort, answers, completed>>

PortChanges(name) ==
    /\ name # namePort /\ namePort' = name
    /\ UNCHANGED <<srvNode, expired, answers, completed>>

SrvNext ==
    \/ TickFails \/ TickSends \/ TickWaits \/ HaltService
    \/ \E r \in 1..MaxRequests : ServiceAnswers(r)
    \/ \E name \in ServiceNames : OtherNodeSpins(name) \/ PortChanges(name)
    \/ ServiceTimeout

(* A RUNNING node is ticked, and time passes.  Nothing says that the service *)
(* answers.                                                                  *)
SrvFairness == WF_srvVars(TickWaits) /\ WF_srvVars(ServiceTimeout)

SrvSpec == SrvInit /\ [][SrvNext]_srvVars /\ SrvFairness

-----------------------------------------------------------------------------
(* Properties.                                                               *)

\* The response that onResponseReceived gets answers the request of the same
\* activation, whichever node's spin took it and however late the responses of
\* halted or timed-out activations arrive.
ResponseIsOfItsRequest == delivered # 0 => delivered = requests

\* A node that goes on being ticked ends, also when the service never answers.
ServiceNodeEnds == srvStatus = "RUNNING" ~> srvStatus # "RUNNING"

\* An activation ends, and with no response but that to its own request.
ServiceNodeIsAnswered ==
    []ResponseIsOfItsRequest /\ ServiceNodeEnds
=============================================================================
