--------------------------- MODULE RosTopicSubNode ---------------------------
(***************************************************************************)
(* RosTopicSubNode of BehaviorTree.ROS2: conditions of behaviour trees     *)
(* that look at the messages of a topic.  The conditions on one topic      *)
(* share a SubscriberInstance, which lives as long as one of them holds    *)
(* it; the registry knows it by a weak pointer.  Its subscription keeps    *)
(* one message, and whichever condition is ticked takes it for all of      *)
(* them: the instance's broadcaster writes last_msg_ of every node that    *)
(* is connected.  A message is a pair of a topic and a number, and <<>> is *)
(* no message.                                                             *)
(***************************************************************************)
EXTENDS Naturals, FiniteSets

CONSTANTS
    SubNodes,     \* the conditions
    Dynamic,      \* those whose topic_name is an entry of the blackboard
    Latching,     \* those that override latchLastMessage, which returns false, with true
    SubTopics,    \* the topics
    MaxPosted       \* bound on the messages

ASSUME SubAssumption ==
    /\ Dynamic \subseteq SubNodes /\ Latching \subseteq SubNodes /\ MaxPosted \in Nat
    /\ "none" \notin SubTopics

VARIABLES
    life,         \* "new" before the constructor, "up", "gone" after the destructor
    topicPort,    \* the value of the port topic_name
    sub,          \* topic_name_ and, if it is a topic, sub_instance_
    last_msg_,
    inst,         \* the SubscriberInstance of a topic: [conns, queued, last]
    posted,       \* the number of messages
    \* auxiliary:
    newest,       \* the last message that reached the instance of a topic
    heard,        \* what onTick got in the last tick
    handled,      \* the last message onTick got
    turn,         \* flips in every tick
    moved         \* the nodes that have left a topic for another one

subVars == <<life, topicPort, sub, last_msg_, inst, posted, newest, heard, handled, turn, moved>>

NoInstance == [conns |-> {}, queued |-> <<>>, last |-> <<>>]

Holders(s, t) == {n \in SubNodes : s[n] = t}

SubInit ==
    /\ life = [n \in SubNodes |-> "new"]
    /\ topicPort \in [SubNodes -> SubTopics]
    /\ sub = [n \in SubNodes |-> "none"]
    /\ last_msg_ = [n \in SubNodes |-> <<>>]
    /\ inst = [t \in SubTopics |-> NoInstance]
    /\ posted = 0
    /\ newest = [t \in SubTopics |-> <<>>]
    /\ heard = [n \in SubNodes |-> <<>>] /\ handled = [n \in SubNodes |-> <<>>]
    /\ turn = [n \in SubNodes |-> FALSE]
    /\ moved = {}

\* An instance goes with its last holder, and its connections with it.
Freed(i, s) == [t \in SubTopics |-> IF Holders(s, t) = {} THEN NoInstance ELSE i[t]]

(* Mutant: what arrived before the node was there is not taken over. *)
createSubscriberEmpty(i, msgs, n, t) ==
    [inst |-> [i EXCEPT ![t].conns = @ \union {n}],
     msgs |-> msgs]

\* createSubscriber: a new instance or the one other nodes hold; what it
\* received before is taken over.  A message of the topic before stays.
createSubscriber(i, msgs, n, t) ==
    [inst |-> [i EXCEPT ![t].conns = @ \union {n}],
     msgs |-> IF i[t].last = <<>> THEN msgs ELSE [msgs EXCEPT ![n] = i[t].last]]

\* The callback of the subscription: last_msg, and broadcaster.
Spun(now, t) ==
    LET i == now.inst[t]
    IN IF i.queued = <<>> THEN now
       ELSE [inst |-> [now.inst EXCEPT ![t].queued = <<>>, ![t].last = i.queued],
             msgs |-> [n \in SubNodes |-> IF n \in i.conns THEN i.queued ELSE now.msgs[n]]]

NowIs(now) == inst' = now.inst /\ last_msg_' = now.msgs

\* The constructor subscribes when the topic is known in advance.
Construct(n) ==
    /\ life[n] = "new"
    /\ life' = [life EXCEPT ![n] = "up"]
    /\ IF n \in Dynamic THEN UNCHANGED <<sub, inst, last_msg_>>
       ELSE /\ sub' = [sub EXCEPT ![n] = topicPort[n]]
            /\ NowIs(createSubscriber(inst, last_msg_, n, topicPort[n]))
    /\ UNCHANGED <<topicPort, posted, newest, heard, handled, turn, moved>>

\* The destructor disconnects the last connection that was made.
Destruct(n) ==
    /\ life[n] = "up"
    /\ life' = [life EXCEPT ![n] = "gone"]
    /\ sub' = [sub EXCEPT ![n] = "none"]
    /\ inst' = Freed([t \in SubTopics |->
                           IF sub[n] = t THEN [inst[t] EXCEPT !.conns = @ \ {n}] ELSE inst[t]],
                        sub')
    /\ newest' = [t \in SubTopics |-> IF Holders(sub', t) = {} THEN <<>> ELSE newest[t]]
    /\ UNCHANGED <<topicPort, last_msg_, posted, heard, handled, turn, moved>>

\* tick: a node whose topic has changed drops its instance, not its connection,
\* and subscribes anew; the message is cleared once it was processed, unless the
\* node latches it.
TickSub(n) ==
    LET t == topicPort[n]
        stays == sub[n] = t
        left == Freed(inst, [sub EXCEPT ![n] = t])
        joined == IF stays THEN [inst |-> inst, msgs |-> last_msg_]
                           ELSE createSubscriber(left, last_msg_, n, t)
        now == Spun(joined, t)
    IN  /\ life[n] = "up"
        /\ sub' = [sub EXCEPT ![n] = t]
        /\ inst' = now.inst
        /\ heard' = [heard EXCEPT ![n] = now.msgs[n]]
        /\ handled' = [handled EXCEPT ![n] = IF now.msgs[n] = <<>> THEN @ ELSE now.msgs[n]]
        /\ last_msg_' = IF n \in Latching THEN now.msgs ELSE [now.msgs EXCEPT ![n] = <<>>]
        /\ turn' = [turn EXCEPT ![n] = ~@]
        /\ moved' = IF stays \/ sub[n] = "none" THEN moved ELSE moved \union {n}
        /\ newest' = [u \in SubTopics |-> IF Holders(sub', u) = {} THEN <<>> ELSE newest[u]]
        /\ UNCHANGED <<life, topicPort, posted>>

\* The blackboard entry behind the port changes.
TopicChanges(n) ==
    /\ n \in Dynamic
    /\ \E t \in SubTopics : topicPort' = [topicPort EXCEPT ![n] = t]
    /\ UNCHANGED <<life, sub, last_msg_, inst, posted, newest, heard, handled, turn, moved>>

\* A message is lost on a topic nobody subscribes to.
PublishOn(t) ==
    /\ posted < MaxPosted
    /\ posted' = posted + 1
    /\ IF Holders(sub, t) = {} THEN UNCHANGED <<inst, newest>>
       ELSE /\ inst' = [inst EXCEPT ![t].queued = <<t, posted'>>]
            /\ newest' = [newest EXCEPT ![t] = <<t, posted'>>]
    /\ UNCHANGED <<life, topicPort, sub, last_msg_, heard, handled, turn, moved>>

SubNext ==
    \/ \E n \in SubNodes : Construct(n) \/ Destruct(n) \/ TickSub(n) \/ TopicChanges(n)
    \/ \E t \in SubTopics : PublishOn(t)

SubSpec == SubInit /\ [][SubNext]_subVars

-----------------------------------------------------------------------------

\* Although nodes take each other's messages from the queue, a node that stays
\* on its topic processes in every tick the newest message that has reached the
\* subscription, the one from before it was there too, and no message twice unless
\* it latches them: then it processes the newest message in every tick.
HandlesTheNewestOnce ==
    \A n \in SubNodes :
      turn'[n] # turn[n] /\ n \notin moved' =>
        LET t == sub'[n]
        IN  heard'[n] = IF handled[n] = newest[t] /\ n \notin Latching THEN <<>> ELSE newest[t]

\* No broadcast reaches a node that is gone, unless the node had changed its
\* topic while another node kept the old one.
NobodyWritesToTheDead ==
    \A t \in SubTopics : \A n \in inst[t].conns : life[n] = "gone" => n \in moved

\* Nodes that share a subscription get the newest message once each, and none
\* after they are gone.
SubscribersAreServed ==
    [][NobodyWritesToTheDead' /\ HandlesTheNewestOnce]_subVars
=============================================================================
