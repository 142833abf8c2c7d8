---------------------------- MODULE PacketQueues ----------------------------
(***************************************************************************)
(* What a stream of livox_ros_driver2 promises between the thread that     *)
(* stores packets and the one that publishes them: per lidar a queue from  *)
(* which packets are taken in the order in which they were put in, none    *)
(* twice and none left out.  A packet gets its number when it is put in;   *)
(* one that finds the queue full gets none and is lost.                    *)
(***************************************************************************)
EXTENDS Integers, Sequences

CONSTANTS
    Lidars,
    Capacity,    \* the packets a queue holds
    Numbers      \* packets are numbered modulo this

VARIABLES
    queue,       \* per lidar: the packets that wait, the oldest first
    number       \* per lidar: the number of the next packet

queueVars == <<queue, number>>

QueueInit ==
    /\ queue = [l \in Lidars |-> <<>>]
    /\ number = [l \in Lidars |-> 0]

Put(l) ==
    /\ Len(queue[l]) < Capacity
    /\ queue' = [queue EXCEPT ![l] = Append(@, number[l])]
    /\ number' = [number EXCEPT ![l] = (@ + 1) % Numbers]

Take(l) ==
    /\ queue[l] # <<>>
    /\ queue' = [queue EXCEPT ![l] = Tail(@)]
    /\ UNCHANGED number

QueueNext == \E l \in Lidars : Put(l) \/ Take(l)

QueueSpec == QueueInit /\ [][QueueNext]_queueVars
=============================================================================
