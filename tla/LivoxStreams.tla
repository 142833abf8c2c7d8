---------------------------- MODULE LivoxStreams ----------------------------
(***************************************************************************)
(* From the SDK threads to the ROS topics in livox_ros_driver2: the packet *)
(* queues of the lidars (comm/ldq.cpp, comm/lidar_imu_data_queue.cpp), the *)
(* semaphore that wakes the poll thread (comm/semaphore.cpp), the storing  *)
(* side (StoragePointData, PushLidarData, StorageImuData of lds.cpp), the  *)
(* distributing side (lddc.cpp) and the shutdown (driver_node.cpp).        *)
(*                                                                         *)
(* Clouds and IMU samples take the same path in threads of their own and   *)
(* share nothing but the exit flag, so one stream is followed at a time;   *)
(* `stream' says which.  The cloud queue is a ring whose indices are plain *)
(* volatile words: a store to wr_idx may still sit in the processor's      *)
(* store buffer when the storing thread reads the semaphore's count        *)
(* without its lock (`buffered').                                          *)
(***************************************************************************)
EXTENDS Integers

CONSTANTS lidar_count_,
          QueueSize,   \* a power of two
          IndexRange   \* 2^32 in the code, a multiple of QueueSize

ASSUME StreamAssumption ==
  /\ lidar_count_ \in Nat
  /\ QueueSize \in Nat \ {0}
  /\ \E k \in 2 .. IndexRange : IndexRange = k * QueueSize

Sources == 0 .. lidar_count_ - 1     \* entries of lidars_

VARIABLES stream,        \* "cloud" or "imu"
          sampling,      \* the lidars with connect_state Sampling
          rd_idx, wr_idx,
          storage,       \* what each slot holds: the number of its packet
          buffered,      \* the lidar whose wr_idx store is not visible yet
          semaphore,
          store,         \* the storing thread: [at, lidar]
          poll,          \* the poll thread: [at, lidar]
          request_exit,
          joined         \* ~DriverNode waits in join

streamVars == <<stream, sampling, rd_idx, wr_idx, storage, buffered, semaphore,
                store, poll, request_exit, joined>>

Nobody == -1
Slot(i) == i % QueueSize
Succ(i) == (i + 1) % IndexRange
Used(r, w) == (w - r) % IndexRange

QueueIsEmpty(r, w) == r = w

QueueIsFull(r, w) == Used(r, w) > QueueSize - 1

(* What the other thread sees of wr_idx. *)
Seen(l) == IF buffered = l THEN (wr_idx[l] - 1) % IndexRange ELSE wr_idx[l]

StreamInit ==
  /\ stream \in {"cloud", "imu"}
  /\ sampling = {}
  /\ rd_idx = [l \in Sources |-> 0]
  /\ wr_idx = [l \in Sources |-> 0]
  /\ storage = [l \in Sources |-> [s \in 0 .. QueueSize - 1 |-> 0]]
  /\ buffered = Nobody
  /\ semaphore = 0
  /\ store = [at |-> "idle", lidar |-> Nobody]
  /\ poll = [at |-> "return", lidar |-> 0]
  /\ request_exit = FALSE
  /\ joined = FALSE

(***************************************************************************)
(* The storing thread                                                      *)
(***************************************************************************)
(* The next packet of a lidar: PushLidarData finds the queue full and goes *)
(* on to the semaphore, or starts to write the slot.  The IMU queue is a   *)
(* list without a limit: QueueSize samples stand for that many or more.    *)
Offer(l) ==
  /\ store.at = "idle"
  /\ LET full == QueueIsFull(rd_idx[l], wr_idx[l])
     IN  store' = [at |-> IF full THEN "full" ELSE "write", lidar |-> l]
  /\ UNCHANGED <<stream, sampling, rd_idx, wr_idx, storage, buffered, semaphore,
                 poll, request_exit, joined>>

(* QueuePushAny: the slot, then wr_idx.  Push of the IMU queue holds its   *)
(* mutex, which also makes the store visible.                              *)
QueuePushAny ==
  /\ store.at = "write"
  /\ LET l == store.lidar
     IN  /\ storage' = [storage EXCEPT ![l][Slot(wr_idx[l])] = wr_idx[l]]
         /\ wr_idx' = [wr_idx EXCEPT ![l] = Succ(@)]
         /\ \/ stream = "cloud" /\ buffered' = l
            \/ UNCHANGED buffered
  /\ store' = [store EXCEPT !.at = "count"]
  /\ UNCHANGED <<stream, sampling, rd_idx, semaphore, poll, request_exit, joined>>

StoreBecomesVisible ==
  /\ buffered # Nobody
  /\ buffered' = Nobody
  /\ UNCHANGED <<stream, sampling, rd_idx, wr_idx, storage, semaphore, store, poll,
                 request_exit, joined>>

(* Mutant: no signal for a packet that finds the queue full. *)
ReadCountUnlessFull ==
  /\ store.at \in {"count", "full"}
  /\ store' = IF /\ ~QueueIsEmpty(rd_idx[store.lidar], wr_idx[store.lidar])
                 /\ semaphore <= 0 /\ store.at = "count"
              THEN [store EXCEPT !.at = "signal"]
              ELSE [at |-> "idle", lidar |-> Nobody]
  /\ UNCHANGED <<stream, sampling, rd_idx, wr_idx, storage, buffered, semaphore, poll,
                 request_exit, joined>>

\* GetCount, without the lock: a signal is due only when the count is 0
ReadCount ==
  /\ store.at \in {"count", "full"}
  /\ store' = IF /\ store.at = "count" => ~QueueIsEmpty(rd_idx[store.lidar], wr_idx[store.lidar])
                 /\ semaphore <= 0
              THEN [store EXCEPT !.at = "signal"]
              ELSE [at |-> "idle", lidar |-> Nobody]
  /\ UNCHANGED <<stream, sampling, rd_idx, wr_idx, storage, buffered, semaphore, poll,
                 request_exit, joined>>

\* the lock of Signal empties the store buffer
Signal ==
  /\ store.at = "signal"
  /\ semaphore' = semaphore + 1
  /\ buffered' = Nobody
  /\ store' = [at |-> "idle", lidar |-> Nobody]
  /\ UNCHANGED <<stream, sampling, rd_idx, wr_idx, storage, poll, request_exit, joined>>

(***************************************************************************)
(* The poll thread                                                         *)
(***************************************************************************)

(* The loop of the poll thread ends once exit_signal_ is set; otherwise    *)
(* DistributePointCloudData (DistributeImuData) returns at once on exit,   *)
(* or waits.                                                               *)
PollAgain ==
  /\ poll.at = "return"
  /\ poll' = [poll EXCEPT !.at = CASE joined -> "ended"
                                   [] ~joined /\ request_exit -> "return"
                                   [] OTHER -> "wait"]
  /\ UNCHANGED <<stream, sampling, rd_idx, wr_idx, storage, buffered, semaphore, store,
                 request_exit, joined>>

Wait ==
  /\ poll.at = "wait"
  /\ semaphore > 0
  /\ semaphore' = semaphore - 1
  /\ poll' = [at |-> "next", lidar |-> 0]
  /\ UNCHANGED <<stream, sampling, rd_idx, wr_idx, storage, buffered, store,
                 request_exit, joined>>

\* the loop over the lidars; the ones that are not sampling are skipped
NextLidar ==
  /\ poll.at = "next"
  /\ poll' = CASE poll.lidar = lidar_count_ -> [at |-> "return", lidar |-> 0]
               [] poll.lidar \in sampling -> [poll EXCEPT !.at = "polling"]
               [] OTHER -> [poll EXCEPT !.lidar = @ + 1]
  /\ UNCHANGED <<stream, sampling, rd_idx, wr_idx, storage, buffered, semaphore, store,
                 request_exit, joined>>

(* PollingLidarPointCloudData and PollingLidarImuData up to the test of    *)
(* the queue.  PublishPointcloud2 and PublishCustomPointcloud have a loop  *)
(* of their own around QueuePop that does not look at request_exit.        *)
Polling ==
  /\ poll.at \in {"polling", "draining"}
  /\ LET l == poll.lidar
         empty == QueueIsEmpty(rd_idx[l], Seen(l))
         exit  == poll.at = "polling" /\ request_exit
     IN  poll' = CASE ~exit /\ ~empty -> [poll EXCEPT !.at = "copy"]
                   [] empty /\ poll.at = "draining" -> [poll EXCEPT !.at = "polling"]
                   [] OTHER -> [at |-> "next", lidar |-> l + 1]
  /\ UNCHANGED <<stream, sampling, rd_idx, wr_idx, storage, buffered, semaphore, store,
                 request_exit, joined>>

\* QueuePop and Pop: the slot is copied, then rd_idx moves on
Pop ==
  /\ poll.at = "copy"
  /\ rd_idx' = [rd_idx EXCEPT ![poll.lidar] = Succ(@)]
  /\ poll' = [poll EXCEPT !.at = IF stream = "cloud" THEN "draining" ELSE "polling"]
  /\ UNCHANGED <<stream, sampling, wr_idx, storage, buffered, semaphore, store,
                 request_exit, joined>>

(***************************************************************************)
(* The configuration callbacks and the shutdown                            *)
(***************************************************************************)
\* the last option of a lidar is confirmed
BecomesSampling(l) ==
  /\ l \notin sampling
  /\ sampling' = sampling \cup {l}
  /\ UNCHANGED <<stream, rd_idx, wr_idx, storage, buffered, semaphore, store, poll,
                 request_exit, joined>>

\* ~DriverNode: the flag, the exit signal, then the joins
RequestExit ==
  /\ ~request_exit
  /\ request_exit' = TRUE
  /\ UNCHANGED <<stream, sampling, rd_idx, wr_idx, storage, buffered, semaphore, store,
                 poll, joined>>

Join ==
  /\ request_exit /\ ~joined
  /\ joined' = TRUE
  /\ UNCHANGED <<stream, sampling, rd_idx, wr_idx, storage, buffered, semaphore, store,
                 poll, request_exit>>

Store == QueuePushAny \/ ReadCount \/ Signal
Poll == Wait \/ NextLidar \/ Polling \/ Pop \/ PollAgain

StreamNext ==
  \/ \E l \in Sources : Offer(l) \/ BecomesSampling(l)
  \/ Store
  \/ StoreBecomesVisible
  \/ Poll
  \/ RequestExit
  \/ Join

(* The two threads and the processor go on; the lidars keep sending, which *)
(* is what a lidar in normal work mode does.                               *)
StreamFairness ==
  /\ WF_streamVars(Store) /\ WF_streamVars(Poll)
  /\ WF_streamVars(StoreBecomesVisible) /\ WF_streamVars(Join)
  /\ \A l \in Sources : SF_streamVars(Offer(l))

StreamSpec == StreamInit /\ [][StreamNext]_streamVars /\ StreamFairness

(* The ring loses and reorders nothing that it has taken: every packet     *)
(* between rd_idx and wr_idx is still in its slot, also when the indices   *)
(* wrap round, and the poll thread copies no slot that is being written.   *)
PacketsKeepTheirSlot ==
  /\ \A l \in Sources : \A n \in 0 .. Used(rd_idx[l], wr_idx[l]) - 1 :
       LET i == (rd_idx[l] + n) % IndexRange IN storage[l][Slot(i)] = i
  /\ poll.at = "copy" /\ store.at = "write" /\ poll.lidar = store.lidar
       => Slot(rd_idx[poll.lidar]) # Slot(wr_idx[store.lidar])

\* The packets that wait, as they are in the ring.
InRing(l) ==
  [n \in 1 .. Used(rd_idx[l], wr_idx[l]) |->
     storage[l][Slot((rd_idx[l] + n - 1) % IndexRange)]]

Queues == INSTANCE PacketQueues
            WITH Lidars <- Sources, Capacity <- QueueSize, Numbers <- IndexRange,
                 queue <- [l \in Sources |-> InRing(l)], number <- wr_idx

(* The ring is a queue per lidar: however the two threads interleave and     *)
(* whatever the indices have wrapped round, a push adds a packet behind the  *)
(* others, a pop takes the oldest, and no other step shows.                  *)
ImplementsQueues == Queues!QueueSpec

(* A packet of a sampling lidar is published as long as the lidars go on   *)
(* sending and the poll thread keeps up, although the semaphore counts to  *)
(* one only and its count is read without the lock: the next packet makes  *)
(* up for a signal that a buffered store suppressed.                       *)
PacketsAreDelivered ==
  []<>(poll.at = "wait") =>
    \A l \in Sources :
       \/ []<>(l \notin sampling \/ rd_idx[l] = wr_idx[l] \/ request_exit)
       \/ []<><<rd_idx'[l] # rd_idx[l]>>_streamVars

(* ~DriverNode returns: the joined poll thread is woken by the next packet *)
(* and then sees that it has to end, unless a lidar fills its queue as     *)
(* fast as it is emptied (the publishing loop does not look at the flag).  *)
ShutdownEnds ==
  []<>(poll.at \notin {"polling", "draining", "copy"}) => (joined ~> poll.at = "ended")

\* The queue between the two threads keeps its packets in order and delivers them,
\* and the shutdown gets through it.
PacketsArrive ==
    []PacketsKeepTheirSlot /\ ImplementsQueues /\ PacketsAreDelivered /\ ShutdownEnds
=============================================================================
