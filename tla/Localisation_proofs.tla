------------------------ MODULE Localisation_proofs -------------------------
(* Proofs about FAST_LIO: the node that pairs scans with IMU messages, the     *)
(* moving cube of the map, the iterated update of the filter, the clouds that *)
(* the handlers make of messages, the surface features of a scan, and how the *)
(* map's queries prune its tree.                                              *)
EXTENDS FastLio, LocalMap, EkfUpdate, Preprocess, ScanFeatures, PointGeometry,
        FiniteSetTheorems, SequenceTheorems, WellFoundedInduction, TLAPS

-----------------------------------------------------------------------------
(* Numbers.                                                                  *)

\* A set of naturals that is not empty has a least element.
LEMMA LeastExists ==
  ASSUME NEW S \in SUBSET Nat, S # {}
  PROVE  \E h \in S : \A k \in S : h <= k
<1>1. PICK h \in S : \A k \in S : <<k, h>> \notin OpToRel(<, Nat)
  BY NatLessThanWellFounded, WFMin
<1>2. ASSUME NEW k \in S PROVE h <= k
  <2>1. <<k, h>> \in Nat \X Nat
    OBVIOUS
  <2>2. ~(k < h)
    BY <1>1, <2>1 DEF OpToRel
  <2> QED BY <2>1, <2>2
<1> QED BY <1>2

\* A set of naturals with a bound has a greatest element.
LEMMA GreatestExists ==
  ASSUME NEW n \in Nat, NEW S \in SUBSET (0..n), S # {}
  PROVE  \E g \in S : \A k \in S : k <= g
<1> DEFINE T == {n - k : k \in S}
<1>1. T \in SUBSET Nat /\ T # {}
  <2>1. \A k \in S : n - k \in Nat
    OBVIOUS
  <2>2. \A t \in T : t \in Nat
    BY <2>1
  <2> QED BY <2>2
<1>2. PICK h \in T : \A k \in T : h <= k
  BY <1>1, LeastExists
<1>3. PICK g \in S : h = n - g
  BY <1>2
<1>4. \A k \in S : n - g <= n - k
  BY <1>2, <1>3
<1>5. \A k \in S : k \in Int /\ g \in Int
  BY <1>3
<1> QED BY <1>3, <1>4, <1>5

-----------------------------------------------------------------------------
(* The node.                                                                 *)

\* Sequences and records of whatever elements: how fuse_dual_lidar_frame_once
\* walks through the buffers of the two lidars does not matter.
IsSeq(s) == \E S : s \in Seq(S)

LioInv ==
    /\ IsSeq(lidar_buffer) /\ IsSeq(time_buffer) /\ Len(lidar_buffer) <= Len(time_buffer)
    /\ {"lidar", "beg", "end", "imu"} \subseteq DOMAIN Measures
    /\ {"lidarBack", "lost"} \subseteq DOMAIN seen /\ seen.lidarBack \in BOOLEAN
    /\ lidar_pushed \in BOOLEAN /\ cfg \in Configs
    /\ ScansKeepTheirTimes /\ NoScanIsLost
    /\ lidar_pushed /\ ~seen.lidarBack =>
         lidar_buffer # <<>> /\ Measures.lidar = lidar_buffer[1]

\* Appending to a sequence, and taking its first element off.
LEMMA Appended ==
  ASSUME NEW s, IsSeq(s), NEW e
  PROVE  /\ IsSeq(Append(s, e))
         /\ Len(s) \in Nat /\ DOMAIN s = 1..Len(s)
         /\ Len(Append(s, e)) = Len(s) + 1
         /\ \A i \in 1..Len(s) : Append(s, e)[i] = s[i]
         /\ Append(s, e)[Len(s) + 1] = e
         /\ Append(s, e) # <<>>
         /\ s # <<>> => Append(s, e)[1] = s[1]
<1>1. PICK S : s \in Seq(S)
  BY DEF IsSeq
<1> DEFINE T == S \union {e}
<1>2. s \in Seq(T) /\ e \in T
  BY <1>1, SeqMonotonic
<1>3. /\ Append(s, e) \in Seq(T) /\ Append(s, e) # <<>>
      /\ Len(Append(s, e)) = Len(s) + 1
      /\ \A i \in 1..Len(s) : Append(s, e)[i] = s[i]
      /\ Append(s, e)[Len(s) + 1] = e
  BY <1>2, AppendProperties
<1>4. Len(s) \in Nat /\ DOMAIN s = 1..Len(s) /\ (s # <<>> => Len(s) \in Nat \ {0})
  BY <1>2, LenProperties, EmptySeq
<1> QED BY <1>3, <1>4 DEF IsSeq

LEMMA TailOf ==
  ASSUME NEW s, IsSeq(s), s # <<>>
  PROVE  /\ IsSeq(Tail(s)) /\ Len(s) \in Nat \ {0} /\ Len(Tail(s)) = Len(s) - 1
         /\ DOMAIN Tail(s) = 1..(Len(s) - 1) /\ DOMAIN s = 1..Len(s)
         /\ \A i \in 1..(Len(s) - 1) : Tail(s)[i] = s[i + 1]
<1>1. PICK S : s \in Seq(S)
  BY DEF IsSeq
<1>2. /\ Tail(s) \in Seq(S) /\ Len(Tail(s)) = Len(s) - 1
      /\ \A i \in 1..Len(Tail(s)) : Tail(s)[i] = s[i + 1]
  BY <1>1, HeadTailProperties
<1>3. Len(s) \in Nat \ {0} /\ DOMAIN s = 1..Len(s) /\ DOMAIN Tail(s) = 1..Len(Tail(s))
  BY <1>1, <1>2, LenProperties, EmptySeq
<1> QED BY <1>2, <1>3 DEF IsSeq

\* The scans and their times.
Aligned(scans, times) ==
    Len(scans) = Len(times) /\ \A i \in DOMAIN scans : scans[i].stamp = times[i]

LEMMA AppendAligned ==
  ASSUME NEW s, NEW t, IsSeq(s), IsSeq(t), Aligned(s, t), NEW e
  PROVE  Aligned(Append(s, e), Append(t, e.stamp))
<1> DEFINE s2 == Append(s, e)
<1> DEFINE t2 == Append(t, e.stamp)
<1>1. /\ IsSeq(s2) /\ Len(s) \in Nat /\ DOMAIN s = 1..Len(s)
      /\ Len(s2) = Len(s) + 1
      /\ \A i \in 1..Len(s) : s2[i] = s[i]
      /\ s2[Len(s) + 1] = e
  BY Appended
<1>2. /\ Len(t2) = Len(t) + 1
      /\ \A i \in 1..Len(t) : t2[i] = t[i]
      /\ t2[Len(t) + 1] = e.stamp
  BY Appended
<1>3. DOMAIN s2 = 1..Len(s2)
  BY <1>1, Appended
<1> HIDE DEF s2, t2
<1>4. \A i \in DOMAIN s2 : s2[i].stamp = t2[i]
  BY <1>1, <1>2, <1>3 DEF Aligned
<1>5. Aligned(s2, t2)
  BY <1>1, <1>2, <1>4 DEF Aligned
<1> QED BY <1>5 DEF s2, t2

\* fuse_dual_lidar_frame_once appends a scan and its stamp to both or neither.
LEMMA FuseInv ==
  ASSUME LioInv, NEW f, f = fuse_dual_lidar_frame_once
  PROVE  /\ IsSeq(f.scans) /\ IsSeq(f.times) /\ Len(f.scans) <= Len(f.times)
         /\ Aligned(lidar_buffer, time_buffer) => Aligned(f.scans, f.times)
         /\ lidar_buffer # <<>> => f.scans # <<>> /\ f.scans[1] = lidar_buffer[1]
<1>0. IsSeq(lidar_buffer) /\ IsSeq(time_buffer) /\ Len(lidar_buffer) <= Len(time_buffer)
  BY DEF LioInv
<1>1. \/ f.scans = lidar_buffer /\ f.times = time_buffer
      \/ \E e : f.scans = Append(lidar_buffer, e) /\ f.times = Append(time_buffer, e.stamp)
  BY DEF fuse_dual_lidar_frame_once
<1>2. CASE f.scans = lidar_buffer /\ f.times = time_buffer
  BY <1>0, <1>2
<1>3. ASSUME NEW e, f.scans = Append(lidar_buffer, e), f.times = Append(time_buffer, e.stamp)
      PROVE  /\ IsSeq(f.scans) /\ IsSeq(f.times) /\ Len(f.scans) <= Len(f.times)
             /\ Aligned(lidar_buffer, time_buffer) => Aligned(f.scans, f.times)
             /\ lidar_buffer # <<>> => f.scans # <<>> /\ f.scans[1] = lidar_buffer[1]
  <2>1. Len(f.scans) <= Len(f.times)
    <3>1. Len(f.scans) = Len(lidar_buffer) + 1 /\ Len(f.times) = Len(time_buffer) + 1
      BY <1>0, <1>3, Appended
    <3>2. Len(lidar_buffer) \in Nat /\ Len(time_buffer) \in Nat
      BY <1>0, Appended
    <3> QED BY <3>1, <3>2, <1>0
  <2>2. /\ IsSeq(f.scans) /\ IsSeq(f.times)
        /\ lidar_buffer # <<>> => f.scans # <<>> /\ f.scans[1] = lidar_buffer[1]
    BY <1>0, <1>3, Appended
  <2>3. Aligned(lidar_buffer, time_buffer) => Aligned(f.scans, f.times)
    BY <1>0, <1>3, AppendAligned
  <2> QED BY <2>1, <2>2, <2>3
<1> QED BY <1>1, <1>2, <1>3

\* Every scan keeps its time and none is lost, by a callback of a lidar.
LEMMA ReceiveInv ==
  ASSUME LioInv,
         \/ \E t, shape : standard_pcl_cbk(t, shape)
         \/ \E side \in {"right", "left"} : \E t : Received(side, t)
  PROVE  LioInv'
<1>t. /\ IsSeq(lidar_buffer) /\ IsSeq(time_buffer) /\ Len(lidar_buffer) <= Len(time_buffer)
      /\ {"lidarBack", "lost"} \subseteq DOMAIN seen /\ seen.lidarBack \in BOOLEAN
  BY DEF LioInv
<1>e. IsSeq(<<>>) /\ Len(<<>>) = 0 /\ DOMAIN <<>> = {}
  <2>1. <<>> \in Seq({})
    BY EmptySeq
  <2> QED BY <2>1, LenProperties DEF IsSeq
<1>1. ASSUME NEW t, NEW shape, standard_pcl_cbk(t, shape)
      PROVE  LioInv'
  <2> DEFINE back == t < lastLidar.any
  <2> DEFINE e == Stamped(t, shape)
  <2>1. /\ ~cfg.dual /\ UNCHANGED <<cfg, Measures, lidar_pushed>>
        /\ lidar_buffer' = Append(IF back THEN <<>> ELSE lidar_buffer, e)
        /\ time_buffer' = Append(time_buffer, t)
        /\ seen' = [seen EXCEPT !.right = @ + 1, !.lidarBack = @ \/ back,
                                !.back = BackCount(t, lastLidar.any)]
    BY <1>1 DEF standard_pcl_cbk, groupVars
  <2>2. /\ DOMAIN seen' = DOMAIN seen /\ seen'.lost = seen.lost
        /\ seen'.lidarBack = (seen.lidarBack \/ back)
    BY <2>1, <1>t
  <2>3. e.stamp = t
    BY DEF Stamped
  <2>4. IsSeq(lidar_buffer') /\ IsSeq(time_buffer') /\ Len(lidar_buffer') <= Len(time_buffer')
    <3> DEFINE b == IF back THEN <<>> ELSE lidar_buffer
    <3>1. IsSeq(b) /\ Len(b) <= Len(time_buffer)
      BY <1>t, <1>e, Appended
    <3> HIDE DEF b
    <3>2. Len(b) \in Nat /\ Len(time_buffer) \in Nat
      BY <3>1, <1>t, Appended
    <3>3. /\ IsSeq(Append(b, e)) /\ Len(Append(b, e)) = Len(b) + 1
          /\ IsSeq(Append(time_buffer, t)) /\ Len(Append(time_buffer, t)) = Len(time_buffer) + 1
      BY <3>1, <1>t, Appended
    <3>4. lidar_buffer' = Append(b, e) /\ time_buffer' = Append(time_buffer, t)
      BY <2>1 DEF b
    <3>5. /\ IsSeq(lidar_buffer') /\ IsSeq(time_buffer')
          /\ Len(lidar_buffer') = Len(b) + 1 /\ Len(time_buffer') = Len(time_buffer) + 1
      BY <3>3, <3>4
    <3> QED BY <3>1, <3>2, <3>5
  <2>5. CASE seen'.lidarBack
    BY <2>1, <2>2, <2>4, <2>5 DEF LioInv, ScansKeepTheirTimes, NoScanIsLost
  <2>6. CASE ~seen'.lidarBack
    <3>1. ~seen.lidarBack /\ lidar_buffer' = Append(lidar_buffer, e)
      BY <2>1, <2>2, <2>6
    <3>2. Aligned(lidar_buffer, time_buffer) /\ Measures.lidar.stamp = Measures.beg
      BY <3>1 DEF LioInv, ScansKeepTheirTimes, Aligned
    <3>3. Aligned(lidar_buffer, time_buffer)'
      BY <3>1, <3>2, <2>1, <2>3, <1>t, AppendAligned
    <3>4. ScansKeepTheirTimes' /\ NoScanIsLost'
      BY <3>1, <3>2, <3>3, <2>1, <2>2 DEF LioInv, ScansKeepTheirTimes, NoScanIsLost, Aligned
    <3>5. lidar_pushed' /\ ~seen'.lidarBack =>
            lidar_buffer' # <<>> /\ Measures'.lidar = lidar_buffer'[1]
      <4>1. lidar_pushed' = lidar_pushed /\ Measures' = Measures
        BY <2>1
      <4>2. lidar_pushed => lidar_buffer # <<>> /\ Measures.lidar = lidar_buffer[1]
        BY <3>1 DEF LioInv
      <4>3. lidar_buffer # <<>> => lidar_buffer'[1] = lidar_buffer[1]
        BY <3>1, <1>t, Appended
      <4>4. lidar_buffer' # <<>>
        BY <3>1, <1>t, Appended
      <4> QED BY <4>1, <4>2, <4>3, <4>4
    <3> QED BY <3>4, <3>5, <2>1, <2>2, <2>4, <1>t DEF LioInv
  <2> QED BY <2>5, <2>6
<1>2. ASSUME NEW side \in {"right", "left"}, NEW t, Received(side, t)
      PROVE  LioInv'
  <2> DEFINE back == t < lastLidar[side]
  <2>1. /\ UNCHANGED <<cfg, Measures, lidar_pushed>>
        /\ lidar_buffer' = IF back THEN <<>> ELSE lidar_buffer
        /\ time_buffer' = IF back THEN <<>> ELSE time_buffer
        /\ seen' = [seen EXCEPT ![side] = @ + 1, !.lidarBack = @ \/ back,
                                !.back = BackCount(t, lastLidar[side])]
    BY <1>2 DEF Received, groupVars
  <2>2. /\ DOMAIN seen' = DOMAIN seen /\ seen'.lost = seen.lost
        /\ seen'.lidarBack = (seen.lidarBack \/ back)
    BY <2>1, <1>t
  <2>3. CASE back
    <3>1. lidar_buffer' = <<>> /\ time_buffer' = <<>> /\ seen'.lidarBack
      BY <2>1, <2>2, <2>3
    <3>2. Len(lidar_buffer') = Len(time_buffer') /\ Len(lidar_buffer') = 0
          /\ \A i \in DOMAIN lidar_buffer' : lidar_buffer'[i].stamp = time_buffer'[i]
      BY <3>1, <1>e
    <3>3. cfg.dual /\ Measures.lidar.stamp = Measures.beg
      BY <1>2 DEF Received, LioInv, ScansKeepTheirTimes
    <3>4. ScansKeepTheirTimes' /\ NoScanIsLost'
      BY <3>1, <3>2, <3>3, <2>1 DEF ScansKeepTheirTimes, NoScanIsLost
    <3>5. /\ IsSeq(lidar_buffer') /\ IsSeq(time_buffer')
          /\ Len(lidar_buffer') <= Len(time_buffer')
      BY <3>1, <1>e
    <3> QED BY <3>1, <3>4, <3>5, <2>1, <2>2 DEF LioInv
  <2>4. CASE ~back
    BY <2>1, <2>2, <2>4 DEF LioInv, ScansKeepTheirTimes, NoScanIsLost
  <2> QED BY <2>3, <2>4
<1> QED BY <1>1, <1>2

\* The timer neither separates a scan from its time nor loses one: the scan of
\* the group is the one it takes off the buffer.
LEMMA TimerInv ==
  ASSUME LioInv, timer_callback
  PROVE  LioInv'
<1> DEFINE f == fuse_dual_lidar_frame_once
<1> DEFINE m == IF lidar_pushed THEN Measures ELSE NextMeasures(f.scans[1], f.times[1])
<1>t. /\ {"lidar", "beg", "end", "imu"} \subseteq DOMAIN Measures
      /\ {"lidarBack", "lost"} \subseteq DOMAIN seen /\ seen.lidarBack \in BOOLEAN
      /\ UNCHANGED cfg
  BY DEF LioInv, timer_callback
<1>f. /\ IsSeq(f.scans) /\ IsSeq(f.times) /\ Len(f.scans) <= Len(f.times)
      /\ Aligned(lidar_buffer, time_buffer) => Aligned(f.scans, f.times)
      /\ lidar_buffer # <<>> => f.scans # <<>> /\ f.scans[1] = lidar_buffer[1]
  BY FuseInv
<1>a. cfg.dual \/ ~seen.lidarBack =>
        Aligned(f.scans, f.times) /\ Measures.lidar.stamp = Measures.beg
  BY <1>f DEF LioInv, ScansKeepTheirTimes, Aligned
<1>p. lidar_pushed /\ ~seen.lidarBack => f.scans # <<>> /\ Measures.lidar = f.scans[1]
  BY <1>f DEF LioInv
<1>1. CASE /\ lidar_buffer' = f.scans /\ time_buffer' = f.times
           /\ UNCHANGED <<groupVars, seen>>
  BY <1>1, <1>t, <1>f, <1>a, <1>p
     DEF LioInv, ScansKeepTheirTimes, NoScanIsLost, Aligned, groupVars
<1>m. ASSUME f.scans # <<>>
      PROVE  /\ {"lidar", "beg", "end", "imu"} \subseteq DOMAIN m
             /\ cfg.dual \/ ~seen.lidarBack => m.lidar.stamp = m.beg
             /\ seen.lidarBack \/ m.lidar = f.scans[1]
  <2>1. CASE lidar_pushed
    BY <2>1, <1>t, <1>a, <1>p
  <2>2. CASE ~lidar_pushed
    <3>1. /\ m = [Measures EXCEPT !.lidar = f.scans[1], !.beg = f.times[1],
                                  !.end = m.end]
      BY <2>2, <1>t DEF NextMeasures
    <3>2. DOMAIN m = DOMAIN Measures /\ m.lidar = f.scans[1] /\ m.beg = f.times[1]
      BY <2>2, <1>t DEF NextMeasures
    <3>3. Aligned(f.scans, f.times) => f.scans[1].stamp = f.times[1]
      <4>1. 1 \in DOMAIN f.scans
        BY <1>f, <1>m, TailOf
      <4> QED BY <4>1 DEF Aligned
    <3> QED BY <3>2, <3>3, <1>t, <1>a
  <2> QED BY <2>1, <2>2
<1>2. CASE f.scans # <<>> /\ Waits(f, m)
  <2>1. /\ Measures' = m /\ lidar_pushed' = TRUE
        /\ lidar_buffer' = f.scans /\ time_buffer' = f.times /\ UNCHANGED seen
    BY <1>2 DEF Waits
  <2> QED BY <2>1, <1>2, <1>m, <1>t, <1>f, <1>a
          DEF LioInv, ScansKeepTheirTimes, NoScanIsLost, Aligned
<1>3. CASE f.scans # <<>> /\ HandsOn(f, m)
  <2> DEFINE k == ImuOf(m.end)
  <2>1. /\ Measures' = [m EXCEPT !.imu = SubSeq(imu_buffer, 1, k)]
        /\ lidar_pushed' = FALSE
        /\ lidar_buffer' = Tail(f.scans) /\ time_buffer' = Tail(f.times)
        /\ seen' = [seen EXCEPT !.lost = @ \union ({f.scans[1]} \ {m.lidar})]
    BY <1>3 DEF HandsOn
  <2>2. DOMAIN Measures' = DOMAIN m /\ Measures'.lidar = m.lidar /\ Measures'.beg = m.beg
    BY <2>1, <1>3, <1>m
  <2>3. /\ DOMAIN seen' = DOMAIN seen /\ seen'.lidarBack = seen.lidarBack
        /\ seen'.lost = seen.lost \union ({f.scans[1]} \ {m.lidar})
    BY <2>1, <1>t
  <2>4. NoScanIsLost'
    BY <2>3, <1>3, <1>m DEF LioInv, NoScanIsLost
  <2>5. /\ IsSeq(Tail(f.scans)) /\ IsSeq(Tail(f.times))
        /\ Len(Tail(f.scans)) <= Len(Tail(f.times))
        /\ Aligned(f.scans, f.times) => Aligned(Tail(f.scans), Tail(f.times))
    <3>2. /\ IsSeq(Tail(f.scans)) /\ Len(f.scans) \in Nat \ {0}
          /\ Len(Tail(f.scans)) = Len(f.scans) - 1
          /\ DOMAIN Tail(f.scans) = 1..(Len(f.scans) - 1)
          /\ DOMAIN f.scans = 1..Len(f.scans)
          /\ \A i \in 1..(Len(f.scans) - 1) : Tail(f.scans)[i] = f.scans[i + 1]
      BY <1>3, <1>f, TailOf
    <3>3. f.times # <<>>
      <4>1. Len(<<>>) = 0
        OBVIOUS
      <4> QED BY <4>1, <3>2, <1>f
    <3>4. /\ IsSeq(Tail(f.times)) /\ Len(f.times) \in Nat
          /\ Len(Tail(f.times)) = Len(f.times) - 1
          /\ \A i \in 1..(Len(f.times) - 1) : Tail(f.times)[i] = f.times[i + 1]
      BY <3>3, <1>f, TailOf
    <3>5. Len(Tail(f.scans)) <= Len(Tail(f.times))
      BY <3>2, <3>4, <1>f
    <3>6. Aligned(f.scans, f.times) => Aligned(Tail(f.scans), Tail(f.times))
      BY <3>2, <3>4 DEF Aligned
    <3> QED BY <3>2, <3>4, <3>5, <3>6
  <2>6. ScansKeepTheirTimes'
    BY <2>1, <2>2, <2>3, <2>5, <1>3, <1>m, <1>t, <1>a DEF ScansKeepTheirTimes, Aligned
  <2> QED BY <2>1, <2>2, <2>3, <2>4, <2>5, <2>6, <1>t, <1>m, <1>3 DEF LioInv
<1> QED BY <1>1, <1>2, <1>3 DEF timer_callback, groupVars
\* The other callbacks leave the scans alone.
LEMMA OtherCallbacksInv ==
  ASSUME LioInv,
         \/ initial_pose_cbk
         \/ \E frames \in {"lidars", "base"} : TfArrives(frames)
         \/ \E raw : imu_cbk(raw)
         \/ map_publish_callback
         \/ \E written \in BOOLEAN : map_save_callback(written)
         \/ UNCHANGED lioVars
  PROVE  LioInv'
<1>1. UNCHANGED <<cfg, lidar_buffer, time_buffer, Measures, lidar_pushed>>
  BY DEF initial_pose_cbk, TfArrives, imu_cbk, map_publish_callback, map_save_callback,
         lioVars, lidarVars, groupVars
<1>2. CASE \E raw : imu_cbk(raw)
  <2>1. PICK raw : imu_cbk(raw)
    BY <1>2
  <2> DEFINE t == raw + timediff
             back == t < last_timestamp_imu
  <2>2. seen' = [seen EXCEPT !.imus = @ + 1, !.imuBack = @ \/ back,
                             !.back = BackCount(t, last_timestamp_imu)]
    BY <2>1 DEF imu_cbk
  <2> HIDE DEF back, t
  <2>3. {"lidarBack", "lost"} \subseteq DOMAIN seen
    BY DEF LioInv
  <2>4. DOMAIN seen' = DOMAIN seen /\ seen'.lidarBack = seen.lidarBack /\ seen'.lost = seen.lost
    BY <2>2, <2>3
  <2> QED BY <1>1, <2>4 DEF LioInv, ScansKeepTheirTimes, NoScanIsLost
<1>3. CASE UNCHANGED seen
  BY <1>1, <1>3 DEF LioInv, ScansKeepTheirTimes, NoScanIsLost
<1> QED BY <1>2, <1>3 DEF initial_pose_cbk, TfArrives, map_publish_callback,
     map_save_callback, lioVars

\* What keeps scans and their times paired holds for ever: LioInv is inductive under
\* every callback and the timer of FAST_LIO.
THEOREM LioInvariance == LioSpec => []LioInv
<1>1. LioInit => LioInv
  <2> SUFFICES ASSUME LioInit PROVE LioInv
    OBVIOUS
  <2>1. <<>> \in Seq({}) /\ Len(<<>>) = 0 /\ DOMAIN <<>> = {}
    BY EmptySeq, LenProperties
  <2>2. /\ lidar_buffer = <<>> /\ time_buffer = <<>> /\ lidar_pushed = FALSE /\ cfg \in Configs
        /\ Measures = [lidar |-> NoScan, beg |-> 0, end |-> 0, imu |-> <<>>]
        /\ seen.lidarBack = FALSE /\ seen.lost = {} /\ {"lidarBack", "lost"} \subseteq DOMAIN seen
    BY DEF LioInit
  <2>3. Measures.lidar.stamp = 0 /\ Measures.beg = 0
    BY <2>2 DEF NoScan
  <2>4. IsSeq(lidar_buffer) /\ IsSeq(time_buffer)
    BY <2>1, <2>2 DEF IsSeq
  <2>5. /\ Len(lidar_buffer) = Len(time_buffer) /\ Len(lidar_buffer) <= Len(time_buffer)
        /\ \A i \in DOMAIN lidar_buffer : lidar_buffer[i].stamp = time_buffer[i]
    BY <2>1, <2>2
  <2> QED BY <2>2, <2>3, <2>4, <2>5 DEF LioInv, ScansKeepTheirTimes, NoScanIsLost
<1>2. LioInv /\ [LioNext]_lioVars => LioInv'
  <2> SUFFICES ASSUME LioInv, [LioNext]_lioVars PROVE LioInv'
    OBVIOUS
  <2>1. \/ \E t, shape : standard_pcl_cbk(t, shape)
        \/ \E side \in {"right", "left"} : \E t : Received(side, t)
        \/ timer_callback
        \/ initial_pose_cbk
        \/ \E frames \in {"lidars", "base"} : TfArrives(frames)
        \/ \E raw : imu_cbk(raw)
        \/ map_publish_callback
        \/ \E written \in BOOLEAN : map_save_callback(written)
        \/ UNCHANGED lioVars
    BY DEF LioNext, livox_pcl_cbk_right, livox_pcl_cbk_left
  <2> QED BY <2>1, ReceiveInv, TimerInv, OtherCallbacksInv
<1> QED BY <1>1, <1>2, PTL DEF LioSpec

\* With two lidars, and with one until its stamps go back, every scan keeps its
\* time, however frames are dropped, cleared and fused.
THEOREM ScanTimesCorrect == LioSpec => []ScansKeepTheirTimes
  BY LioInvariance, PTL DEF LioInv

\* sync_packages takes off the buffer the very scan it has put into the group.
THEOREM NoLossCorrect == LioSpec => []NoScanIsLost
  BY LioInvariance, PTL DEF LioInv

\* Until the IMU is initialised there is no cloud that could be registered.
OdomInv ==
    /\ {"need_init", "iter", "last_imu", "last_end", "covered"} \subseteq DOMAIN imuState
    /\ imuState.need_init \in BOOLEAN
    /\ imuState.need_init => feats = NoScan

LEMMA OdomStep ==
  ASSUME OdomInv, [LioNext]_lioVars
  PROVE  OdomInv' /\ (odom' # odom => odom'.cloud = Measures'.lidar \/ Measures'.imu = <<>>)
<1>1. CASE UNCHANGED <<imuState, feats, odom>>
  BY <1>1 DEF OdomInv
<1>2. CASE Process(Measures') /\ Register(Measures')
  <2>1. odom' = odom \/ (feats'.n # 0 /\ odom'.cloud = feats')
    BY <1>2 DEF Register, publish_odometry
  <2>2. CASE Measures'.imu = <<>>
    BY <2>2, <1>2 DEF Process, OdomInv
  <2>3. CASE Measures'.imu # <<>> /\ imuState.need_init
    <3>1. /\ imuState' = [IMU_init(Measures') EXCEPT
                            !.need_init = ~(IMU_init(Measures').iter > MaxInitImu)]
          /\ feats' = feats
      BY <2>3, <1>2 DEF Process
    <3>2. DOMAIN imuState' = DOMAIN imuState /\ imuState'.need_init \in BOOLEAN
      BY <3>1 DEF IMU_init, OdomInv
    <3>3. feats' = NoScan /\ feats'.n = 0
      BY <2>3, <3>1 DEF OdomInv, NoScan
    <3> QED BY <2>1, <3>2, <3>3 DEF OdomInv
  <2>4. CASE Measures'.imu # <<>> /\ ~imuState.need_init
    <3> DEFINE to == IF imuState.covered = -1 THEN Measures'.end
                     ELSE imuState.covered + Propagated(Measures')
    <3>1. /\ imuState' = [imuState EXCEPT !.last_imu = Measures'.imu[Len(Measures'.imu)],
                                          !.last_end = Measures'.end, !.covered = to]
          /\ feats' = Measures'.lidar
      BY <2>4, <1>2 DEF Process
    <3> HIDE DEF to
    <3>2. DOMAIN imuState' = DOMAIN imuState /\ imuState'.need_init = imuState.need_init
      BY <3>1 DEF OdomInv
    <3> QED BY <2>1, <2>4, <3>1, <3>2 DEF OdomInv
  <2> QED BY <2>2, <2>3, <2>4 DEF OdomInv
<1>3. CASE timer_callback
  <2>1. UNCHANGED <<filterVars, imu_predict>> \/ (Process(Measures') /\ Register(Measures'))
    BY <1>3 DEF timer_callback, Waits
  <2> QED BY <2>1, <1>1, <1>2 DEF filterVars
<1>4. CASE \/ \E t, shape : standard_pcl_cbk(t, shape)
           \/ \E side, t : Received(side, t)
  BY <1>4, <1>1 DEF standard_pcl_cbk, Received, filterVars
<1>5. CASE \/ initial_pose_cbk
           \/ \E frames : TfArrives(frames)
           \/ \E raw : imu_cbk(raw)
           \/ map_publish_callback
           \/ \E written : map_save_callback(written)
           \/ UNCHANGED lioVars
  BY <1>5, <1>1 DEF initial_pose_cbk, TfArrives, imu_cbk, map_publish_callback,
     map_save_callback, lioVars, filterVars
<1> QED BY <1>3, <1>4, <1>5 DEF LioNext, livox_pcl_cbk_right, livox_pcl_cbk_left

\* Every odometry is that of the group's own scan, or of a group without IMU
\* messages, whatever the callbacks did to the buffers in between.
THEOREM OdometryCorrect == LioSpec => OdometryIsOfItsScan
<1>1. LioInit => OdomInv
  BY DEF LioInit, OdomInv
<1>2. OdomInv /\ [LioNext]_lioVars =>
        OdomInv' /\ [odom' # odom => odom'.cloud = Measures'.lidar \/ Measures'.imu = <<>>]_lioVars
  BY OdomStep
<1> QED BY <1>1, <1>2, PTL DEF LioSpec, OdometryIsOfItsScan

-----------------------------------------------------------------------------
(* The times of the filter and of the prediction.                            *)

ScanRec == [stamp : Int, n : Nat, dur : Nat]

PredictFields == {"buffer", "started", "last", "reached", "skipped", "filtered", "count"}

LioTypes ==
    /\ cfg \in Configs
    /\ right \in Seq(ScanRec) /\ left \in Seq(ScanRec) /\ lidar_buffer \in Seq(ScanRec)
    /\ time_buffer \in Seq(Int) /\ imu_buffer \in Seq(Int)
    /\ lastLidar \in [any : Int, right : Int, left : Int]
    /\ last_timestamp_imu \in Int /\ timediff \in Int
    /\ Measures \in [lidar : ScanRec, beg : Int, end : Int, imu : Seq(Int)]
    /\ lidar_pushed \in BOOLEAN
    /\ scanTime \in [sum : Nat, num : Nat]
    /\ "imuBack" \in DOMAIN seen /\ seen.imuBack \in BOOLEAN
    /\ {"need_init", "iter", "last_imu", "last_end", "covered"} \subseteq DOMAIN imuState
    /\ imuState.need_init \in BOOLEAN
    /\ imuState.last_imu \in Int /\ imuState.last_end \in Int
    /\ PredictFields \subseteq DOMAIN imu_predict
    /\ imu_predict.buffer \in Seq(Int) /\ imu_predict.started \in BOOLEAN

Sorted(s) == \A i, j \in 1..Len(s) : i <= j => s[i] <= s[j]

\* What waits for the next scan came after the end of the last one, and the
\* filter's last message before it: the next propagation starts where this one ended.
FilterInv ==
    /\ imuState.need_init => imuState.covered = -1
    /\ ~seen.imuBack =>
         /\ Sorted(imu_buffer)
         /\ \A i \in 1..Len(imu_buffer) : imu_buffer[i] <= last_timestamp_imu
    /\ imuState.covered # -1 /\ ~seen.imuBack =>
         /\ imuState.covered = imuState.last_end
         /\ imuState.last_imu <= imuState.last_end
         /\ imuState.last_end <= last_timestamp_imu
         /\ \A i \in 1..Len(imu_buffer) : imuState.last_end <= imu_buffer[i]

\* The prediction keeps the last message, whatever scan it restarts from.
PredictInv ==
    /\ imu_buffer # <<>> \/ imu_predict.started => imu_predict.buffer # <<>>
    /\ imu_predict.buffer # <<>> =>
         imu_predict.buffer[Len(imu_predict.buffer)] = last_timestamp_imu
    /\ ~seen.imuBack => Sorted(imu_predict.buffer)
    /\ imu_predict.started /\ ~seen.imuBack =>
         imu_predict.reached \in Int /\ imu_predict.skipped \in Int
    /\ PredictionReachesLastImu

\* What the body of OnlyEmptyGroupsLag says of a step.
OnTime ==
    \/ seen'.imuBack \/ Measures'.imu = <<>>
    \/ /\ odom' # odom => odom'.state = odom'.end
       /\ imu_predict'.skipped \in {0, imu_predict.skipped}

TimesInv == LioTypes /\ FilterInv /\ PredictInv

\* s holds the sums of the steps d before and after each of them.
PartialSums(s, d, n) ==
    /\ s = [i \in 0..n |-> s[i]]
    /\ s[0] = 0 /\ \A i \in 1..n : s[i] = s[i - 1] + d[i]

LEMMA TotalIs ==
  ASSUME NEW n \in Nat, NEW d, NEW s, PartialSums(s, d, n)
  PROVE  Total(d, n) = s[n]
<1>0. /\ s = [i \in 0..n |-> s[i]]
      /\ s[0] = 0 /\ \A i \in 1..n : s[i] = s[i - 1] + d[i]
  BY DEF PartialSums
<1> DEFINE f == CHOOSE g : g = [i \in 0..n |-> IF i = 0 THEN 0 ELSE g[i - 1] + d[i]]
<1>1. s = [i \in 0..n |-> IF i = 0 THEN 0 ELSE s[i - 1] + d[i]]
  <2> DEFINE t == [i \in 0..n |-> IF i = 0 THEN 0 ELSE s[i - 1] + d[i]]
  <2>1. \A i \in 0..n : s[i] = t[i]
    BY <1>0
  <2> HIDE DEF t
  <2>2. [i \in 0..n |-> s[i]] = [i \in 0..n |-> t[i]]
    BY <2>1
  <2>3. t = [i \in 0..n |-> t[i]]
    BY DEF t
  <2> QED BY <2>2, <2>3, <1>0 DEF t
<1>2. f = [i \in 0..n |-> IF i = 0 THEN 0 ELSE f[i - 1] + d[i]]
  BY <1>1
<1>3. Total(d, n) = f[n]
  BY DEF Total
<1> HIDE DEF f
<1>4. f[0] = 0 /\ \A i \in 1..n : f[i] = f[i - 1] + d[i]
  <2>1. \A i \in 0..n : f[i] = IF i = 0 THEN 0 ELSE f[i - 1] + d[i]
    BY <1>2
  <2>2. 0 \in 0..n /\ \A i \in 1..n : i \in 0..n /\ i # 0
    OBVIOUS
  <2> QED BY <2>1, <2>2
<1> DEFINE B == {i \in 0..n : f[i] # s[i]}
<1>5. B = {}
  <2> SUFFICES ASSUME B # {} PROVE FALSE
    OBVIOUS
  <2>1. B \in SUBSET Nat
    OBVIOUS
  <2>2. PICK h \in B : \A k \in B : h <= k
    BY <2>1, LeastExists
  <2>3. h \in 0..n /\ f[h] # s[h] /\ h # 0
    BY <2>2, <1>0, <1>4
  <2>4. h \in 1..n /\ h - 1 \in 0..n /\ ~(h <= h - 1)
    BY <2>3
  <2>5. h - 1 \notin B
    BY <2>2, <2>4
  <2>6. f[h - 1] = s[h - 1]
    BY <2>4, <2>5
  <2> QED BY <2>3, <2>4, <2>6, <1>0, <1>4
<1>6. n \in 0..n
  OBVIOUS
<1> QED BY <1>3, <1>5, <1>6

\* The walk over the buffers of the two lidars counts scans.
LEMMA FrontsCount ==
  ASSUME right \in Seq(ScanRec), left \in Seq(ScanRec)
  PROVE  Fronts[1] \in Nat \ {0} /\ Fronts[2] \in Nat \ {0}
<1> DEFINE n == Len(right) + Len(left)
           P == (Nat \ {0}) \X (Nat \ {0})
           Step(p) == IF \/ p[1] > Len(right) \/ p[2] > Len(left)
                         \/ right[p[1]].stamp = left[p[2]].stamp THEN <<p[1], p[2]>>
                      ELSE IF left[p[2]].stamp > right[p[1]].stamp THEN <<p[1] + 1, p[2]>>
                      ELSE <<p[1], p[2] + 1>>
           Walk(f, k) == /\ f = [i \in 0..k |-> f[i]]
                         /\ \A i \in 0..k : f[i] = IF i = 0 THEN <<1, 1>> ELSE Step(f[i - 1])
           B == {k \in 0..n : ~\E f : Walk(f, k)}
<1>1. n \in Nat
  BY LenProperties
<1>2. \A p \in P : Step(p) \in P
  OBVIOUS
<1> HIDE DEF n, Step, P
<1>3. B = {}
  <2> SUFFICES ASSUME B # {} PROVE FALSE
    OBVIOUS
  <2>1. B \in SUBSET Nat
    OBVIOUS
  <2>2. PICK h \in B : \A k \in B : h <= k
    BY <2>1, LeastExists
  <2>3. h \in 0..n /\ ~\E f : Walk(f, h)
    BY <2>2
  <2>4. CASE h = 0
    <3> DEFINE s == [i \in 0..0 |-> <<1, 1>>]
    <3>1. s = [i \in 0..0 |-> s[i]] /\ \A i \in 0..0 : s[i] = <<1, 1>> /\ i = 0
      OBVIOUS
    <3> HIDE DEF s
    <3>2. Walk(s, 0)
      BY <3>1
    <3> QED BY <3>2, <2>3, <2>4
  <2>5. CASE h # 0
    <3>1. h - 1 \in 0..n /\ h - 1 \notin B
      BY <2>2, <2>3, <2>5, <1>1
    <3>2. PICK r : Walk(r, h - 1)
      BY <3>1
    <3> DEFINE s == [i \in 0..h |-> IF i = h THEN Step(r[h - 1]) ELSE r[i]]
    <3>3. \A i \in 0..h : s[i] = IF i = h THEN Step(r[h - 1]) ELSE r[i]
      OBVIOUS
    <3>4. s = [i \in 0..h |-> s[i]]
      OBVIOUS
    <3> HIDE DEF s, B
    <3>5. ASSUME NEW i \in 0..h PROVE s[i] = IF i = 0 THEN <<1, 1>> ELSE Step(s[i - 1])
      <4>1. CASE i = h
        <5>1. h - 1 \in 0..h /\ h - 1 # h
          BY <2>3, <2>5, <1>1
        <5>2. s[h - 1] = r[h - 1] /\ s[h] = Step(r[h - 1])
          BY <3>3, <3>5, <4>1, <5>1
        <5> QED BY <4>1, <5>2, <2>5
      <4>2. CASE i # h
        <5>1. i \in 0..(h - 1) /\ s[i] = r[i]
          BY <3>3, <3>5, <4>2, <2>3, <1>1
        <5>2. r[i] = IF i = 0 THEN <<1, 1>> ELSE Step(r[i - 1])
          BY <3>2, <5>1
        <5>3. i # 0 => s[i - 1] = r[i - 1]
          <6>1. i # 0 => i - 1 \in 0..h /\ i - 1 # h
            BY <3>5, <2>3, <1>1
          <6> QED BY <6>1, <3>3
        <5> QED BY <5>1, <5>2, <5>3
      <4> QED BY <4>1, <4>2
    <3>6. Walk(s, h)
      BY <3>4, <3>5
    <3> QED BY <3>6, <2>3
  <2> QED BY <2>4, <2>5
<1>4. n \in 0..n /\ n \notin B
  BY <1>1, <1>3
<1>5. PICK r : Walk(r, n)
  BY <1>4
<1> DEFINE Body(f) == [k \in 0..n |-> IF k = 0 THEN <<1, 1>> ELSE Step(f[k - 1])]
           f == CHOOSE g : g = Body(g)
<1>6. r = Body(r)
  <2> DEFINE t == Body(r)
  <2>1. t = [k \in 0..n |-> t[k]] /\ \A k \in 0..n : t[k] = IF k = 0 THEN <<1, 1>> ELSE Step(r[k - 1])
    OBVIOUS
  <2> HIDE DEF t, Body
  <2>2. \A k \in 0..n : r[k] = t[k]
    BY <2>1, <1>5
  <2>3. [k \in 0..n |-> r[k]] = [k \in 0..n |-> t[k]]
    BY <2>2
  <2> QED BY <2>1, <2>3, <1>5 DEF t
<1> HIDE DEF Body
<1>7. f = Body(f)
  BY <1>6
<1>8. Fronts = f[n]
  BY DEF Fronts, Body, Step, n
<1> HIDE DEF f
<1>9. \A k \in 0..n : f[k] = IF k = 0 THEN <<1, 1>> ELSE Step(f[k - 1])
  BY <1>7 DEF Body
<1> DEFINE C == {k \in 0..n : f[k] \notin P}
<1>10. C = {}
  <2> SUFFICES ASSUME C # {} PROVE FALSE
    OBVIOUS
  <2>1. C \in SUBSET Nat
    OBVIOUS
  <2>2. PICK h \in C : \A k \in C : h <= k
    BY <2>1, LeastExists
  <2>3. h \in 0..n /\ f[h] \notin P
    BY <2>2
  <2>4. h # 0
    BY <2>3, <1>9 DEF P
  <2>5. h - 1 \in 0..n /\ ~(h <= h - 1)
    BY <2>3, <2>4, <1>1
  <2>6. f[h - 1] \in P
    BY <2>2, <2>5
  <2> QED BY <2>3, <2>4, <2>6, <1>2, <1>9
<1>11. Fronts \in P
  BY <1>4, <1>8, <1>10
<1> QED BY <1>11 DEF P

\* fuse_dual_lidar_frame_once makes scans of scans.
LEMMA FuseTypes ==
  ASSUME LioTypes, NEW f, f = fuse_dual_lidar_frame_once
  PROVE  /\ f.right \in Seq(ScanRec) /\ f.left \in Seq(ScanRec)
         /\ f.scans \in Seq(ScanRec) /\ f.times \in Seq(Int)
<1> DEFINE i == Fronts[1]
           j == Fronts[2]
<1>1. /\ right \in Seq(ScanRec) /\ left \in Seq(ScanRec)
      /\ lidar_buffer \in Seq(ScanRec) /\ time_buffer \in Seq(Int)
  BY DEF LioTypes
<1>2. i \in Nat \ {0} /\ j \in Nat \ {0}
  BY <1>1, FrontsCount
<1> DEFINE Rest(s, k) == SubSeq(s, k, Len(s))
           e == [stamp |-> right[i].stamp, n |-> right[i].n + left[j].n,
                 dur |-> LaterOf(right[i].dur, left[j].dur)]
<1>3. \/ /\ i <= Len(right) /\ j <= Len(left)
         /\ f = [right |-> Rest(right, i + 1), left |-> Rest(left, j + 1),
                 scans |-> Append(lidar_buffer, e), times |-> Append(time_buffer, right[i].stamp)]
      \/ f = [right |-> Rest(right, i), left |-> Rest(left, j),
              scans |-> lidar_buffer, times |-> time_buffer]
  BY DEF fuse_dual_lidar_frame_once
<1> HIDE DEF i, j
<1>4. ASSUME NEW s \in Seq(ScanRec), NEW k \in Nat \ {0} PROVE Rest(s, k) \in Seq(ScanRec)
  <2>1. \A l \in k..Len(s) : s[l] \in ScanRec
    BY ElementOfSeq, LenProperties
  <2> QED BY <2>1, LenProperties, SubSeqProperties
<1>5. ASSUME i <= Len(right), j <= Len(left) PROVE e \in ScanRec /\ right[i].stamp \in Int
  <2>1. right[i] \in ScanRec /\ left[j] \in ScanRec
    BY <1>1, <1>2, <1>5, ElementOfSeq
  <2> QED BY <2>1 DEF ScanRec, LaterOf
<1> HIDE DEF Rest, e
<1>6. i + 1 \in Nat \ {0} /\ j + 1 \in Nat \ {0}
  BY <1>2
<1>7. CASE /\ i <= Len(right) /\ j <= Len(left)
           /\ f = [right |-> Rest(right, i + 1), left |-> Rest(left, j + 1),
                   scans |-> Append(lidar_buffer, e), times |-> Append(time_buffer, right[i].stamp)]
  <2>1. Append(lidar_buffer, e) \in Seq(ScanRec) /\ Append(time_buffer, right[i].stamp) \in Seq(Int)
    BY <1>1, <1>5, <1>7, AppendProperties
  <2>2. Rest(right, i + 1) \in Seq(ScanRec) /\ Rest(left, j + 1) \in Seq(ScanRec)
    BY <1>1, <1>4, <1>6
  <2> QED BY <1>7, <2>1, <2>2
<1>8. CASE f = [right |-> Rest(right, i), left |-> Rest(left, j),
                scans |-> lidar_buffer, times |-> time_buffer]
  BY <1>1, <1>2, <1>4, <1>8
<1> QED BY <1>3, <1>7, <1>8

\* The messages that go with a scan are those up to its end, in a buffer in order.
LEMMA ImuOfSplits ==
  ASSUME imu_buffer \in Seq(Int), NEW end \in Int
  PROVE  /\ ImuOf(end) \in 0..Len(imu_buffer)
         /\ Sorted(imu_buffer) =>
              /\ \A i \in 1..ImuOf(end) : imu_buffer[i] <= end
              /\ \A i \in (ImuOf(end) + 1)..Len(imu_buffer) : end <= imu_buffer[i]
<1> DEFINE b == imu_buffer
           n == Len(b)
           S == {i \in DOMAIN b : b[i] < end}
           ahead == Cardinality(S)
<1>1. n \in Nat /\ DOMAIN b = 1..n /\ \A i \in 1..n : b[i] \in Int
  BY LenProperties, ElementOfSeq
<1>2. ImuOf(end) = IF 0 < ahead /\ ahead < n /\ b[ahead + 1] = end THEN ahead + 1 ELSE ahead
  BY DEF ImuOf
<1> HIDE DEF b, n
<1>3. ahead \in 0..n /\ IsFiniteSet(S)
  <2>1. IsFiniteSet(1..n) /\ Cardinality(1..n) = n
    BY <1>1, FS_Interval
  <2>2. S \subseteq 1..n
    BY <1>1
  <2> HIDE DEF S
  <2>3. IsFiniteSet(S) /\ Cardinality(S) <= Cardinality(1..n) /\ Cardinality(S) \in Nat
    BY <2>1, <2>2, FS_Subset, FS_CardinalityType
  <2> QED BY <2>1, <2>3, <1>1
<1>4. ASSUME Sorted(b) PROVE S = 1..ahead
  <2>1. \A i, j \in 1..n : j \in S /\ i <= j => i \in S
    BY <1>1, <1>4 DEF Sorted, n
  <2>2. CASE S = {}
    <3>1. ahead = 0
      BY <2>2, FS_EmptySet
    <3> HIDE DEF ahead
    <3> QED BY <2>2, <3>1
  <2>3. CASE S # {}
    <3>1. S \in SUBSET (0..n) /\ \A i \in S : i \in 1..n
      BY <1>1
    <3>2. PICK g \in S : \A k \in S : k <= g
      BY <3>1, <2>3, <1>1, GreatestExists
    <3>3. S = 1..g
      <4>1. g \in 1..n
        BY <3>1
      <4>2. \A i \in 1..g : i \in 1..n /\ i <= g
        BY <4>1, <1>1
      <4>3. \A i \in 1..g : i \in S
        BY <4>1, <4>2, <3>2, <2>1
      <4> HIDE DEF S
      <4>4. \A i \in S : i \in 1..g
        BY <3>1, <3>2, <4>1, <1>1
      <4> QED BY <4>3, <4>4
    <3>4. Cardinality(1..g) = g
      BY <3>1, <3>2, FS_Interval
    <3> QED BY <3>3, <3>4
  <2> QED BY <2>2, <2>3
<1>5. ASSUME Sorted(b), NEW i \in 1..n PROVE i <= ahead <=> b[i] < end
  <2>1. i \in 1..ahead <=> b[i] < end
    BY <1>1, <1>4, <1>5
  <2> HIDE DEF ahead
  <2> QED BY <2>1, <1>3
<1> HIDE DEF ahead
<1>6. ImuOf(end) \in 0..n
  BY <1>1, <1>2, <1>3
<1>7. ASSUME Sorted(b)
      PROVE  /\ \A i \in 1..ImuOf(end) : b[i] <= end
             /\ \A i \in (ImuOf(end) + 1)..n : end <= b[i]
  <2>1. \A i \in 1..n : b[i] \in Int /\ (i <= ahead <=> b[i] < end)
    BY <1>1, <1>5, <1>7
  <2>2. CASE ImuOf(end) = ahead
    BY <2>1, <2>2, <1>1, <1>3
  <2>3. CASE ImuOf(end) = ahead + 1 /\ ahead < n /\ b[ahead + 1] = end
    <3>1. \A i \in 1..(ahead + 1) : i <= ahead \/ i = ahead + 1
      BY <1>3
    <3>2. \A i \in 1..(ahead + 1) : i \in 1..n
      BY <2>3, <1>1, <1>3
    <3>3. \A i \in 1..(ahead + 1) : b[i] <= end
      BY <3>1, <3>2, <2>1, <2>3
    <3>4. \A i \in (ahead + 2)..n : i \in 1..n /\ ~(i <= ahead)
      BY <1>1, <1>3
    <3>5. \A i \in (ahead + 2)..n : end <= b[i]
      BY <3>4, <2>1
    <3> QED BY <2>3, <3>3, <3>5, <1>3
  <2> QED BY <2>2, <2>3, <1>2
<1> QED BY <1>6, <1>7 DEF n, b

\* UndistortPcl leads the filter from the end of the last scan to the end of this one,
\* when its messages lie between the two.
LEMMA PropagatedExactly ==
  ASSUME NEW m, m.imu \in Seq(Int), m.imu # <<>>, m.end \in Int, Sorted(m.imu),
         imuState.last_imu \in Int, imuState.last_end \in Int,
         imuState.last_imu <= imuState.last_end,
         \A i \in 1..Len(m.imu) : imuState.last_end <= m.imu[i] /\ m.imu[i] <= m.end
  PROVE  Propagated(m) = m.end - imuState.last_end
<1> DEFINE from == imuState.last_end
           n == Len(m.imu)
           v == <<imuState.last_imu>> \o m.imu
           dt == [i \in 1..n |->
                    IF v[i + 1] < from THEN 0
                    ELSE IF v[i] < from THEN v[i + 1] - from ELSE v[i + 1] - v[i]]
           s == [i \in 0..n |-> IF i = 0 THEN 0 ELSE m.imu[i] - from]
<1>1. n \in Nat \ {0} /\ \A i \in 1..n : m.imu[i] \in Int
  BY LenProperties, ElementOfSeq, EmptySeq
<1>2. /\ Len(v) = n + 1 /\ v[1] = imuState.last_imu
      /\ \A i \in 1..n : v[i + 1] = m.imu[i]
  <2>1. <<imuState.last_imu>> \in Seq(Int) /\ Len(<<imuState.last_imu>>) = 1
    BY LenProperties
  <2>2. /\ Len(v) = 1 + n
        /\ \A i \in 1..(1 + n) : v[i] = IF i <= 1 THEN <<imuState.last_imu>>[i] ELSE m.imu[i - 1]
    BY <2>1, ConcatProperties
  <2>3. \A i \in 1..n : i + 1 \in 1..(1 + n) /\ ~(i + 1 <= 1) /\ (i + 1) - 1 = i
    BY <1>1
  <2>4. 1 \in 1..(1 + n)
    BY <1>1
  <2> HIDE DEF v
  <2> QED BY <2>2, <2>3, <2>4, <1>1
<1>3. Propagated(m) = Total(dt, n) + Distance(m.end, v[n + 1])
  BY <1>2 DEF Propagated
<1> HIDE DEF v
<1>4. \A i \in 1..n : dt[i] = m.imu[i] - IF i = 1 THEN from ELSE m.imu[i - 1]
  <2> SUFFICES ASSUME NEW i \in 1..n PROVE dt[i] = m.imu[i] - IF i = 1 THEN from ELSE m.imu[i - 1]
    OBVIOUS
  <2>1. v[i + 1] = m.imu[i] /\ m.imu[i] \in Int /\ from <= m.imu[i] /\ from \in Int
    BY <1>1, <1>2
  <2>2. CASE i = 1
    <3>1. v[i] = imuState.last_imu
      BY <1>2, <2>2
    <3>2. v[i] < from \/ v[i] = from
      BY <3>1
    <3> QED BY <2>1, <2>2, <3>1, <3>2
  <2>3. CASE i # 1
    <3>1. i - 1 \in 1..n /\ (i - 1) + 1 = i
      BY <2>3, <1>1
    <3>2. v[i] = m.imu[i - 1] /\ from <= m.imu[i - 1] /\ m.imu[i - 1] \in Int
      BY <3>1, <1>1, <1>2
    <3> QED BY <2>1, <2>3, <3>2
  <2> QED BY <2>2, <2>3
<1>5. Total(dt, n) = s[n]
  <2>1. \A i \in 0..n : s[i] = IF i = 0 THEN 0 ELSE m.imu[i] - from
    OBVIOUS
  <2>2. s = [i \in 0..n |-> s[i]]
    OBVIOUS
  <2> HIDE DEF s, dt
  <2>3. s[0] = 0
    BY <2>1, <1>1
  <2>4. ASSUME NEW i \in 1..n PROVE s[i] = s[i - 1] + dt[i]
    <3>1. i \in 0..n /\ i - 1 \in 0..n /\ i # 0 /\ s[i] = m.imu[i] - from
      BY <2>1, <1>1
    <3>2. s[i - 1] = IF i = 1 THEN 0 ELSE m.imu[i - 1] - from
      BY <2>1, <3>1, <1>1
    <3>3. i = 1 \/ i - 1 \in 1..n
      BY <1>1
    <3>4. m.imu[i] \in Int /\ from \in Int /\ (i = 1 \/ m.imu[i - 1] \in Int)
      BY <1>1, <3>3
    <3> QED BY <3>1, <3>2, <3>4, <1>4
  <2>5. n \in Nat
    BY <1>1
  <2>6. PartialSums(s, dt, n)
    BY <2>2, <2>3, <2>4 DEF PartialSums
  <2> QED BY <2>5, <2>6, TotalIs
<1>6. n \in 0..n /\ n \in 1..n /\ n # 0
  BY <1>1
<1>7. s[n] = m.imu[n] - from /\ v[n + 1] = m.imu[n] /\ m.imu[n] \in Int /\ m.imu[n] <= m.end
  BY <1>1, <1>2, <1>6
<1> HIDE DEF dt, s, n
<1>8. Distance(m.end, m.imu[n]) = m.end - m.imu[n]
  BY <1>7 DEF Distance
<1> QED BY <1>3, <1>5, <1>7, <1>8

\* The prediction restarts at the end of a scan, keeps the messages from there on, and
\* ends at the last of them, but for what the state it started from lacked.
LEMMA RestartReaches ==
  ASSUME PredictFields \subseteq DOMAIN imu_predict,
         imu_predict.buffer \in Seq(Int), imu_predict.buffer # <<>>,
         NEW end \in Int, end <= imu_predict.buffer[Len(imu_predict.buffer)],
         NEW stateAt, NEW q, q = Restarted(end, stateAt)
  PROVE  /\ DOMAIN q = DOMAIN imu_predict /\ q.started = TRUE
         /\ q.buffer \in Seq(Int) /\ q.buffer # <<>>
         /\ q.buffer[Len(q.buffer)] = imu_predict.buffer[Len(imu_predict.buffer)]
         /\ Sorted(imu_predict.buffer) =>
              /\ Sorted(q.buffer)
              /\ stateAt \in Int =>
                   /\ q.reached \in Int /\ q.skipped \in Int
                   /\ q.reached + q.skipped = imu_predict.buffer[Len(imu_predict.buffer)]
              /\ q.last = imu_predict.buffer[Len(imu_predict.buffer)]
<1> DEFINE p == imu_predict
           b == p.buffer
           n == Len(b)
           old == {k \in 0..n : \A i \in 1..k : b[i] < end}
           g == CHOOSE k \in old : \A l \in old : l <= k
           keep == SubSeq(b, g + 1, n)
           chain == <<end>> \o keep
           steps == {i \in 2..Len(chain) : chain[i] > chain[i - 1]}
           dt == [i \in 1..Len(keep) |-> LaterOf(chain[i + 1] - chain[i], 0)]
           top == {1} \union steps
           c == CHOOSE i \in top : \A k \in top : k <= i
<1>1. q = [p EXCEPT !.buffer = keep, !.started = TRUE, !.filtered = FALSE,
                    !.reached = stateAt + Total(dt, Len(keep)), !.skipped = end - stateAt,
                    !.last = chain[c]]
  BY DEF Restarted
<1>2. n \in Nat \ {0} /\ \A i \in 1..n : b[i] \in Int
  BY LenProperties, ElementOfSeq, EmptySeq
<1>3. b \in Seq(Int) /\ end <= b[n]
  OBVIOUS
<1> HIDE DEF b, n
<1>4. g \in old /\ \A l \in old : l <= g
  <2>1. old \in SUBSET (0..n) /\ 0 \in old
    BY <1>2
  <2>2. \E k \in old : \A l \in old : l <= k
    <3> HIDE DEF old
    <3> QED BY <2>1, <1>2, GreatestExists
  <2> QED BY <2>2
<1> HIDE DEF g
<1>5. g \in 0..(n - 1) /\ (g + 1) \in 1..n /\ ~(b[g + 1] < end)
  <2>1. g \in 0..n /\ \A i \in 1..g : b[i] < end
    BY <1>4
  <2>2. g # n
    <3>1. g = n => b[n] < end /\ b[n] \in Int
      BY <2>1, <1>2
    <3> QED BY <3>1, <1>3
  <2>3. g \in 0..(n - 1) /\ g + 1 \in 1..n /\ g + 1 \in 0..n
    BY <2>1, <2>2, <1>2
  <2>4. b[g + 1] < end => g + 1 \in old
    <3>1. \A i \in 1..(g + 1) : i \in 1..g \/ i = g + 1
      BY <2>1
    <3> QED BY <3>1, <2>1, <2>3
  <2>5. ~(g + 1 <= g)
    BY <2>1
  <2> QED BY <2>3, <2>4, <2>5, <1>4
<1>6. /\ keep \in Seq(Int) /\ Len(keep) = n - g /\ Len(keep) \in Nat \ {0}
      /\ \A i \in 1..(n - g) : keep[i] = b[g + i] /\ g + i \in 1..n
  <2>1. \A i \in (g + 1)..n : b[i] \in Int
    BY <1>2, <1>5
  <2>2. g + 1 \in Nat /\ n \in Nat /\ g + 1 <= n /\ g \in Int
    BY <1>2, <1>5
  <2>3. /\ keep \in Seq(Int) /\ Len(keep) = n - g
        /\ \A i \in 1..(n - g) : keep[i] = b[g + i]
    <3>1. /\ keep \in Seq(Int)
          /\ Len(keep) = IF g + 1 <= n THEN n - (g + 1) + 1 ELSE 0
          /\ \A i \in 1..(n - (g + 1) + 1) : keep[i] = b[(g + 1) + i - 1]
      BY <1>2, <1>3, <2>1, <2>2, SubSeqProperties
    <3>2. n - (g + 1) + 1 = n - g /\ \A i \in 1..(n - g) : (g + 1) + i - 1 = g + i
      BY <2>2
    <3> HIDE DEF keep
    <3> QED BY <3>1, <3>2, <2>2
  <2>4. n - g \in Nat \ {0} /\ \A i \in 1..(n - g) : g + i \in 1..n
    BY <1>2, <1>5
  <2> QED BY <2>3, <2>4
<1> DEFINE w == n - g
<1>7. keep[w] = b[n] /\ keep # <<>>
  <2>1. w \in 1..w /\ g + w = n
    BY <1>2, <1>5, <1>6
  <2>2. Len(<<>>) = 0
    OBVIOUS
  <2> QED BY <2>1, <2>2, <1>6
<1>8. /\ DOMAIN q = DOMAIN p /\ q.started = TRUE /\ q.buffer = keep
      /\ q.reached = stateAt + Total(dt, w) /\ q.skipped = end - stateAt /\ q.last = chain[c]
  <2> HIDE DEF keep, dt, c, chain
  <2> QED BY <1>1, <1>6 DEF PredictFields
<1> HIDE DEF keep
<1>9. /\ Len(chain) = w + 1 /\ chain[1] = end
      /\ \A i \in 1..w : chain[i + 1] = keep[i]
  <2>1. <<end>> \in Seq(Int) /\ Len(<<end>>) = 1
    BY LenProperties
  <2>2. /\ Len(chain) = 1 + w
        /\ \A i \in 1..(1 + w) : chain[i] = IF i <= 1 THEN <<end>>[i] ELSE keep[i - 1]
    BY <2>1, <1>6, ConcatProperties
  <2>3. \A i \in 1..w : i + 1 \in 1..(1 + w) /\ ~(i + 1 <= 1) /\ (i + 1) - 1 = i
    BY <1>6
  <2>4. 1 \in 1..(1 + w)
    BY <1>6
  <2> HIDE DEF chain
  <2> QED BY <2>2, <2>3, <2>4, <1>6
<1>10. w \in Nat \ {0} /\ w \in Int
  BY <1>6
<1> HIDE DEF chain, w
<1>11. ASSUME Sorted(b)
       PROVE  /\ Sorted(keep) /\ end <= keep[1] /\ \A i \in 1..w : keep[i] \in Int
  <2>1. \A i, j \in 1..n : i <= j => b[i] <= b[j]
    BY <1>11 DEF Sorted, n
  <2>2. \A i \in 1..w : keep[i] = b[g + i] /\ g + i \in 1..n
    BY <1>6 DEF w
  <2>3. \A i, j \in 1..w : i <= j => keep[i] <= keep[j]
    <3>1. \A i, j \in 1..w : i <= j => g + i <= g + j
      BY <1>5, <1>10
    <3> QED BY <3>1, <2>1, <2>2
  <2>4. \A i \in 1..w : keep[i] \in Int
    BY <2>2, <1>2
  <2>5. end <= keep[1]
    <3>1. 1 \in 1..w /\ g + 1 \in 1..n
      BY <1>5, <1>10
    <3>2. keep[1] = b[g + 1] /\ b[g + 1] \in Int
      BY <3>1, <2>2, <1>2
    <3> QED BY <3>2, <1>5
  <2>6. Len(keep) = w
    BY <1>6 DEF w
  <2> QED BY <2>3, <2>4, <2>5, <2>6 DEF Sorted
<1>12. ASSUME Sorted(b)
       PROVE  \A i \in 1..w : /\ chain[i] \in Int /\ chain[i + 1] \in Int /\ chain[i] <= chain[i + 1]
  <2> SUFFICES ASSUME NEW i \in 1..w
               PROVE  chain[i] \in Int /\ chain[i + 1] \in Int /\ chain[i] <= chain[i + 1]
    OBVIOUS
  <2>1. chain[i + 1] = keep[i] /\ keep[i] \in Int
    BY <1>9, <1>11, <1>12
  <2>2. CASE i = 1
    BY <2>1, <2>2, <1>9, <1>11, <1>12
  <2>3. CASE i # 1
    <3>1. i - 1 \in 1..w /\ (i - 1) + 1 = i /\ i - 1 <= i
      BY <2>3, <1>10
    <3>2. chain[i] = keep[i - 1] /\ keep[i - 1] \in Int /\ keep[i - 1] <= keep[i]
      <4>1. Len(keep) = w
        BY <1>6 DEF w
      <4> QED BY <3>1, <4>1, <1>9, <1>11, <1>12 DEF Sorted
    <3> QED BY <2>1, <3>2
  <2> QED BY <2>2, <2>3
<1>13. ASSUME Sorted(b), stateAt \in Int
       PROVE  q.reached \in Int /\ q.skipped \in Int /\ q.reached + q.skipped = b[n]
  <2> DEFINE s == [i \in 0..w |-> chain[i + 1] - end]
  <2>1. \A i \in 1..w : dt[i] = chain[i + 1] - chain[i]
    <3>1. \A i \in 1..w : dt[i] = LaterOf(chain[i + 1] - chain[i], 0)
      BY <1>6 DEF w
    <3> QED BY <3>1, <1>12, <1>13 DEF LaterOf
  <2>2. s = [i \in 0..w |-> s[i]] /\ \A i \in 0..w : s[i] = chain[i + 1] - end
    OBVIOUS
  <2> HIDE DEF s, dt
  <2>3. s[0] = 0
    <3>1. 0 \in 0..w /\ 0 + 1 = 1
      BY <1>10
    <3> QED BY <3>1, <2>2, <1>9
  <2>4. ASSUME NEW i \in 1..w PROVE s[i] = s[i - 1] + dt[i]
    <3>1. i \in 0..w /\ i - 1 \in 0..w /\ (i - 1) + 1 = i
      BY <1>10
    <3>2. s[i] = chain[i + 1] - end /\ s[i - 1] = chain[i] - end
      BY <3>1, <2>2
    <3> QED BY <3>2, <2>1, <1>12, <1>13
  <2>5. Total(dt, w) = s[w]
    <3>1. w \in Nat
      BY <1>10
    <3>2. PartialSums(s, dt, w)
      BY <2>2, <2>3, <2>4 DEF PartialSums
    <3> QED BY <3>1, <3>2, TotalIs
  <2>6. w \in 0..w /\ w \in 1..w
    BY <1>10
  <2>7. s[w] = chain[w + 1] - end /\ chain[w + 1] = b[n] /\ chain[w + 1] \in Int
    BY <2>2, <2>6, <1>7, <1>9, <1>12, <1>13 DEF w
  <2> HIDE DEF s, dt
  <2>8. q.reached = stateAt + (b[n] - end) /\ q.skipped = end - stateAt /\ b[n] \in Int
    BY <2>5, <2>7, <1>8
  <2> QED BY <2>8, <1>13
<1>14. ASSUME Sorted(b) PROVE q.last = b[n]
  <2>1. top \in SUBSET (0..(w + 1)) /\ 1 \in top /\ \A i \in top : i \in 1..(w + 1)
    BY <1>9, <1>10
  <2>2. \E i \in top : \A k \in top : k <= i
    <3>1. w + 1 \in Nat
      BY <1>10
    <3> HIDE DEF top
    <3> QED BY <2>1, <3>1, GreatestExists
  <2>3. c \in top /\ \A k \in top : k <= c
    BY <2>2
  <2> HIDE DEF c
  <2>4. c \in 1..(w + 1)
    BY <2>1, <2>3
  <2>5. \A i \in (c + 1)..(w + 1) : ~(chain[i] > chain[i - 1])
    <3>1. \A i \in (c + 1)..(w + 1) : i \in 2..(w + 1) /\ ~(i <= c)
      BY <2>4
    <3>2. \A i \in (c + 1)..(w + 1) : i \notin top
      BY <3>1, <2>3
    <3> QED BY <3>1, <3>2, <1>9
  <2> DEFINE Bad == {i \in c..(w + 1) : chain[i] # chain[c]}
  <2>6. Bad = {}
    <3> SUFFICES ASSUME Bad # {} PROVE FALSE
      OBVIOUS
    <3>1. Bad \in SUBSET Nat
      BY <2>4
    <3>2. PICK h \in Bad : \A k \in Bad : h <= k
      BY <3>1, LeastExists
    <3>0. h \in c..(w + 1) /\ chain[h] # chain[c]
      BY <3>2
    <3>3. /\ h \in (c + 1)..(w + 1) /\ h - 1 \in c..(w + 1)
          /\ ~(h <= h - 1) /\ h - 1 \in 1..w /\ (h - 1) + 1 = h
      <4>1. h # c
        BY <3>0
      <4> QED BY <4>1, <3>0, <2>4, <1>10
    <3>4. chain[h - 1] = chain[c] /\ chain[h] # chain[c]
      BY <3>0, <3>2, <3>3
    <3>5. chain[h - 1] \in Int /\ chain[h] \in Int /\ chain[h - 1] <= chain[h]
      BY <3>3, <1>12, <1>14
    <3> QED BY <3>3, <3>4, <3>5, <2>5
  <2>7. w + 1 \in c..(w + 1) /\ w \in 1..w
    BY <2>4, <1>10
  <2>8. chain[w + 1] = chain[c] /\ chain[w + 1] = b[n]
    BY <2>6, <2>7, <1>7, <1>9 DEF w
  <2> QED BY <2>8, <1>8
<1>15. q.buffer[Len(q.buffer)] = b[n]
  BY <1>6, <1>7, <1>8 DEF w
<1> QED BY <1>6, <1>7, <1>8, <1>11, <1>13, <1>14, <1>15 DEF n, b

\* What follows a stamp is a whole number.
LEMMA StampTypes ==
  ASSUME LioTypes, NEW t \in Int, NEW u \in NextStamps(t)
  PROVE  u \in Int
<1>1. cfg.steps \subseteq Nat
  BY LioAssumption DEF LioTypes
<1> QED BY <1>1 DEF NextStamps, LaterOf

LEMMA StampedType ==
  ASSUME NEW t \in Int, NEW shape \in Shapes
  PROVE  Stamped(t, shape) \in ScanRec
BY LioAssumption DEF Stamped, ScanRec

TimeVars == <<imu_buffer, last_timestamp_imu, imuState, imu_predict>>

\* A step that leaves the messages, the filter and the prediction alone keeps their times.
LEMMA TimesStay ==
  ASSUME TimesInv, LioTypes', UNCHANGED TimeVars, seen'.imuBack = seen.imuBack
  PROVE  TimesInv'
BY DEF TimesInv, FilterInv, PredictInv, PredictionReachesLastImu, TimeVars, Sorted

\* The callbacks of the lidars.
LEMMA LidarKeepsTimes ==
  ASSUME TimesInv, NEW shape \in Shapes,
         \/ \E t \in NextStamps(lastLidar.any) : standard_pcl_cbk(t, shape)
         \/ \E t \in NextStamps(lastLidar.right) : livox_pcl_cbk_right(t, shape)
         \/ \E t \in NextStamps(lastLidar.left) : livox_pcl_cbk_left(t, shape)
  PROVE  TimesInv'
<1>t. LioTypes
  BY DEF TimesInv
<1>l. /\ lastLidar.any \in Int /\ lastLidar.right \in Int /\ lastLidar.left \in Int
      /\ lastLidar \in [any : Int, right : Int, left : Int]
  BY <1>t DEF LioTypes
<1>e. <<>> \in Seq(ScanRec) /\ <<>> \in Seq(Int)
  BY EmptySeq
<1>s. "imuBack" \in DOMAIN seen /\ seen.imuBack \in BOOLEAN
  BY <1>t DEF LioTypes
<1>1. ASSUME NEW t \in NextStamps(lastLidar.any), standard_pcl_cbk(t, shape)
      PROVE  TimesInv'
  <2>1. t \in Int /\ Stamped(t, shape) \in ScanRec
    BY <1>t, <1>l, StampTypes, StampedType
  <2> DEFINE back == t < lastLidar.any
             base == IF back THEN <<>> ELSE lidar_buffer
  <2>2. base \in Seq(ScanRec) /\ time_buffer \in Seq(Int)
    BY <1>t, <1>e DEF LioTypes
  <2>3. /\ lidar_buffer' = Append(base, Stamped(t, shape)) /\ time_buffer' = Append(time_buffer, t)
        /\ lastLidar' = IF back THEN [any |-> t, right |-> -1, left |-> -1]
                        ELSE [lastLidar EXCEPT !.any = t]
        /\ UNCHANGED <<cfg, right, left, timediff, TimeVars, Measures, lidar_pushed, scanTime>>
    BY <1>1 DEF standard_pcl_cbk, TimeVars, groupVars, filterVars
  <2>4. lidar_buffer' \in Seq(ScanRec) /\ time_buffer' \in Seq(Int)
    <3> HIDE DEF base
    <3> QED BY <2>1, <2>2, <2>3, AppendProperties
  <2>5. lastLidar' \in [any : Int, right : Int, left : Int]
    BY <2>1, <2>3, <1>l
  <2>6. "imuBack" \in DOMAIN seen' /\ seen'.imuBack = seen.imuBack
    BY <1>1, <1>s DEF standard_pcl_cbk
  <2>7. LioTypes'
    BY <2>3, <2>4, <2>5, <2>6, <1>s, <1>t DEF LioTypes, TimeVars
  <2> QED BY <2>3, <2>6, <2>7, TimesStay
<1>2. ASSUME NEW side \in {"right", "left"}, NEW t \in Int, Received(side, t),
             right' \in Seq(ScanRec), left' \in Seq(ScanRec),
             lastLidar' \in [any : Int, right : Int, left : Int] => timediff' \in Int
      PROVE  TimesInv'
  <2> DEFINE back == t < lastLidar[side]
  <2>1. /\ lidar_buffer' = IF back THEN <<>> ELSE lidar_buffer
        /\ time_buffer' = IF back THEN <<>> ELSE time_buffer
        /\ UNCHANGED <<cfg, TimeVars, Measures, lidar_pushed, scanTime>>
    BY <1>2 DEF Received, TimeVars, groupVars, filterVars
  <2>2. lidar_buffer' \in Seq(ScanRec) /\ time_buffer' \in Seq(Int)
    BY <2>1, <1>t, <1>e DEF LioTypes
  <2>3. lastLidar' \in [any : Int, right : Int, left : Int]
    <3> DEFINE last == IF back THEN LaterOf(lastLidar.left, lastLidar.right) ELSE lastLidar.any
    <3>1. last \in Int
      BY <1>l DEF LaterOf
    <3>2. lastLidar' = [lastLidar EXCEPT ![side] = t, !.any = LaterOf(last, t)]
      BY <1>2 DEF Received
    <3> HIDE DEF last
    <3>3. LaterOf(last, t) \in Int
      BY <3>1, <1>2 DEF LaterOf
    <3> QED BY <3>2, <3>3, <1>2, <1>l
  <2>4. "imuBack" \in DOMAIN seen' /\ seen'.imuBack = seen.imuBack
    BY <1>2, <1>s DEF Received
  <2>5. LioTypes'
    BY <2>1, <2>2, <2>3, <2>4, <1>2, <1>s, <1>t DEF LioTypes, TimeVars
  <2> QED BY <2>1, <2>4, <2>5, TimesStay
<1>3. ASSUME NEW t \in NextStamps(lastLidar.right), livox_pcl_cbk_right(t, shape)
      PROVE  TimesInv'
  <2>1. t \in Int /\ Stamped(t, shape) \in ScanRec
    BY <1>t, <1>l, StampTypes, StampedType
  <2> DEFINE base == IF t < lastLidar.right THEN <<>> ELSE right
  <2>2. base \in Seq(ScanRec) /\ left \in Seq(ScanRec)
    BY <1>t, <1>e DEF LioTypes
  <2>3. right' = Append(base, Stamped(t, shape)) /\ left' = left /\ Received("right", t)
    BY <1>3 DEF livox_pcl_cbk_right
  <2>4. right' \in Seq(ScanRec) /\ left' \in Seq(ScanRec)
    <3> HIDE DEF base
    <3> QED BY <2>1, <2>2, <2>3, AppendProperties
  <2>5. lastLidar' \in [any : Int, right : Int, left : Int] => timediff' \in Int
    <3>1. last_timestamp_imu \in Int /\ timediff \in Int
      BY <1>t DEF LioTypes
    <3>2. timediff' = timediff \/ timediff' = lastLidar'.any - last_timestamp_imu
      BY <1>3 DEF livox_pcl_cbk_right
    <3> QED BY <3>1, <3>2
  <2> QED BY <2>1, <2>3, <2>4, <2>5, <1>2
<1>4. ASSUME NEW t \in NextStamps(lastLidar.left), livox_pcl_cbk_left(t, shape)
      PROVE  TimesInv'
  <2>1. t \in Int /\ Stamped(t, shape) \in ScanRec
    BY <1>t, <1>l, StampTypes, StampedType
  <2> DEFINE base == IF t < lastLidar.left THEN <<>> ELSE left
  <2>2. base \in Seq(ScanRec) /\ right \in Seq(ScanRec) /\ timediff \in Int
    BY <1>t, <1>e DEF LioTypes
  <2>3. /\ left' = Append(base, Stamped(t, shape)) /\ right' = right /\ timediff' = timediff
        /\ Received("left", t)
    BY <1>4 DEF livox_pcl_cbk_left
  <2>4. right' \in Seq(ScanRec) /\ left' \in Seq(ScanRec)
    <3> HIDE DEF base
    <3> QED BY <2>1, <2>2, <2>3, AppendProperties
  <2> QED BY <2>1, <2>2, <2>3, <2>4, <1>2
<1> QED BY <1>1, <1>3, <1>4

\* A message that does not go back follows those of a buffer in order.
LEMMA AppendSorted ==
  ASSUME NEW s \in Seq(Int), NEW t \in Int
  PROVE  /\ Append(s, t) \in Seq(Int) /\ Append(s, t) # <<>>
         /\ Len(Append(s, t)) = Len(s) + 1 /\ Append(s, t)[Len(s) + 1] = t
         /\ \A i \in 1..Len(s) : Append(s, t)[i] = s[i]
         /\ Sorted(s) /\ (\A i \in 1..Len(s) : s[i] <= t) => Sorted(Append(s, t))
<1>1. /\ Append(s, t) \in Seq(Int) /\ Append(s, t) # <<>> /\ Len(Append(s, t)) = Len(s) + 1
      /\ Append(s, t)[Len(s) + 1] = t /\ \A i \in 1..Len(s) : Append(s, t)[i] = s[i]
  BY AppendProperties
<1> DEFINE u == Append(s, t)
           n == Len(s)
<1>2. n \in Nat /\ \A i \in 1..n : s[i] \in Int
  BY LenProperties, ElementOfSeq
<1>3. ASSUME Sorted(s), \A i \in 1..n : s[i] <= t PROVE Sorted(u)
  <2>1. /\ \A i \in 1..n : u[i] = s[i]
        /\ u[n + 1] = t /\ Len(u) = n + 1
    BY <1>1
  <2> HIDE DEF u
  <2>2. \A i, j \in 1..n : i <= j => s[i] <= s[j]
    BY <1>3 DEF Sorted
  <2> HIDE DEF n
  <2>3. \A i \in 1..(n + 1) : i \in 1..n \/ i = n + 1
    BY <1>2
  <2>4. ASSUME NEW i \in 1..(n + 1), NEW j \in 1..(n + 1), i <= j PROVE u[i] <= u[j]
    <3>1. CASE j = n + 1
      BY <3>1, <2>1, <2>3, <1>2, <1>3
    <3>2. CASE j \in 1..n
      <4>1. i \in 1..n
        BY <3>2, <2>4, <1>2
      <4> QED BY <3>2, <4>1, <2>1, <2>2, <2>4
    <3> QED BY <3>1, <3>2, <2>3
  <2> QED BY <2>1, <2>4 DEF Sorted
<1> QED BY <1>1, <1>3

\* The callback of the IMU.
LEMMA ImuKeepsTimes ==
  ASSUME TimesInv, NEW raw \in NextStamps(last_timestamp_imu - timediff), imu_cbk(raw)
  PROVE  TimesInv'
<1> DEFINE t == raw + timediff
           back == t < last_timestamp_imu
           base == IF back THEN <<>> ELSE imu_buffer
           p == imu_predict
           n == Len(p.buffer)
<1>t. LioTypes
  BY DEF TimesInv
<1>1. /\ last_timestamp_imu \in Int /\ timediff \in Int /\ imu_buffer \in Seq(Int)
      /\ p.buffer \in Seq(Int) /\ p.started \in BOOLEAN
      /\ PredictFields \subseteq DOMAIN p
      /\ "imuBack" \in DOMAIN seen /\ seen.imuBack \in BOOLEAN
      /\ imuState.last_end \in Int
  BY <1>t DEF LioTypes
<1>2. t \in Int
  <2>1. raw \in Int
    BY <1>1, <1>t, StampTypes
  <2> QED BY <2>1, <1>1
<1>3. /\ imu_buffer' = Append(base, t) /\ last_timestamp_imu' = t
      /\ imu_predict' = Predicted(p, t)
      /\ UNCHANGED <<cfg, right, left, lidar_buffer, time_buffer, lastLidar, timediff, Measures,
                     lidar_pushed, scanTime, imuState>>
      /\ "imuBack" \in DOMAIN seen' /\ seen'.imuBack = (seen.imuBack \/ back)
  <2>1. /\ seen' = [seen EXCEPT !.imus = @ + 1, !.imuBack = @ \/ back,
                                !.back = BackCount(t, last_timestamp_imu)]
        /\ imu_buffer' = Append(base, t) /\ last_timestamp_imu' = t
        /\ imu_predict' = Predicted(p, t)
        /\ UNCHANGED <<cfg, lidarVars, groupVars, imuState>>
    BY DEF imu_cbk, filterVars
  <2>2. "imuBack" \in DOMAIN seen' /\ seen'.imuBack = (seen.imuBack \/ back)
    <3> HIDE DEF back, t
    <3> QED BY <2>1, <1>1
  <2> QED BY <2>1, <2>2 DEF lidarVars, groupVars
<1>4. base \in Seq(Int) /\ (~back => base = imu_buffer)
  BY <1>1, EmptySeq
<1> HIDE DEF t, base
<1>5. /\ Append(base, t) \in Seq(Int) /\ Append(base, t) # <<>>
      /\ Len(Append(base, t)) = Len(base) + 1 /\ Append(base, t)[Len(base) + 1] = t
      /\ \A i \in 1..Len(base) : Append(base, t)[i] = base[i]
      /\ Sorted(base) /\ (\A i \in 1..Len(base) : base[i] <= t) => Sorted(Append(base, t))
  BY <1>2, <1>4, AppendSorted
<1>6. /\ Append(p.buffer, t) \in Seq(Int) /\ Append(p.buffer, t) # <<>>
      /\ Len(Append(p.buffer, t)) = n + 1 /\ Append(p.buffer, t)[n + 1] = t
      /\ Sorted(p.buffer) /\ (\A i \in 1..n : p.buffer[i] <= t) => Sorted(Append(p.buffer, t))
  BY <1>1, <1>2, AppendSorted
<1>7. /\ DOMAIN imu_predict' = DOMAIN p /\ imu_predict'.buffer = Append(p.buffer, t)
      /\ imu_predict'.started = p.started
      /\ p.started /\ p.buffer # <<>> =>
           LET dt == t - p.buffer[n] IN
           /\ imu_predict'.reached = p.reached + (IF dt > 0 THEN dt ELSE 0)
           /\ imu_predict'.skipped = p.skipped
           /\ imu_predict'.last = t
  BY <1>1, <1>3 DEF Predicted, PredictFields
<1>8. LioTypes'
  <2>1. imu_buffer' \in Seq(Int) /\ imu_predict'.buffer \in Seq(Int) /\ last_timestamp_imu' \in Int
    BY <1>2, <1>3, <1>5, <1>6, <1>7
  <2>2. imu_predict'.started \in BOOLEAN /\ seen'.imuBack \in BOOLEAN
        /\ "imuBack" \in DOMAIN seen'
        /\ PredictFields \subseteq DOMAIN imu_predict'
    BY <1>1, <1>3, <1>7
  <2>3. /\ cfg' = cfg /\ right' = right /\ left' = left /\ lidar_buffer' = lidar_buffer
        /\ time_buffer' = time_buffer /\ lastLidar' = lastLidar /\ timediff' = timediff
        /\ Measures' = Measures /\ lidar_pushed' = lidar_pushed /\ scanTime' = scanTime
        /\ imuState' = imuState
    BY <1>3
  <2> QED BY <2>1, <2>2, <2>3, <1>t DEF LioTypes
<1>9. ~seen'.imuBack => ~seen.imuBack /\ ~back /\ last_timestamp_imu <= t /\ base = imu_buffer
  <2>1. ~seen'.imuBack => ~seen.imuBack /\ ~back
    <3>1. seen'.imuBack = (seen.imuBack \/ back)
      BY <1>3
    <3> HIDE DEF back
    <3> QED BY <3>1, Zenon
  <2>2. ~back => last_timestamp_imu <= t /\ base = imu_buffer
    BY <1>1, <1>2, <1>4
  <2> QED BY <2>1, <2>2
<1> HIDE DEF back
<1>10. FilterInv'
  <2>1. ~seen'.imuBack =>
          /\ Sorted(imu_buffer) /\ \A i \in 1..Len(imu_buffer) : imu_buffer[i] <= t
    <3>1. \A i \in 1..Len(imu_buffer) : imu_buffer[i] \in Int
      BY <1>1, ElementOfSeq
    <3> QED BY <3>1, <1>1, <1>2, <1>9 DEF TimesInv, FilterInv
  <2> DEFINE b == imu_buffer'
             m == Len(imu_buffer)
  <2>2. ~seen'.imuBack =>
          /\ Sorted(b) /\ Len(b) = m + 1 /\ b[m + 1] = t
          /\ \A i \in 1..m : b[i] = imu_buffer[i]
    BY <2>1, <1>3, <1>5, <1>9
  <2>3. m \in Nat
    BY <1>1, LenProperties
  <2> HIDE DEF b, m
  <2>4. \A i \in 1..(m + 1) : i \in 1..m \/ i = m + 1
    BY <2>3
  <2>5. ~seen'.imuBack => \A i \in 1..Len(b) : b[i] <= t
    BY <2>1, <2>2, <2>4, <1>2 DEF m
  <2>6. imuState.covered # -1 /\ ~seen'.imuBack =>
          /\ imuState.covered = imuState.last_end
          /\ imuState.last_imu <= imuState.last_end
          /\ imuState.last_end <= t
          /\ \A i \in 1..Len(b) : imuState.last_end <= b[i]
    <3> SUFFICES ASSUME imuState.covered # -1, ~seen'.imuBack
                 PROVE  /\ imuState.covered = imuState.last_end
                        /\ imuState.last_imu <= imuState.last_end
                        /\ imuState.last_end <= t
                        /\ \A i \in 1..Len(b) : imuState.last_end <= b[i]
      OBVIOUS
    <3>1. /\ imuState.covered = imuState.last_end /\ imuState.last_imu <= imuState.last_end
          /\ imuState.last_end <= last_timestamp_imu
          /\ \A i \in 1..m : imuState.last_end <= imu_buffer[i]
      BY <1>9 DEF TimesInv, FilterInv, m
    <3>2. imuState.last_end <= t
      BY <3>1, <1>1, <1>2, <1>9
    <3> QED BY <3>1, <3>2, <2>2, <2>4
  <2>7. imuState.need_init => imuState.covered = -1
    BY DEF TimesInv, FilterInv
  <2>8. ~seen'.imuBack => Sorted(b)
    BY <2>2
  <2> QED BY <2>5, <2>6, <2>7, <2>8, <1>3 DEF FilterInv, b
<1>11. PredictInv'
  <2>1. imu_predict'.buffer # <<>>
    BY <1>6, <1>7
  <2>2. imu_predict'.buffer[Len(imu_predict'.buffer)] = last_timestamp_imu'
    BY <1>3, <1>6, <1>7
  <2>3. p.buffer # <<>> => p.buffer[n] = last_timestamp_imu
    BY DEF TimesInv, PredictInv
  <2>4. ~seen'.imuBack => Sorted(imu_predict'.buffer)
    <3> SUFFICES ASSUME ~seen'.imuBack PROVE Sorted(imu_predict'.buffer)
      OBVIOUS
    <3>1. Sorted(p.buffer)
      BY <1>9 DEF TimesInv, PredictInv
    <3>2. \A i \in 1..n : p.buffer[i] <= t
      <4> SUFFICES ASSUME NEW i \in 1..n PROVE p.buffer[i] <= t
        OBVIOUS
      <4>1. n \in Nat /\ p.buffer[i] \in Int /\ p.buffer # <<>>
        <5>1. n \in Nat /\ p.buffer[i] \in Int
          BY <1>1, LenProperties, ElementOfSeq
        <5>2. n # 0
          BY <5>1
        <5> QED BY <5>1, <5>2
      <4>2. n \in 1..n /\ i <= n
        BY <4>1
      <4>3. p.buffer[i] <= p.buffer[n]
        BY <4>2, <3>1 DEF Sorted
      <4> QED BY <4>1, <4>3, <2>3, <1>1, <1>2, <1>9
    <3> QED BY <3>1, <3>2, <1>6, <1>7
  <2>5. /\ PredictionReachesLastImu'
        /\ imu_predict'.started /\ ~seen'.imuBack =>
             imu_predict'.reached \in Int /\ imu_predict'.skipped \in Int
    <3> SUFFICES ASSUME imu_predict'.started, ~seen'.imuBack
                 PROVE  /\ imu_predict'.reached \in Int /\ imu_predict'.skipped \in Int
                        /\ imu_predict'.reached + imu_predict'.skipped = t
                        /\ imu_predict'.last = t
      BY <1>3 DEF PredictionReachesLastImu
    <3>1. /\ p.started /\ p.buffer # <<>>
          /\ p.reached \in Int /\ p.skipped \in Int
          /\ p.reached + p.skipped = last_timestamp_imu
      BY <1>7, <1>9 DEF TimesInv, PredictInv, PredictionReachesLastImu
    <3>2. imu_predict'.last = t
      BY <1>7, <3>1
    <3> DEFINE dt == t - p.buffer[n]
    <3>3. /\ imu_predict'.reached = p.reached + (IF dt > 0 THEN dt ELSE 0)
          /\ imu_predict'.skipped = p.skipped
      BY <1>7, <3>1
    <3>4. p.buffer[n] = last_timestamp_imu
      BY <2>3, <3>1
    <3>5. (IF dt > 0 THEN dt ELSE 0) = t - last_timestamp_imu
      BY <3>4, <1>1, <1>2, <1>9
    <3> HIDE DEF dt
    <3>6. /\ imu_predict'.reached = p.reached + (t - last_timestamp_imu)
          /\ imu_predict'.skipped = p.skipped
      BY <3>3, <3>5
    <3> QED BY <3>1, <3>2, <3>6, <1>1, <1>2
  <2> QED BY <2>1, <2>2, <2>4, <2>5 DEF PredictInv
<1> QED BY <1>8, <1>10, <1>11 DEF TimesInv

\* A part of a sequence of numbers, and what is left after it.
LEMMA SplitSorted ==
  ASSUME NEW b \in Seq(Int), NEW k \in 0..Len(b)
  PROVE  LET used == SubSeq(b, 1, k)
             rest == SubSeq(b, k + 1, Len(b))
         IN
         /\ used \in Seq(Int) /\ Len(used) = k /\ \A i \in 1..k : used[i] = b[i]
         /\ rest \in Seq(Int) /\ Len(rest) = Len(b) - k
         /\ \A i \in 1..(Len(b) - k) : rest[i] = b[k + i] /\ k + i \in (k + 1)..Len(b)
         /\ Sorted(b) => Sorted(used) /\ Sorted(rest)
<1> DEFINE n == Len(b)
           used == SubSeq(b, 1, k)
           rest == SubSeq(b, k + 1, n)
<1>1. n \in Nat /\ k \in Nat /\ k <= n /\ \A i \in 1..n : b[i] \in Int
  BY LenProperties, ElementOfSeq
<1>2. used \in Seq(Int) /\ Len(used) = k /\ \A i \in 1..k : used[i] = b[i]
  <2>1. \A i \in 1..k : b[i] \in Int
    BY <1>1
  <2>2. /\ used \in Seq(Int) /\ Len(used) = IF 1 <= k THEN k - 1 + 1 ELSE 0
        /\ \A i \in 1..(k - 1 + 1) : used[i] = b[1 + i - 1]
    BY <1>1, <2>1, SubSeqProperties
  <2> HIDE DEF used
  <2>3. k - 1 + 1 = k /\ \A i \in 1..k : 1 + i - 1 = i
    BY <1>1
  <2> QED BY <1>1, <2>2, <2>3
<1>3. /\ rest \in Seq(Int) /\ Len(rest) = n - k
      /\ \A i \in 1..(n - k) : rest[i] = b[k + i] /\ k + i \in (k + 1)..n
  <2>1. \A i \in (k + 1)..n : b[i] \in Int
    BY <1>1
  <2>2. /\ rest \in Seq(Int) /\ Len(rest) = IF k + 1 <= n THEN n - (k + 1) + 1 ELSE 0
        /\ \A i \in 1..(n - (k + 1) + 1) : rest[i] = b[(k + 1) + i - 1]
    BY <1>1, <2>1, SubSeqProperties
  <2> HIDE DEF rest
  <2>3. /\ n - (k + 1) + 1 = n - k /\ (~(k + 1 <= n) => n - k = 0)
        /\ \A i \in 1..(n - k) : (k + 1) + i - 1 = k + i /\ k + i \in (k + 1)..n
    BY <1>1
  <2> QED BY <2>2, <2>3
<1>4. ASSUME Sorted(b) PROVE Sorted(used) /\ Sorted(rest)
  <2>1. \A i, j \in 1..n : i <= j => b[i] <= b[j]
    BY <1>4 DEF Sorted
  <2> HIDE DEF n, used, rest
  <2>2. Sorted(used)
    <3>1. \A i \in 1..k : i \in 1..n
      BY <1>1
    <3> QED BY <3>1, <2>1, <1>2 DEF Sorted
  <2>3. Sorted(rest)
    <3>1. \A i, j \in 1..(n - k) : /\ i <= j => k + i <= k + j
                                   /\ k + i \in 1..n /\ k + j \in 1..n
      BY <1>1
    <3>2. ASSUME NEW i \in 1..(n - k), NEW j \in 1..(n - k), i <= j PROVE rest[i] <= rest[j]
      <4>1. rest[i] = b[k + i] /\ rest[j] = b[k + j]
        BY <1>3
      <4> QED BY <4>1, <3>1, <3>2, <2>1
    <3>3. Len(rest) = n - k
      BY <1>3
    <3> QED BY <3>2, <3>3 DEF Sorted
  <2> QED BY <2>2, <2>3
<1> QED BY <1>2, <1>3, <1>4

\* The group of the next scan.
LEMMA MeasuresTypes ==
  ASSUME LioTypes, NEW front \in ScanRec, NEW beg \in Int,
         NEW m, m = IF lidar_pushed THEN Measures ELSE NextMeasures(front, beg)
  PROVE  m \in [lidar : ScanRec, beg : Int, end : Int, imu : Seq(Int)]
<1>1. /\ Measures \in [lidar : ScanRec, beg : Int, end : Int, imu : Seq(Int)]
      /\ scanTime.sum \in Nat /\ scanTime.num \in Nat
  BY DEF LioTypes
<1>2. lidar_mean_scantime \in Int
  <2>1. scanTime.num # 0 => scanTime.sum \div scanTime.num \in Int
    BY <1>1
  <2> QED BY <2>1 DEF lidar_mean_scantime
<1> DEFINE end == beg + IF Ordinary(front) THEN front.dur ELSE lidar_mean_scantime
<1>3. end \in Int
  BY <1>2 DEF ScanRec
<1>4. NextMeasures(front, beg) = [Measures EXCEPT !.lidar = front, !.beg = beg, !.end = end]
  BY DEF NextMeasures
<1> HIDE DEF end
<1> QED BY <1>1, <1>3, <1>4

\* What the timer hands on and what it leaves.
LEMMA HandsOnMessages ==
  ASSUME LioTypes, FilterInv, NEW f, NEW m, HandsOn(f, m),
         m \in [lidar : ScanRec, beg : Int, end : Int, imu : Seq(Int)]
  PROVE  /\ Measures' \in [lidar : ScanRec, beg : Int, end : Int, imu : Seq(Int)]
         /\ Measures'.end = m.end /\ m.end \in Int /\ m.end <= last_timestamp_imu
         /\ imu_buffer' \in Seq(Int) /\ (imu_buffer' # <<>> => imu_buffer # <<>>)
         /\ ~seen.imuBack =>
              /\ Sorted(imu_buffer') /\ Sorted(Measures'.imu)
              /\ \A i \in 1..Len(Measures'.imu) : Measures'.imu[i] <= m.end
              /\ \A i \in 1..Len(imu_buffer') : /\ m.end <= imu_buffer'[i]
                                                /\ imu_buffer'[i] <= last_timestamp_imu
         /\ ~seen.imuBack /\ imuState.covered # -1 =>
              /\ \A i \in 1..Len(Measures'.imu) : imuState.last_end <= Measures'.imu[i]
              /\ \A i \in 1..Len(imu_buffer') : imuState.last_end <= imu_buffer'[i]
<1> DEFINE b == imu_buffer
           k == ImuOf(m.end)
           used == SubSeq(b, 1, k)
           rest == SubSeq(b, k + 1, Len(b))
<1>1. b \in Seq(Int) /\ m.end \in Int /\ last_timestamp_imu \in Int
  BY DEF LioTypes
<1>2. /\ k \in 0..Len(b)
      /\ Sorted(b) => /\ \A i \in 1..k : b[i] <= m.end
                      /\ \A i \in (k + 1)..Len(b) : m.end <= b[i]
  BY <1>1, ImuOfSplits
<1>3. /\ Measures' = [m EXCEPT !.imu = used] /\ imu_buffer' = rest
      /\ last_timestamp_imu >= m.end
  BY DEF HandsOn
<1> HIDE DEF k
<1>4. /\ used \in Seq(Int) /\ Len(used) = k /\ \A i \in 1..k : used[i] = b[i]
      /\ rest \in Seq(Int) /\ Len(rest) = Len(b) - k
      /\ \A i \in 1..(Len(b) - k) : rest[i] = b[k + i] /\ k + i \in (k + 1)..Len(b)
      /\ Sorted(b) => Sorted(used) /\ Sorted(rest)
  BY <1>1, <1>2, SplitSorted
<1> HIDE DEF used, rest
<1>5. /\ Measures' \in [lidar : ScanRec, beg : Int, end : Int, imu : Seq(Int)]
      /\ Measures'.end = m.end /\ Measures'.imu = used
  BY <1>3, <1>4
<1>6. rest # <<>> => b # <<>>
  <2>1. b = <<>> => Len(b) = 0
    OBVIOUS
  <2>2. b = <<>> => rest \in Seq(Int) /\ Len(rest) = 0
    BY <2>1, <1>2, <1>4
  <2> QED BY <2>2, EmptySeq
<1>7. Len(b) \in Nat /\ \A i \in 1..Len(b) : b[i] \in Int
  BY <1>1, LenProperties, ElementOfSeq
<1>8. /\ \A i \in 1..k : i \in 1..Len(b)
      /\ \A i \in (k + 1)..Len(b) : i \in 1..Len(b)
  BY <1>2, <1>7
<1>9. ASSUME ~seen.imuBack
      PROVE  /\ Sorted(rest) /\ Sorted(used)
             /\ \A i \in 1..Len(used) : used[i] <= m.end
             /\ \A i \in 1..Len(rest) : m.end <= rest[i] /\ rest[i] <= last_timestamp_imu
             /\ imuState.covered # -1 =>
                  /\ \A i \in 1..Len(used) : imuState.last_end <= used[i]
                  /\ \A i \in 1..Len(rest) : imuState.last_end <= rest[i]
  <2>1. /\ Sorted(b) /\ \A i \in 1..Len(b) : b[i] <= last_timestamp_imu
        /\ imuState.covered # -1 => \A i \in 1..Len(b) : imuState.last_end <= b[i]
    BY <1>9 DEF FilterInv
  <2> QED BY <2>1, <1>2, <1>4, <1>8
<1> QED BY <1>1, <1>3, <1>4, <1>5, <1>6, <1>9

\* The timer.
LEMMA TimerKeepsTimes ==
  ASSUME TimesInv, LioInv, timer_callback
  PROVE  TimesInv' /\ (OdomInv => OnTime)
<1> DEFINE f == fuse_dual_lidar_frame_once
           m == IF lidar_pushed THEN Measures ELSE NextMeasures(f.scans[1], f.times[1])
           Group == [lidar : ScanRec, beg : Int, end : Int, imu : Seq(Int)]
<1>t. LioTypes /\ FilterInv /\ PredictInv
  BY DEF TimesInv
<1>f. /\ f.right \in Seq(ScanRec) /\ f.left \in Seq(ScanRec)
      /\ f.scans \in Seq(ScanRec) /\ f.times \in Seq(Int) /\ Len(f.scans) <= Len(f.times)
  BY <1>t, FuseTypes, FuseInv
<1>s. "imuBack" \in DOMAIN seen /\ seen.imuBack \in BOOLEAN
  BY <1>t DEF LioTypes
<1>u. /\ right' = f.right /\ left' = f.left
      /\ UNCHANGED <<cfg, lastLidar, timediff, last_timestamp_imu>>
  BY DEF timer_callback
<1>m. ASSUME f.scans # <<>>
      PROVE  m \in Group /\ f.scans[1] \in ScanRec /\ f.times # <<>> /\ f.scans[1].dur \in Nat
  <2>1. Len(f.scans) \in Nat \ {0} /\ Len(f.times) \in Nat
    BY <1>f, <1>m, EmptySeq, LenProperties
  <2>2. Len(f.times) \in Nat \ {0} /\ f.times # <<>>
    <3>1. Len(f.times) # 0
      BY <2>1, <1>f
    <3>2. Len(<<>>) = 0
      OBVIOUS
    <3> QED BY <2>1, <3>1, <3>2
  <2>3. f.scans[1] \in ScanRec /\ f.times[1] \in Int
    <3>1. 1 \in 1..Len(f.scans) /\ 1 \in 1..Len(f.times)
      BY <2>1, <2>2
    <3> QED BY <3>1, <1>f, ElementOfSeq
  <2>4. m \in Group
    <3>1. \A g : g = (IF lidar_pushed THEN Measures ELSE NextMeasures(f.scans[1], f.times[1]))
                   => g \in Group
      BY <2>3, <1>t, MeasuresTypes
    <3> QED BY <3>1
  <2> QED BY <2>2, <2>3, <2>4 DEF ScanRec
<1> HIDE DEF f
<1>1. CASE /\ lidar_buffer' = f.scans /\ time_buffer' = f.times
           /\ UNCHANGED <<imu_buffer, groupVars, filterVars, imu_predict, seen>>
  <2>1. UNCHANGED <<TimeVars, Measures, lidar_pushed, scanTime>> /\ seen' = seen
    BY <1>1, <1>u DEF TimeVars, groupVars, filterVars
  <2>2. LioTypes'
    BY <2>1, <1>1, <1>f, <1>t, <1>u DEF LioTypes, TimeVars
  <2>3. OnTime
    BY <1>1 DEF OnTime, filterVars
  <2> QED BY <2>1, <2>2, <2>3, TimesStay
<1> DEFINE Scanned == scanTime' = IF ~lidar_pushed /\ Ordinary(f.scans[1])
                                  THEN [sum |-> scanTime.sum + f.scans[1].dur,
                                        num |-> scanTime.num + 1]
                                  ELSE scanTime
<1>c. ASSUME f.scans # <<>>, Scanned PROVE scanTime' \in [sum : Nat, num : Nat]
  <2>1. f.scans[1].dur \in Nat /\ scanTime \in [sum : Nat, num : Nat]
    BY <1>c, <1>m, <1>t DEF LioTypes
  <2> DEFINE more == [sum |-> scanTime.sum + f.scans[1].dur, num |-> scanTime.num + 1]
  <2>2. more \in [sum : Nat, num : Nat]
    BY <2>1
  <2>3. scanTime' = more \/ scanTime' = scanTime
    BY <1>c
  <2> QED BY <2>1, <2>2, <2>3
<1> HIDE DEF Scanned
<1>2. CASE f.scans # <<>> /\ Scanned /\ Waits(f, m)
  <2> HIDE DEF m
  <2>1. /\ Measures' = m /\ lidar_pushed' = TRUE
        /\ lidar_buffer' = f.scans /\ time_buffer' = f.times
        /\ UNCHANGED TimeVars /\ seen' = seen
    BY <1>2, <1>u DEF Waits, TimeVars, filterVars
  <2>2. LioTypes'
    BY <2>1, <1>2, <1>c, <1>f, <1>m, <1>s, <1>t, <1>u DEF LioTypes, TimeVars
  <2>3. OnTime
    BY <1>2 DEF OnTime, Waits, filterVars
  <2> QED BY <2>1, <2>2, <2>3, TimesStay
<1>3. CASE /\ f.scans # <<>> /\ Scanned /\ HandsOn(f, m)
           /\ \/ UNCHANGED <<filterVars, imu_predict>>
              \/ Process(Measures') /\ Register(Measures')
  <2>0. m \in Group
    BY <1>3, <1>m
  <2> HIDE DEF m
  <2>1. /\ Measures' \in Group
        /\ Measures'.end = m.end /\ m.end \in Int /\ m.end <= last_timestamp_imu
        /\ imu_buffer' \in Seq(Int) /\ (imu_buffer' # <<>> => imu_buffer # <<>>)
        /\ ~seen.imuBack =>
             /\ Sorted(imu_buffer') /\ Sorted(Measures'.imu)
             /\ \A i \in 1..Len(Measures'.imu) : Measures'.imu[i] <= m.end
             /\ \A i \in 1..Len(imu_buffer') : /\ m.end <= imu_buffer'[i]
                                               /\ imu_buffer'[i] <= last_timestamp_imu
        /\ ~seen.imuBack /\ imuState.covered # -1 =>
             /\ \A i \in 1..Len(Measures'.imu) : imuState.last_end <= Measures'.imu[i]
             /\ \A i \in 1..Len(imu_buffer') : imuState.last_end <= imu_buffer'[i]
    BY <2>0, <1>3, <1>t, HandsOnMessages
  <2>2. /\ lidar_pushed' = FALSE
        /\ lidar_buffer' = Tail(f.scans) /\ time_buffer' = Tail(f.times)
        /\ "imuBack" \in DOMAIN seen' /\ seen'.imuBack = seen.imuBack
    BY <1>3, <1>s DEF HandsOn
  <2>3. lidar_buffer' \in Seq(ScanRec) /\ time_buffer' \in Seq(Int)
    BY <2>2, <1>3, <1>f, <1>m, HeadTailProperties
  <2>4. Measures'.imu \in Seq(Int) /\ last_timestamp_imu' = last_timestamp_imu
        /\ last_timestamp_imu \in Int
    BY <2>1, <1>t, <1>u DEF LioTypes
  <2>5. /\ {"need_init", "iter", "last_imu", "last_end", "covered"} \subseteq DOMAIN imuState
        /\ imuState.need_init \in BOOLEAN
        /\ imuState.last_imu \in Int /\ imuState.last_end \in Int
    BY <1>t DEF LioTypes
  <2> DEFINE FilterTypes == /\ {"need_init", "iter", "last_imu", "last_end", "covered"}
                                 \subseteq DOMAIN imuState'
                            /\ imuState'.need_init \in BOOLEAN
                            /\ imuState'.last_imu \in Int /\ imuState'.last_end \in Int
  <2>14. ASSUME Process(Measures'), Measures'.imu # <<>>, ~imuState.need_init, ~seen.imuBack
         PROVE  imuState'.covered = m.end
    <3> DEFINE g == Measures'
               to == IF imuState.covered = -1 THEN g.end
                     ELSE imuState.covered + Propagated(g)
    <3>1. imuState'.covered = to
      <4>1. imuState' = [imuState EXCEPT !.last_imu = g.imu[Len(g.imu)], !.last_end = g.end,
                                         !.covered = to]
        BY <2>14 DEF Process
      <4> HIDE DEF to
      <4> QED BY <4>1, <2>5
    <3>2. CASE imuState.covered = -1
      BY <3>1, <3>2, <2>1
    <3>3. CASE imuState.covered # -1
      <4>1. imuState.covered = imuState.last_end /\ imuState.last_imu <= imuState.last_end
        BY <3>3, <2>14, <1>t DEF FilterInv
      <4>2. g.imu \in Seq(Int) /\ g.imu # <<>> /\ g.end \in Int /\ Sorted(g.imu)
        BY <2>1, <2>4, <2>14
      <4>3. \A i \in 1..Len(g.imu) : imuState.last_end <= g.imu[i] /\ g.imu[i] <= g.end
        BY <2>1, <2>14, <3>3
      <4> HIDE DEF g
      <4>4. Propagated(g) = g.end - imuState.last_end
        BY <4>1, <4>2, <4>3, <2>5, PropagatedExactly
      <4>5. to = imuState.last_end + (m.end - imuState.last_end)
        BY <3>3, <4>1, <4>4, <2>1 DEF g
      <4> HIDE DEF to
      <4> QED BY <3>1, <4>5, <2>1, <2>5
    <3> QED BY <3>2, <3>3
  <2>6. FilterTypes /\ FilterInv'
    <3>1. CASE imuState' = imuState
      BY <3>1, <2>1, <2>2, <2>4, <2>5, <1>t DEF FilterInv
    <3>2. CASE Process(Measures') /\ Measures'.imu # <<>>
      <4> DEFINE last == Measures'.imu[Len(Measures'.imu)]
      <4>1. Len(Measures'.imu) \in 1..Len(Measures'.imu) /\ last \in Int
        <5>1. Len(Measures'.imu) \in Nat \ {0}
          BY <3>2, <2>4, EmptySeq, LenProperties
        <5> QED BY <5>1, <2>4, ElementOfSeq
      <4> HIDE DEF last
      <4>2. CASE imuState.need_init
        <5>1. imuState' = [IMU_init(Measures') EXCEPT
                             !.need_init = ~(IMU_init(Measures').iter > MaxInitImu)]
          BY <3>2, <4>2 DEF Process
        <5>2. /\ DOMAIN imuState' = DOMAIN imuState
              /\ imuState'.last_imu = last /\ imuState'.last_end = imuState.last_end
              /\ imuState'.covered = imuState.covered /\ imuState'.need_init \in BOOLEAN
          BY <5>1, <2>5 DEF IMU_init, last
        <5>3. imuState.covered = -1
          BY <4>2, <1>t DEF FilterInv
        <5>4. FilterTypes
          BY <5>2, <2>5, <4>1
        <5>5. FilterInv'
          BY <5>2, <5>3, <2>1, <2>2, <2>4 DEF FilterInv
        <5> QED BY <5>4, <5>5
      <4>3. CASE ~imuState.need_init
        <5> DEFINE to == IF imuState.covered = -1 THEN Measures'.end
                         ELSE imuState.covered + Propagated(Measures')
        <5>1. imuState' = [imuState EXCEPT !.last_imu = last, !.last_end = Measures'.end,
                                           !.covered = to]
          BY <3>2, <4>3 DEF Process, last
        <5> HIDE DEF to
        <5>4. /\ DOMAIN imuState' = DOMAIN imuState /\ imuState'.need_init = imuState.need_init
              /\ imuState'.last_imu = last /\ imuState'.last_end = m.end
              /\ imuState'.covered = to
          BY <5>1, <2>1, <2>5
        <5>5. FilterTypes
          BY <5>4, <2>1, <2>5, <4>1
        <5>6. ~seen.imuBack => last <= m.end
          BY <2>1, <4>1 DEF last
        <5>7. FilterInv'
          BY <5>4, <5>6, <4>3, <3>2, <2>1, <2>2, <2>4, <2>14 DEF FilterInv
        <5> QED BY <5>5, <5>7
      <4> QED BY <4>2, <4>3
    <3>3. imuState' = imuState \/ (Process(Measures') /\ Measures'.imu # <<>>)
      BY <1>3 DEF Process, filterVars
    <3> QED BY <3>1, <3>2, <3>3
  <2>7. /\ PredictFields \subseteq DOMAIN imu_predict
        /\ imu_predict.buffer \in Seq(Int) /\ imu_predict.started \in BOOLEAN
    BY <1>t DEF LioTypes
  <2> DEFINE PredictTypes == /\ PredictFields \subseteq DOMAIN imu_predict'
                             /\ imu_predict'.buffer \in Seq(Int)
                             /\ imu_predict'.started \in BOOLEAN
  <2>8. PredictTypes /\ PredictInv'
    <3>1. CASE imu_predict' = imu_predict
      BY <3>1, <2>1, <2>2, <2>4, <2>7, <1>t DEF PredictInv, PredictionReachesLastImu
    <3> DEFINE stateAt == imuState'.covered
    <3>2. CASE imu_predict' = Restarted(m.end, stateAt) /\ imu_buffer # <<>>
      <4>1. /\ imu_predict.buffer # <<>>
            /\ imu_predict.buffer[Len(imu_predict.buffer)] = last_timestamp_imu
            /\ ~seen.imuBack => Sorted(imu_predict.buffer)
        BY <3>2, <1>t DEF PredictInv
      <4>0. ~seen.imuBack => stateAt \in Int
        BY <2>2, <2>6 DEF FilterInv
      <4> HIDE DEF stateAt
      <4>2. \A e, q : q = Restarted(m.end, e) =>
              /\ DOMAIN q = DOMAIN imu_predict /\ q.started = TRUE
              /\ q.buffer \in Seq(Int) /\ q.buffer # <<>>
              /\ q.buffer[Len(q.buffer)] = last_timestamp_imu
              /\ Sorted(imu_predict.buffer) =>
                   /\ Sorted(q.buffer) /\ q.last = last_timestamp_imu
                   /\ e \in Int => /\ q.reached \in Int /\ q.skipped \in Int
                                   /\ q.reached + q.skipped = last_timestamp_imu
        <5> DEFINE top == imu_predict.buffer[Len(imu_predict.buffer)]
        <5>1. m.end \in Int /\ m.end <= top
          BY <4>1, <2>1
        <5>2. \A e, q : q = Restarted(m.end, e) =>
                /\ DOMAIN q = DOMAIN imu_predict /\ q.started = TRUE
                /\ q.buffer \in Seq(Int) /\ q.buffer # <<>>
                /\ q.buffer[Len(q.buffer)] = top
                /\ Sorted(imu_predict.buffer) =>
                     /\ Sorted(q.buffer)
                     /\ e \in Int => /\ q.reached \in Int /\ q.skipped \in Int
                                     /\ q.reached + q.skipped = top
                     /\ q.last = top
          BY <5>1, <4>1, <2>7, RestartReaches, Zenon
        <5> QED BY <5>2, <4>1
      <4>3. /\ DOMAIN imu_predict' = DOMAIN imu_predict /\ imu_predict'.started = TRUE
            /\ imu_predict'.buffer \in Seq(Int) /\ imu_predict'.buffer # <<>>
            /\ imu_predict'.buffer[Len(imu_predict'.buffer)] = last_timestamp_imu
            /\ ~seen.imuBack =>
                 /\ Sorted(imu_predict'.buffer) /\ imu_predict'.last = last_timestamp_imu
                 /\ imu_predict'.reached \in Int /\ imu_predict'.skipped \in Int
                 /\ imu_predict'.reached + imu_predict'.skipped = last_timestamp_imu
        BY <4>0, <4>1, <4>2, <3>2
      <4> QED BY <4>3, <2>2, <2>4, <2>7 DEF PredictInv, PredictionReachesLastImu
    <3>3. imu_predict' = imu_predict
          \/ (imu_predict' = Restarted(m.end, stateAt) /\ imu_buffer # <<>>)
      <4>1. imu_buffer = <<>> => UNCHANGED imu_predict
        BY DEF timer_callback
      <4>2. imu_predict' = imu_predict \/ imu_predict' = Restarted(Measures'.end, stateAt)
        BY <1>3 DEF Register
      <4> QED BY <4>1, <4>2, <2>1
    <3> QED BY <3>1, <3>2, <3>3
  <2>9. LioTypes'
    <3>1. /\ cfg' \in Configs /\ lastLidar' \in [any : Int, right : Int, left : Int]
          /\ timediff' \in Int /\ right' \in Seq(ScanRec) /\ left' \in Seq(ScanRec)
      BY <1>f, <1>t, <1>u DEF LioTypes
    <3>2. scanTime' \in [sum : Nat, num : Nat] /\ seen'.imuBack \in BOOLEAN
          /\ lidar_pushed' \in BOOLEAN
      BY <1>3, <1>c, <1>s, <2>2
    <3> QED BY <3>1, <3>2, <2>1, <2>2, <2>3, <2>4, <2>6, <2>8 DEF LioTypes
  <2>10. ASSUME OdomInv, ~seen'.imuBack, Measures'.imu # <<>>
         PROVE  /\ odom' # odom => odom'.state = odom'.end
                /\ imu_predict'.skipped \in {0, imu_predict.skipped}
    <3>1. CASE UNCHANGED <<filterVars, imu_predict>>
      BY <3>1 DEF filterVars
    <3>2. CASE Process(Measures') /\ Register(Measures') /\ imuState.need_init
      <4>1. feats' = NoScan
        BY <3>2, <2>10 DEF Process, OdomInv
      <4>2. UNCHANGED <<odom, imu_predict>>
        BY <4>1, <3>2 DEF Register, NoScan
      <4> QED BY <4>2
    <3>3. CASE Process(Measures') /\ Register(Measures') /\ ~imuState.need_init
      <4> DEFINE stateAt == imuState'.covered
      <4>1. stateAt = Measures'.end /\ stateAt \in Int
        BY <3>3, <2>1, <2>2, <2>10, <2>14
      <4>2. \/ UNCHANGED <<odom, imu_predict>>
            \/ /\ odom' = publish_odometry(Measures'.end, stateAt, feats')
               /\ imu_predict' = Restarted(Measures'.end, stateAt)
        BY <3>3 DEF Register
      <4> HIDE DEF stateAt
      <4>3. odom' # odom => odom'.state = odom'.end
        BY <4>1, <4>2 DEF publish_odometry
      <4>4. imu_predict' = Restarted(Measures'.end, stateAt) =>
              imu_predict'.skipped = Measures'.end - stateAt
        BY <2>7 DEF Restarted, PredictFields
      <4> QED BY <4>1, <4>2, <4>3, <4>4
    <3> QED BY <1>3, <3>1, <3>2, <3>3
  <2> QED BY <2>6, <2>8, <2>9, <2>10 DEF TimesInv, OnTime
<1> HIDE DEF m
<1>4. \/ /\ lidar_buffer' = f.scans /\ time_buffer' = f.times
         /\ UNCHANGED <<imu_buffer, groupVars, filterVars, imu_predict, seen>>
      \/ f.scans # <<>> /\ Scanned /\ Waits(f, m)
      \/ /\ f.scans # <<>> /\ Scanned /\ HandsOn(f, m)
         /\ \/ UNCHANGED <<filterVars, imu_predict>>
            \/ Process(Measures') /\ Register(Measures')
  BY DEF timer_callback, f, m, Scanned
<1> QED BY <1>1, <1>2, <1>3, <1>4

\* The callbacks that have nothing to do with stamps.
LEMMA OthersKeepTimes ==
  ASSUME TimesInv,
         \/ initial_pose_cbk
         \/ \E frames \in {"lidars", "base"} : TfArrives(frames)
         \/ map_publish_callback
         \/ \E written \in BOOLEAN : map_save_callback(written)
         \/ UNCHANGED lioVars
  PROVE  TimesInv'
<1>1. UNCHANGED <<cfg, lidarVars, imu_buffer, last_timestamp_imu, groupVars, imuState,
                  imu_predict, seen>>
  BY DEF initial_pose_cbk, TfArrives, map_publish_callback, map_save_callback, lioVars,
         filterVars
<1>2. LioTypes'
  BY <1>1 DEF TimesInv, LioTypes, lidarVars, groupVars
<1> QED BY <1>1, <1>2, TimesStay DEF TimeVars

\* The invariant of the times, under every callback and the timer.
THEOREM TimesInvariance == LioSpec => []TimesInv
<1>1. LioInit => TimesInv
  <2> SUFFICES ASSUME LioInit PROVE TimesInv
    OBVIOUS
  <2>1. <<>> \in Seq(ScanRec) /\ <<>> \in Seq(Int) /\ Len(<<>>) = 0
    BY EmptySeq
  <2>2. LioTypes
    <3>1. /\ cfg \in Configs /\ right = <<>> /\ left = <<>> /\ lidar_buffer = <<>>
          /\ time_buffer = <<>> /\ imu_buffer = <<>> /\ last_timestamp_imu = -1 /\ timediff = 0
          /\ lidar_pushed = FALSE /\ imu_predict.buffer = <<>> /\ imu_predict.started = FALSE
          /\ PredictFields \subseteq DOMAIN imu_predict
          /\ "imuBack" \in DOMAIN seen /\ seen.imuBack = FALSE
      BY DEF LioInit, PredictFields
    <3>2. /\ lastLidar \in [any : Int, right : Int, left : Int]
          /\ scanTime \in [sum : Nat, num : Nat]
      BY DEF LioInit
    <3>3. NoScan \in ScanRec
      BY DEF NoScan, ScanRec
    <3>4. Measures \in [lidar : ScanRec, beg : Int, end : Int, imu : Seq(Int)]
      BY <2>1, <3>3 DEF LioInit
    <3>5. PICK e \in {0, 1000} :
            imuState = [need_init |-> TRUE, iter |-> 1, last_imu |-> 0, last_end |-> e,
                        covered |-> -1]
      BY DEF LioInit
    <3>6. /\ {"need_init", "iter", "last_imu", "last_end", "covered"} \subseteq DOMAIN imuState
          /\ imuState.need_init \in BOOLEAN
          /\ imuState.last_imu \in Int /\ imuState.last_end \in Int
      BY <3>5
    <3>7. /\ lidar_pushed \in BOOLEAN /\ seen.imuBack \in BOOLEAN
          /\ imu_predict.started \in BOOLEAN /\ last_timestamp_imu \in Int /\ timediff \in Int
      <4>1. lidar_pushed \in BOOLEAN /\ seen.imuBack \in BOOLEAN /\ imu_predict.started \in BOOLEAN
        BY <3>1, Zenon
      <4>2. last_timestamp_imu \in Int /\ timediff \in Int
        BY <3>1
      <4> QED BY <4>1, <4>2
    <3>8. /\ right \in Seq(ScanRec) /\ left \in Seq(ScanRec) /\ lidar_buffer \in Seq(ScanRec)
          /\ time_buffer \in Seq(Int) /\ imu_buffer \in Seq(Int)
          /\ imu_predict.buffer \in Seq(Int)
      BY <2>1, <3>1, Zenon
    <3> QED BY <3>1, <3>2, <3>4, <3>6, <3>7, <3>8, Zenon DEF LioTypes
  <2>3. FilterInv /\ PredictInv
    <3>1. /\ imuState.covered = -1 /\ imu_buffer = <<>>
          /\ imu_predict.buffer = <<>> /\ imu_predict.started = FALSE
      BY DEF LioInit
    <3>2. 1..Len(<<>>) = {}
      BY <2>1
    <3>3. Sorted(<<>>)
      BY <3>2 DEF Sorted
    <3>4. FilterInv
      BY <3>1, <3>2, <3>3 DEF FilterInv
    <3>5. PredictInv
      BY <3>1, <3>3 DEF PredictInv, PredictionReachesLastImu
    <3> QED BY <3>4, <3>5
  <2> QED BY <2>2, <2>3 DEF TimesInv
<1>2. TimesInv /\ LioInv /\ [LioNext]_lioVars => TimesInv'
  BY LidarKeepsTimes, ImuKeepsTimes, TimerKeepsTimes, OthersKeepTimes DEF LioNext
<1> QED BY <1>1, <1>2, LioInvariance, PTL DEF LioSpec

\* While the stamps of the IMU do not go back, the filter is propagated over every
\* interval exactly once, and the prediction lacks at most what the state it was
\* restarted with lacked.
THEOREM FilterTimesCorrect == LioSpec => [](FilterTimeIsExact /\ PredictionReachesLastImu)
<1>1. TimesInv => FilterTimeIsExact /\ PredictionReachesLastImu
  BY DEF TimesInv, FilterInv, PredictInv, FilterTimeIsExact
<1> QED BY <1>1, TimesInvariance, PTL

\* While the stamps of the IMU do not go back, odometry and prediction carry the time
\* their state stands for, unless the group had no IMU messages.
THEOREM LagCorrect == LioSpec => OnlyEmptyGroupsLag
<1>1. ASSUME TimesInv, LioInv, OdomInv, [LioNext]_lioVars PROVE OnTime \/ UNCHANGED lioVars
  <2>1. CASE timer_callback
    BY <1>1, <2>1, TimerKeepsTimes
  <2>2. CASE \E raw \in NextStamps(last_timestamp_imu - timediff) : imu_cbk(raw)
    <3>1. odom' = odom /\ \E t : imu_predict' = Predicted(imu_predict, t)
      BY <2>2 DEF imu_cbk, filterVars
    <3>2. PredictFields \subseteq DOMAIN imu_predict
      BY <1>1 DEF TimesInv, LioTypes
    <3>3. imu_predict'.skipped = imu_predict.skipped
      BY <3>1, <3>2 DEF Predicted, PredictFields
    <3> QED BY <3>1, <3>3 DEF OnTime
  <2>3. CASE UNCHANGED <<odom, imu_predict>>
    BY <2>3 DEF OnTime
  <2>4. CASE \/ \E t, shape : standard_pcl_cbk(t, shape)
             \/ \E side, t : Received(side, t)
    BY <2>3, <2>4 DEF standard_pcl_cbk, Received, filterVars
  <2>5. CASE \/ initial_pose_cbk
             \/ \E frames : TfArrives(frames)
             \/ map_publish_callback
             \/ \E written : map_save_callback(written)
             \/ UNCHANGED lioVars
    BY <2>3, <2>5 DEF initial_pose_cbk, TfArrives, map_publish_callback, map_save_callback,
       lioVars, filterVars
  <2> QED BY <1>1, <2>1, <2>2, <2>4, <2>5 DEF LioNext, livox_pcl_cbk_right, livox_pcl_cbk_left
<1>2. LioSpec => []OdomInv
  <2>1. LioInit => OdomInv
    BY DEF LioInit, OdomInv
  <2>2. OdomInv /\ [LioNext]_lioVars => OdomInv'
    BY OdomStep
  <2> QED BY <2>1, <2>2, PTL DEF LioSpec
<1>3. TimesInv /\ LioInv /\ OdomInv /\ [LioNext]_lioVars =>
        [\/ seen'.imuBack \/ Measures'.imu = <<>>
         \/ /\ odom' # odom => odom'.state = odom'.end
            /\ imu_predict'.skipped \in {0, imu_predict.skipped}]_lioVars
  BY <1>1 DEF OnTime
<1> QED BY <1>2, <1>3, TimesInvariance, LioInvariance, PTL DEF LioSpec, OnlyEmptyGroupsLag

(* With any number of scans and messages of one or two lidars and an IMU, with *)
(* scans that are dropped or wait, and stamps that jump back, scans, their      *)
(* times, the filter and the odometry of FAST_LIO stay together.               *)
THEOREM NodeCorrect == LioSpec => ScansAndStampsAgree
  BY ScanTimesCorrect, NoLossCorrect, FilterTimesCorrect, OdometryCorrect, LagCorrect, PTL
     DEF ScansAndStampsAgree

-----------------------------------------------------------------------------
(* The cube of the map.                                                      *)

CubeTypes ==
    /\ pos_lid \in [MapAxes -> Int] /\ LocalMap_Points \in [MapAxes -> Int]
    /\ LocalMap_Initialized \in BOOLEAN

CubeInv == CubeTypes /\ CubeFollowsTheLidar

\* One step of the lidar along one axis: where the cube is afterwards.
LEMMA AxisInside ==
    ASSUME CubeTypes, NEW a \in MapAxes, NEW p \in [MapAxes -> Int],
           LocalMap_Initialized, LidarStaysInside, Abs(p[a] - pos_lid[a]) <= MaxStep
    PROVE  /\ Moved(p, a) \in Int
           /\ Moved(p, a) + (Margin - MaxStep) <= p[a]
           /\ p[a] <= Moved(p, a) + CubeLen - (Margin - MaxStep)
  <1> DEFINE L == LocalMap_Points[a]
  <1> DEFINE x == pos_lid[a]
  <1>1. /\ L \in Int /\ x \in Int /\ p[a] \in Int
        /\ L + (Margin - MaxStep) <= x /\ x <= L + CubeLen - (Margin - MaxStep)
    BY DEF CubeTypes, LidarStaysInside
  <1>2. p[a] - x <= MaxStep /\ x - p[a] <= MaxStep
    BY <1>1, CubeAssumption DEF Abs
  <1>3. CASE NearMin(p, a)
    BY <1>1, <1>2, <1>3, CubeAssumption DEF NearMin, Moved, Abs
  <1>4. CASE NearMax(p, a)
    BY <1>1, <1>2, <1>4, CubeAssumption DEF NearMin, NearMax, Moved, Abs
  <1>5. CASE ~NearMin(p, a) /\ ~NearMax(p, a)
    BY <1>1, <1>2, <1>5, CubeAssumption DEF NearMin, NearMax, Moved, Abs
  <1> QED BY <1>3, <1>4, <1>5

\* What is left behind along one axis.
LEMMA SlabIsLeft ==
    ASSUME CubeTypes, NEW a \in MapAxes, NEW p \in [MapAxes -> Int],
           NearMin(p, a) \/ NearMax(p, a)
    PROVE  LET s == Slab(p, a) IN
           /\ \A x \in s.low..s.high :
                /\ x <= Moved(p, a) \/ Moved(p, a) + CubeLen <= x
                /\ 3 * Abs(x - p[a]) >= 2 * Margin
           /\ \A x \in LocalMap_Points[a]..(LocalMap_Points[a] + CubeLen) :
                \/ Moved(p, a) <= x /\ x <= Moved(p, a) + CubeLen
                \/ s.low <= x /\ x <= s.high
  <1>1. LocalMap_Points[a] \in Int /\ p[a] \in Int
    BY DEF CubeTypes
  <1>2. CASE NearMin(p, a)
    BY <1>1, <1>2, CubeAssumption DEF NearMin, Moved, Slab, Abs
  <1>3. CASE NearMax(p, a)
    BY <1>1, <1>3, CubeAssumption DEF NearMin, NearMax, Moved, Slab, Abs
  <1> QED BY <1>2, <1>3

LEMMA CubeInvStep == CubeInv /\ [CubeNext]_cubeVars => CubeInv'
  <1> SUFFICES ASSUME CubeInv, [CubeNext]_cubeVars PROVE CubeInv'
    OBVIOUS
  <1> USE DEF CubeInv, CubeFollowsTheLidar
  <1>1. CASE UNCHANGED cubeVars
    BY <1>1 DEF cubeVars, CubeTypes, LidarStaysInside, DeletesWhatIsLeft
  <1>2. CASE CubeNext
    <2>1. PICK p \in [MapAxes -> (-Travel)..Travel] :
            /\ \A a \in MapAxes : Abs(p[a] - pos_lid[a]) <= MaxStep
            /\ lasermap_fov_segment(p)
      BY <1>2 DEF CubeNext
    <2>2. p \in [MapAxes -> Int]
      BY CubeAssumption
    <2>3. CASE ~LocalMap_Initialized
      <3>1. CubeTypes'
        BY <2>1, <2>2, <2>3, CubeAssumption DEF lasermap_fov_segment, CubeTypes
      <3>2. LidarStaysInside'
        BY <2>1, <2>2, <2>3, CubeAssumption DEF lasermap_fov_segment, LidarStaysInside
      <3>3. DeletesWhatIsLeft'
        BY <2>1, <2>3 DEF lasermap_fov_segment, DeletesWhatIsLeft
      <3> QED BY <3>1, <3>2, <3>3
    <2>4. CASE LocalMap_Initialized
      <3>1. \A a \in MapAxes :
               /\ Moved(p, a) \in Int
               /\ Moved(p, a) + (Margin - MaxStep) <= p[a]
               /\ p[a] <= Moved(p, a) + CubeLen - (Margin - MaxStep)
        BY <2>1, <2>2, <2>4, AxisInside
      <3>2. /\ pos_lid' = p /\ before' = LocalMap_Points /\ LocalMap_Initialized'
            /\ LocalMap_Points' = [a \in MapAxes |-> Moved(p, a)]
            /\ cub_needrm' = {Slab(p, a) : a \in {b \in MapAxes : NearMin(p, b) \/ NearMax(p, b)}}
        BY <2>1, <2>4 DEF lasermap_fov_segment
      <3>3. CubeTypes'
        BY <3>1, <3>2, <2>2 DEF CubeTypes
      <3>4. LidarStaysInside'
        BY <3>1, <3>2 DEF LidarStaysInside
      <3>5. DeletesWhatIsLeft'
        <4> SUFFICES ASSUME NEW s \in cub_needrm'
                     PROVE  /\ \A x \in s.low..s.high :
                                 /\ x <= LocalMap_Points'[s.axis] \/ LocalMap_Points'[s.axis] + CubeLen <= x
                                 /\ 3 * Abs(x - pos_lid'[s.axis]) >= 2 * Margin
                            /\ \A x \in before'[s.axis]..(before'[s.axis] + CubeLen) :
                                 \/ LocalMap_Points'[s.axis] <= x /\ x <= LocalMap_Points'[s.axis] + CubeLen
                                 \/ s.low <= x /\ x <= s.high
          BY DEF DeletesWhatIsLeft, Abs
        <4>1. PICK a \in MapAxes : s = Slab(p, a) /\ (NearMin(p, a) \/ NearMax(p, a))
          BY <3>2
        <4>2. s.axis = a
          BY <4>1 DEF Slab
        <4>3. LocalMap_Points'[a] = Moved(p, a) /\ pos_lid'[a] = p[a] /\ before'[a] = LocalMap_Points[a]
          BY <3>2
        <4> QED BY <4>1, <4>2, <4>3, <2>2, SlabIsLeft
      <3> QED BY <3>3, <3>4, <3>5
    <2> QED BY <2>3, <2>4 DEF CubeTypes
  <1> QED BY <1>1, <1>2

\* For every length of the cube, margin and step within CubeAssumption, the cube
\* follows the lidar for ever and deletes only what it has left.
THEOREM CubeCorrect == CubeSpec => []CubeFollowsTheLidar
  <1>1. CubeInit => CubeInv
    <2> SUFFICES ASSUME CubeInit PROVE CubeInv
      OBVIOUS
    <2>1. CubeTypes
      <3>1. 0 \in Int
        OBVIOUS
      <3>2. [a \in MapAxes |-> 0] \in [MapAxes -> Int]
        BY <3>1
      <3> QED BY <3>2 DEF CubeInit, CubeTypes
    <2>2. LidarStaysInside /\ DeletesWhatIsLeft
      BY DEF CubeInit, LidarStaysInside, DeletesWhatIsLeft
    <2> QED BY <2>1, <2>2 DEF CubeInv, CubeFollowsTheLidar
  <1>2. CubeInv => CubeFollowsTheLidar
    BY DEF CubeInv
  <1> QED BY <1>1, <1>2, CubeInvStep, PTL DEF CubeSpec

-----------------------------------------------------------------------------
(* The update of the filter.                                                 *)

\* What the property rests on: once the state has been corrected, and as long as
\* an iteration does not search, all neighbours are those of the scan.
Searched == \A p \in ScanPoints : searchedFor[p] = scan
SearchInv ==
    /\ x_ \in Nat
    /\ point_selected_surf \subseteq ScanPoints /\ effective \subseteq ScanPoints
    /\ x_ > 0 => Searched
    /\ ekfStep = "update" => converge \/ Searched

EkfInv == SearchInv /\ CorrectedStateHasPosterior

\* h_share_model leaves neighbours of the scan, if it may use the old ones.
LEMMA MeasuredForTheScan ==
    ASSUME SearchInv, ekfStep = "update", UNCHANGED scan,
           NEW found \in SUBSET ScanPoints, NEW planar \in SUBSET ScanPoints,
           h_share_model(found, planar)
    PROVE  /\ Searched'
           /\ point_selected_surf' \subseteq ScanPoints /\ effective' \subseteq ScanPoints
  <1>1. CASE converge
    BY <1>1 DEF SearchInv, Searched, h_share_model
  <1>2. CASE ~converge
    BY <1>2 DEF SearchInv, Searched, h_share_model
  <1> QED BY <1>1, <1>2

LEMMA EkfInvStep == EkfInv /\ [EkfNext]_ekfVars => EkfInv'
  <1> SUFFICES ASSUME EkfInv, [EkfNext]_ekfVars PROVE EkfInv'
    OBVIOUS
  <1> USE DEF EkfInv
  <1>1. CASE predict
    BY <1>1 DEF predict, SearchInv, Searched, CorrectedStateHasPosterior
  <1>2. CASE StartUpdate
    BY <1>2 DEF StartUpdate, SearchInv, CorrectedStateHasPosterior
  <1>3. ASSUME NEW found \in SUBSET ScanPoints, NEW planar \in SUBSET ScanPoints,
               NotValid(found, planar)
        PROVE  EkfInv'
    <2>1. /\ Searched'
          /\ point_selected_surf' \subseteq ScanPoints /\ effective' \subseteq ScanPoints
      BY <1>3, MeasuredForTheScan DEF NotValid
    <2> QED BY <1>3, <2>1 DEF NotValid, SearchInv, CorrectedStateHasPosterior
  <1>4. ASSUME NEW found \in SUBSET ScanPoints, NEW planar \in SUBSET ScanPoints,
               NEW below \in BOOLEAN, Correct(found, planar, below)
        PROVE  EkfInv'
    <2>1. /\ Searched'
          /\ point_selected_surf' \subseteq ScanPoints /\ effective' \subseteq ScanPoints
      BY <1>4, MeasuredForTheScan DEF Correct
    <2>2. SearchInv'
      BY <1>4, <2>1 DEF Correct, SearchInv
    <2>3. ekfStep' = "predict" => P_' = "posterior"
      BY <1>4 DEF Correct, LastIteration
    <2> QED BY <2>2, <2>3 DEF CorrectedStateHasPosterior
  <1>5. CASE UNCHANGED ekfVars
    BY <1>5 DEF ekfVars, SearchInv, Searched, CorrectedStateHasPosterior
  <1> QED BY <1>1, <1>2, <1>3, <1>4, <1>5 DEF EkfNext

\* For every number of points and iterations, an update uses neighbours of its own
\* scan only and leaves the posterior of its last correction.
THEOREM UpdateCorrect == EkfSpec => []UpdateIsOfItsScan
  <1>1. EkfInit => EkfInv
    BY DEF EkfInit, EkfInv, SearchInv, Searched, CorrectedStateHasPosterior
  <1>2. EkfInv => UpdateIsOfItsScan
    BY DEF EkfInv, SearchInv, Searched, UpdateIsOfItsScan, NeighboursAreOfTheScan
  <1> QED BY <1>1, <1>2, EkfInvStep, PTL DEF EkfSpec

-----------------------------------------------------------------------------
(* The clouds of the messages.                                               *)

\* InOrder lists the members of a set once each, from the least to the greatest.
LEMMA InOrderLists ==
  ASSUME NEW n \in Nat, NEW S \in SUBSET (1..n)
  PROVE  /\ Cardinality(S) \in Nat
         /\ DOMAIN InOrder(S) = 1..Cardinality(S)
         /\ \A k \in 1..Cardinality(S) : InOrder(S)[k] \in S
         /\ \A k \in 1..(Cardinality(S) - 1) : InOrder(S)[k] < InOrder(S)[k + 1]
<1> DEFINE c == Cardinality(S)
           Lower(i) == {j \in S : j < i}
           rank == [i \in S |-> Cardinality(Lower(i))]
<1>1. IsFiniteSet(1..n)
  BY FS_Interval
<1>2. IsFiniteSet(S) /\ c \in Nat
  BY <1>1, FS_Subset, FS_CardinalityType
<1>3. ASSUME NEW i \in S
      PROVE  IsFiniteSet(Lower(i)) /\ rank[i] \in Nat /\ rank[i] < c
  <2>1. Lower(i) \subseteq S \ {i}
    OBVIOUS
  <2>2. IsFiniteSet(S \ {i}) /\ Cardinality(S \ {i}) = c - 1
    BY <1>2, FS_RemoveElement
  <2>3. IsFiniteSet(Lower(i)) /\ Cardinality(Lower(i)) <= c - 1
    BY <2>1, <2>2, FS_Subset
  <2>4. Cardinality(Lower(i)) \in Nat
    BY <2>3, FS_CardinalityType
  <2>5. rank[i] = Cardinality(Lower(i))
    OBVIOUS
  <2> HIDE DEF rank, Lower, c
  <2> QED BY <2>3, <2>4, <2>5, <1>2
<1>4. ASSUME NEW i \in S, NEW j \in S, i < j
      PROVE  rank[i] < rank[j]
  <2>1. Lower(i) \union {i} \subseteq Lower(j) /\ i \notin Lower(i)
    <3>1. i \in Int /\ j \in Int /\ \A l \in S : l \in Int
      OBVIOUS
    <3>2. \A l \in Lower(i) : l \in Lower(j)
      BY <3>1, <1>4
    <3>3. i \in Lower(j) /\ i \notin Lower(i)
      BY <3>1, <1>4
    <3> QED BY <3>2, <3>3
  <2>2. Cardinality(Lower(i) \union {i}) = Cardinality(Lower(i)) + 1
    BY <1>3, <2>1, FS_AddElement
  <2>3. Cardinality(Lower(i) \union {i}) <= Cardinality(Lower(j))
    BY <1>3, <2>1, FS_Subset
  <2>4. rank[i] = Cardinality(Lower(i)) /\ rank[j] = Cardinality(Lower(j))
    OBVIOUS
  <2>5. rank[i] \in Nat /\ rank[j] \in Nat
    BY <1>3
  <2> HIDE DEF rank, Lower
  <2> QED BY <2>2, <2>3, <2>4, <2>5
<1> DEFINE T == 0..(c - 1)
<1>5. rank \in [S -> T]
  <2>1. \A i \in S : rank[i] \in T
    BY <1>2, <1>3
  <2> QED BY <2>1
<1>6. \A i, j \in S : rank[i] = rank[j] => i = j
  <2> SUFFICES ASSUME NEW i \in S, NEW j \in S, rank[i] = rank[j], i # j PROVE FALSE
    OBVIOUS
  <2>1. i < j \/ j < i
    OBVIOUS
  <2>2. rank[i] \in Nat /\ rank[j] \in Nat
    BY <1>3
  <2>3. rank[i] < rank[j] \/ rank[j] < rank[i]
    BY <2>1, <1>4
  <2> QED BY <2>2, <2>3
<1>7. IsFiniteSet(T) /\ Cardinality(T) = c
  BY <1>2, FS_Interval
<1> HIDE DEF rank, T
<1>8. rank \in Surjection(S, T)
  <2>1. rank \in Injection(S, T)
    BY <1>5, <1>6 DEF Injection, IsInjective
  <2> QED BY <2>1, <1>7, FS_Injection
<1>9. ASSUME NEW k \in 1..c
      PROVE  InOrder(S)[k] \in S /\ rank[InOrder(S)[k]] = k - 1
  <2>1. k - 1 \in T
    BY <1>2, <1>9 DEF T
  <2>2. PICK i \in S : rank[i] = k - 1
    BY <2>1, <1>8 DEF Surjection
  <2>3. \A l \in S : rank[l] = Cardinality({j \in S : j < l})
    BY DEF rank
  <2>4. InOrder(S)[k] = CHOOSE l \in S : Cardinality({j \in S : j < l}) = k - 1
    BY <1>9 DEF InOrder
  <2>5. \E l \in S : Cardinality({j \in S : j < l}) = k - 1
    BY <2>2, <2>3
  <2>6. InOrder(S)[k] \in S /\ Cardinality({j \in S : j < InOrder(S)[k]}) = k - 1
    BY <2>4, <2>5
  <2> QED BY <2>6, <2>3
<1>10. ASSUME NEW k \in 1..(c - 1)
       PROVE  InOrder(S)[k] < InOrder(S)[k + 1]
  <2>1. k \in 1..c /\ k + 1 \in 1..c /\ k \in Int
    BY <1>2, <1>10
  <2> DEFINE i == InOrder(S)[k]
             j == InOrder(S)[k + 1]
  <2>2. i \in S /\ j \in S /\ rank[i] = k - 1 /\ rank[j] = k + 1 - 1
    BY <1>9, <2>1
  <2> HIDE DEF i, j
  <2>3. i # j /\ ~(rank[j] < rank[i])
    BY <2>1, <2>2
  <2>4. ~(j < i)
    BY <1>4, <2>2, <2>3
  <2>5. i \in Int /\ j \in Int
    BY <2>2
  <2>6. i < j
    BY <2>3, <2>4, <2>5
  <2> QED BY <2>6 DEF i, j
<1>11. DOMAIN InOrder(S) = 1..c
  BY DEF InOrder
<1> QED BY <1>2, <1>9, <1>10, <1>11

\* A cloud of the points S of a message, in their order.
IsCloudOf(c, S) ==
    /\ Len(c) \in Nat /\ DOMAIN c = 1..Len(c)
    /\ \A k \in 1..Len(c) : c[k].of \in S
    /\ \A k \in 1..(Len(c) - 1) : c[k].of < c[k + 1].of

LEMMA CloudIs ==
  ASSUME NEW msg \in Seq(PrePoint), NEW S \in SUBSET DOMAIN msg,
         NEW c, c = [k \in DOMAIN InOrder(S) |-> c[k]],
         \A k \in DOMAIN InOrder(S) : c[k].of = InOrder(S)[k]
  PROVE  IsCloudOf(c, S)
<1>1. Len(msg) \in Nat /\ S \in SUBSET (1..Len(msg))
  BY LenProperties
<1> DEFINE m == Cardinality(S)
           is == InOrder(S)
<1>2. /\ m \in Nat /\ DOMAIN is = 1..m
      /\ \A k \in 1..m : is[k] \in S
      /\ \A k \in 1..(m - 1) : is[k] < is[k + 1]
  BY <1>1, InOrderLists
<1> HIDE DEF m, is
<1>3. c = [k \in 1..m |-> c[k]] /\ \A k \in 1..m : c[k].of = is[k]
  BY <1>2 DEF is
<1>4. DOMAIN c = 1..m
  BY <1>3
<1>5. Len(c) = m
  <2> DEFINE X == {c[k] : k \in 1..m}
  <2>1. c \in [1..m -> X]
    BY <1>3
  <2> HIDE DEF X
  <2>2. c \in Seq(X)
    BY <2>1, <1>2
  <2> QED BY <2>2, <1>2, <1>4, LenProperties
<1>6. \A k \in 1..(m - 1) : k \in 1..m /\ k + 1 \in 1..m
  BY <1>2
<1> QED BY <1>2, <1>3, <1>4, <1>5, <1>6 DEF IsCloudOf

\* Numbers 0..n, of which each has its predecessor prev but for the heads, and
\* a step from the value of the predecessor.
Links(n, heads, prev, step) ==
    /\ n \in Nat /\ heads \in SUBSET (0..n) /\ 0 \in heads
    /\ \A i \in (0..n) \ heads : prev[i] \in 0..(i - 1)
    /\ \A i \in (0..n) \ heads : \A v \in Int : step[<<v, i>>] \in Int

\* The values along such links: they exist.
Chain(f, n, heads, prev, step) ==
    /\ f \in [0..n -> Int]
    /\ \A i \in 0..n : f[i] = IF i \in heads THEN 0 ELSE step[<<f[prev[i]], i>>]

LEMMA Chained ==
  ASSUME NEW n, NEW heads, NEW prev, NEW step, Links(n, heads, prev, step)
  PROVE  \E f : Chain(f, n, heads, prev, step)
<1>0. /\ n \in Nat /\ heads \in SUBSET (0..n) /\ 0 \in heads
      /\ \A i \in (0..n) \ heads : prev[i] \in 0..(i - 1)
      /\ \A i \in (0..n) \ heads : \A v \in Int : step[<<v, i>>] \in Int
  BY DEF Links
<1> DEFINE Is(f, k) == /\ f \in [0..k -> Int]
                       /\ \A i \in 0..k : f[i] = IF i \in heads THEN 0
                                                 ELSE step[<<f[prev[i]], i>>]
           B == {k \in 0..n : ~\E f : Is(f, k)}
<1>1. B = {}
  <2> SUFFICES ASSUME B # {} PROVE FALSE
    OBVIOUS
  <2>1. B \in SUBSET Nat
    BY <1>0
  <2>2. PICK h \in B : \A k \in B : h <= k
    BY <2>1, LeastExists
  <2>3. h \in 0..n /\ ~\E f : Is(f, h)
    BY <2>2
  <2>4. CASE h = 0
    <3> DEFINE s == [i \in 0..0 |-> 0]
    <3>1. s \in [0..0 -> Int] /\ \A i \in 0..0 : s[i] = 0 /\ i = 0
      OBVIOUS
    <3> HIDE DEF s
    <3>2. Is(s, 0)
      BY <3>1, <1>0
    <3> QED BY <3>2, <2>3, <2>4
  <2>5. CASE h # 0
    <3>1. h - 1 \in 0..n /\ ~(h <= h - 1)
      BY <2>3, <2>5, <1>0
    <3>2. PICK r : Is(r, h - 1)
      BY <3>1, <2>2
    <3> DEFINE v == IF h \in heads THEN 0 ELSE step[<<r[prev[h]], h>>]
               s == [i \in 0..h |-> IF i = h THEN v ELSE r[i]]
    <3>3. v \in Int
      <4>1. h \notin heads => prev[h] \in 0..(h - 1)
        BY <2>3, <1>0
      <4>2. h \notin heads => r[prev[h]] \in Int
        BY <4>1, <3>2
      <4> QED BY <4>2, <2>3, <1>0
    <3>4. \A i \in 0..(h - 1) : i \in 0..h /\ i # h /\ i \in 0..n
      BY <2>3, <1>0
    <3>5. \A i \in 0..h : i = h \/ i \in 0..(h - 1)
      BY <2>3, <1>0
    <3>6. h \in 0..h
      BY <2>3, <1>0
    <3>7. \A i \in 0..(h - 1) : s[i] = r[i] /\ r[i] \in Int
      BY <3>2, <3>4
    <3>8. s[h] = v
      BY <3>6
    <3>9. s \in [0..h -> Int]
      <4>1. \A i \in 0..h : s[i] \in Int
        BY <3>3, <3>5, <3>7, <3>8
      <4> QED BY <4>1
    <3> HIDE DEF s
    <3>10. ASSUME NEW i \in 0..h
           PROVE  s[i] = IF i \in heads THEN 0 ELSE step[<<s[prev[i]], i>>]
      <4>1. CASE i \in heads
        <5>1. i # h => r[i] = 0
          BY <3>2, <3>5, <4>1
        <5> QED BY <5>1, <3>5, <3>7, <3>8, <4>1 DEF v
      <4>2. CASE i \notin heads
        <5>1. i \in (0..n) \ heads
          BY <3>4, <3>5, <4>2, <2>3, <1>0
        <5>2. prev[i] \in 0..(h - 1)
          BY <5>1, <3>5, <2>3, <1>0
        <5>3. s[prev[i]] = r[prev[i]]
          BY <5>2, <3>7
        <5>4. CASE i = h
          BY <5>3, <5>4, <3>8, <4>2 DEF v
        <5>5. CASE i # h
          <6>1. i \in 0..(h - 1)
            BY <3>5, <5>5
          <6>2. r[i] = step[<<r[prev[i]], i>>]
            BY <6>1, <3>2, <4>2
          <6> QED BY <6>1, <6>2, <5>3, <3>7, <4>2
        <5> QED BY <5>4, <5>5
      <4> QED BY <4>1, <4>2
    <3>11. Is(s, h)
      BY <3>9, <3>10
    <3> QED BY <3>11, <2>3
  <2> QED BY <2>4, <2>5
<1>2. n \in 0..n
  BY <1>0
<1>3. PICK f : Is(f, n)
  BY <1>1, <1>2
<1> QED BY <1>3 DEF Chain

\* The line a point belongs to: its previous point and its first one.
LEMMA LineOfPoint ==
  ASSUME NEW msg, NEW n \in Nat, NEW i \in 1..n, ~FirstOfLine(msg, i)
  PROVE  /\ Previous(msg, i) \in EarlierOfLine(msg, i)
         /\ First(msg, i) \in EarlierOfLine(msg, i)
         /\ EarlierOfLine(msg, i) \subseteq 1..(i - 1)
         /\ \A k \in EarlierOfLine(msg, i) : First(msg, i) <= k /\ k <= Previous(msg, i)
<1>1. EarlierOfLine(msg, i) \in SUBSET (0..n) /\ EarlierOfLine(msg, i) \in SUBSET Nat
      /\ EarlierOfLine(msg, i) \subseteq 1..(i - 1)
  BY DEF EarlierOfLine
<1>2. EarlierOfLine(msg, i) # {}
  BY DEF FirstOfLine
<1>3. \E g \in EarlierOfLine(msg, i) : \A k \in EarlierOfLine(msg, i) : k <= g
  BY <1>1, <1>2, GreatestExists
<1>4. \E h \in EarlierOfLine(msg, i) : \A k \in EarlierOfLine(msg, i) : h <= k
  BY <1>1, <1>2, LeastExists
<1> QED BY <1>1, <1>3, <1>4 DEF Previous, First

\* The previous point of the line has the same first point, or is it.
LEMMA SameLine ==
  ASSUME NEW msg, NEW n \in Nat, NEW i \in 1..n, ~FirstOfLine(msg, i),
         NEW k, k = Previous(msg, i)
  PROVE  /\ k \in 1..(i - 1) /\ msg[k].line = msg[i].line /\ ~Cropped(msg[k])
         /\ EarlierOfLine(msg, i) = EarlierOfLine(msg, k) \union {k}
         /\ First(msg, i) = IF FirstOfLine(msg, k) THEN k ELSE First(msg, k)
<1>1. /\ k \in EarlierOfLine(msg, i) /\ First(msg, i) \in EarlierOfLine(msg, i)
      /\ EarlierOfLine(msg, i) \subseteq 1..(i - 1)
      /\ \A l \in EarlierOfLine(msg, i) : First(msg, i) <= l /\ l <= k
  BY LineOfPoint
<1>2. k \in 1..(i - 1) /\ msg[k].line = msg[i].line /\ ~Cropped(msg[k])
  BY <1>1 DEF EarlierOfLine
<1>3. \A l \in EarlierOfLine(msg, i) : l # k => l \in 1..(k - 1)
  BY <1>1, <1>2
<1>4. \A l \in 1..(k - 1) : l \in 1..(i - 1)
  BY <1>2
<1>5. EarlierOfLine(msg, i) = EarlierOfLine(msg, k) \union {k}
  BY <1>1, <1>2, <1>3, <1>4 DEF EarlierOfLine
<1>6. FirstOfLine(msg, k) => First(msg, i) = k
  BY <1>1, <1>5 DEF FirstOfLine
<1>7. ~FirstOfLine(msg, k) => First(msg, i) = First(msg, k)
  <2> SUFFICES ASSUME ~FirstOfLine(msg, k) PROVE First(msg, i) = First(msg, k)
    OBVIOUS
  <2>1. /\ First(msg, k) \in EarlierOfLine(msg, k) /\ EarlierOfLine(msg, k) \subseteq 1..(k - 1)
        /\ \A l \in EarlierOfLine(msg, k) : First(msg, k) <= l
    <3>1. k \in 1..n
      BY <1>2
    <3> QED BY <3>1, LineOfPoint
  <2>2. First(msg, k) \in EarlierOfLine(msg, i) /\ First(msg, k) <= k - 1 /\ First(msg, k) \in Int
    BY <2>1, <1>5, <1>2
  <2>3. First(msg, i) \in EarlierOfLine(msg, k)
    <3>1. First(msg, i) <= First(msg, k)
      BY <1>1, <2>2
    <3>2. First(msg, i) \in Int /\ k \in Int
      BY <1>1, <1>2
    <3>3. First(msg, i) # k
      BY <2>2, <3>1, <3>2
    <3> QED BY <3>3, <1>1, <1>5
  <2>4. First(msg, k) <= First(msg, i) /\ First(msg, i) <= First(msg, k)
    BY <2>1, <2>2, <2>3, <1>1
  <2>5. First(msg, i) \in Int
    BY <1>1
  <2> QED BY <2>2, <2>4, <2>5
<1> QED BY <1>2, <1>5, <1>6, <1>7

LEMMA MessageTypes ==
  ASSUME NEW msg \in Seq(PrePoint)
  PROVE  /\ Len(msg) \in Nat /\ DOMAIN msg = 1..Len(msg)
         /\ \A i \in 1..Len(msg) : msg[i] \in PrePoint /\ msg[i].yaw \in Int
<1>1. Len(msg) \in Nat /\ DOMAIN msg = 1..Len(msg)
  BY LenProperties
<1>2. \A i \in 1..Len(msg) : msg[i] \in PrePoint
  BY ElementOfSeq
<1> QED BY <1>1, <1>2 DEF PrePoint

\* What the recursive definitions of the times and of the swept angles say.
LEMMA SweepTimesAre ==
  ASSUME NEW msg \in Seq(PrePoint)
  PROVE  \A i \in 0..Len(msg) :
           SweepTimes(msg)[i] =
             IF i = 0 \/ FirstOfLine(msg, i) THEN 0
             ELSE SweepTime(msg[First(msg, i)].yaw, SweepTimes(msg)[Previous(msg, i)],
                            msg[i].yaw)
<1> DEFINE n == Len(msg)
           heads == {i \in 0..n : i = 0 \/ FirstOfLine(msg, i)}
           prev == [i \in 0..n |-> Previous(msg, i)]
           step == [w \in Int \X (0..n) |->
                      SweepTime(msg[First(msg, w[2])].yaw, w[1], msg[w[2]].yaw)]
<1>1. n \in Nat /\ \A i \in 1..n : msg[i].yaw \in Int
  BY MessageTypes
<1>2. heads \in SUBSET (0..n) /\ 0 \in heads
  BY <1>1
<1>3. \A i \in (0..n) \ heads :
        /\ i \in 1..n /\ ~FirstOfLine(msg, i)
        /\ prev[i] = Previous(msg, i) /\ prev[i] \in 0..(i - 1)
        /\ First(msg, i) \in 1..n
  <2> SUFFICES ASSUME NEW i \in (0..n) \ heads
               PROVE  /\ i \in 1..n /\ ~FirstOfLine(msg, i)
                      /\ prev[i] = Previous(msg, i) /\ prev[i] \in 0..(i - 1)
                      /\ First(msg, i) \in 1..n
    OBVIOUS
  <2>1. i \in 1..n /\ ~FirstOfLine(msg, i) /\ i \in 0..n
    BY <1>1
  <2> HIDE DEF heads, n
  <2>2. Previous(msg, i) \in 1..(i - 1) /\ First(msg, i) \in 1..(i - 1)
    BY <1>1, <2>1, LineOfPoint
  <2> QED BY <2>1, <2>2, <1>1
<1>4. \A i \in (0..n) \ heads : \A v \in Int :
        /\ step[<<v, i>>] = SweepTime(msg[First(msg, i)].yaw, v, msg[i].yaw)
        /\ step[<<v, i>>] \in Int
  <2> SUFFICES ASSUME NEW i \in (0..n) \ heads, NEW v \in Int
               PROVE  /\ step[<<v, i>>] = SweepTime(msg[First(msg, i)].yaw, v, msg[i].yaw)
                      /\ step[<<v, i>>] \in Int
    OBVIOUS
  <2>1. step[<<v, i>>] = SweepTime(msg[First(msg, i)].yaw, v, msg[i].yaw)
    OBVIOUS
  <2> HIDE DEF heads, n, step
  <2>2. msg[First(msg, i)].yaw \in Int /\ msg[i].yaw \in Int
    BY <1>1, <1>3
  <2>3. SweepSteps \in Int
    BY PreprocessAssumption
  <2> QED BY <2>1, <2>2, <2>3 DEF SweepTime
<1> HIDE DEF heads, prev, step, n
<1>5. PICK r \in [0..n -> Int] :
        \A i \in 0..n : r[i] = IF i \in heads THEN 0 ELSE step[<<r[prev[i]], i>>]
  <2>1. Links(n, heads, prev, step)
    BY <1>1, <1>2, <1>3, <1>4 DEF Links
  <2> QED BY <2>1, Chained DEF Chain
<1> DEFINE Time(g, i) == IF i = 0 \/ FirstOfLine(msg, i) THEN 0
                         ELSE SweepTime(msg[First(msg, i)].yaw, g[Previous(msg, i)], msg[i].yaw)
<1>6. \A i \in 0..n : r[i] = Time(r, i)
  <2> SUFFICES ASSUME NEW i \in 0..n PROVE r[i] = Time(r, i)
    OBVIOUS
  <2>1. CASE i \in heads
    BY <2>1, <1>5 DEF heads
  <2>2. CASE i \notin heads
    <3>1. prev[i] = Previous(msg, i) /\ prev[i] \in 0..n
      BY <1>1, <1>3, <2>2
    <3>2. r[prev[i]] \in Int
      BY <3>1, <1>5
    <3>3. ~(i = 0 \/ FirstOfLine(msg, i))
      BY <2>2 DEF heads
    <3> QED BY <3>1, <3>2, <3>3, <1>4, <1>5, <2>2
  <2> QED BY <2>1, <2>2
<1> DEFINE f == CHOOSE g : g = [i \in 0..n |-> Time(g, i)]
<1>7. r = [i \in 0..n |-> Time(r, i)]
  <2> DEFINE t == [i \in 0..n |-> Time(r, i)]
  <2>1. t = [i \in 0..n |-> t[i]] /\ \A i \in 0..n : t[i] = Time(r, i)
    OBVIOUS
  <2> HIDE DEF t, Time
  <2>2. \A i \in 0..n : r[i] = t[i]
    BY <2>1, <1>6
  <2>3. r = [i \in 0..n |-> r[i]]
    BY <1>5
  <2>4. [i \in 0..n |-> r[i]] = [i \in 0..n |-> t[i]]
    BY <2>2
  <2>5. r = t
    BY <2>1, <2>3, <2>4
  <2> QED BY <2>5 DEF t
<1>8. f = [i \in 0..n |-> Time(f, i)]
  BY <1>7
<1>9. SweepTimes(msg) = f
  BY DEF SweepTimes, n
<1> HIDE DEF f
<1>10. \A i \in 0..n : f[i] = Time(f, i)
  BY <1>8
<1> QED BY <1>9, <1>10 DEF n

LEMMA SweptIs ==
  ASSUME NEW msg \in Seq(PrePoint)
  PROVE  \A i \in 0..Len(msg) :
           Swept(msg)[i] =
             IF i = 0 \/ FirstOfLine(msg, i) THEN 0
             ELSE Swept(msg)[Previous(msg, i)]
                    + ((msg[Previous(msg, i)].yaw - msg[i].yaw) % SweepSteps)
<1> DEFINE n == Len(msg)
           heads == {i \in 0..n : i = 0 \/ FirstOfLine(msg, i)}
           prev == [i \in 0..n |-> Previous(msg, i)]
           step == [w \in Int \X (0..n) |->
                      w[1] + ((msg[Previous(msg, w[2])].yaw - msg[w[2]].yaw) % SweepSteps)]
<1>1. n \in Nat /\ \A i \in 1..n : msg[i].yaw \in Int
  BY MessageTypes
<1>2. heads \in SUBSET (0..n) /\ 0 \in heads
  BY <1>1
<1>3. \A i \in (0..n) \ heads :
        /\ i \in 1..n /\ ~FirstOfLine(msg, i)
        /\ prev[i] = Previous(msg, i) /\ prev[i] \in 0..(i - 1)
        /\ Previous(msg, i) \in 1..n
  <2> SUFFICES ASSUME NEW i \in (0..n) \ heads
               PROVE  /\ i \in 1..n /\ ~FirstOfLine(msg, i)
                      /\ prev[i] = Previous(msg, i) /\ prev[i] \in 0..(i - 1)
                      /\ Previous(msg, i) \in 1..n
    OBVIOUS
  <2>1. i \in 1..n /\ ~FirstOfLine(msg, i) /\ i \in 0..n
    BY <1>1
  <2> HIDE DEF heads, n
  <2>2. Previous(msg, i) \in 1..(i - 1) /\ First(msg, i) \in 1..(i - 1)
    BY <1>1, <2>1, LineOfPoint
  <2> QED BY <2>1, <2>2, <1>1
<1>4. \A i \in (0..n) \ heads : \A v \in Int :
        /\ step[<<v, i>>] = v + ((msg[Previous(msg, i)].yaw - msg[i].yaw) % SweepSteps)
        /\ step[<<v, i>>] \in Int
  <2> SUFFICES ASSUME NEW i \in (0..n) \ heads, NEW v \in Int
               PROVE  /\ step[<<v, i>>] = v + ((msg[Previous(msg, i)].yaw - msg[i].yaw) % SweepSteps)
                      /\ step[<<v, i>>] \in Int
    OBVIOUS
  <2>1. step[<<v, i>>] = v + ((msg[Previous(msg, i)].yaw - msg[i].yaw) % SweepSteps)
    OBVIOUS
  <2> HIDE DEF heads, n, step
  <2>2. msg[Previous(msg, i)].yaw \in Int /\ msg[i].yaw \in Int
    BY <1>1, <1>3
  <2>3. SweepSteps \in Nat \ {0}
    BY PreprocessAssumption
  <2> QED BY <2>1, <2>2, <2>3
<1> HIDE DEF heads, prev, step, n
<1>5. PICK r \in [0..n -> Int] :
        \A i \in 0..n : r[i] = IF i \in heads THEN 0 ELSE step[<<r[prev[i]], i>>]
  <2>1. Links(n, heads, prev, step)
    BY <1>1, <1>2, <1>3, <1>4 DEF Links
  <2> QED BY <2>1, Chained DEF Chain
<1> DEFINE Time(g, i) == IF i = 0 \/ FirstOfLine(msg, i) THEN 0
                         ELSE g[Previous(msg, i)]
                              + ((msg[Previous(msg, i)].yaw - msg[i].yaw) % SweepSteps)
<1>6. \A i \in 0..n : r[i] = Time(r, i)
  <2> SUFFICES ASSUME NEW i \in 0..n PROVE r[i] = Time(r, i)
    OBVIOUS
  <2>1. CASE i \in heads
    BY <2>1, <1>5 DEF heads
  <2>2. CASE i \notin heads
    <3>1. prev[i] = Previous(msg, i) /\ prev[i] \in 0..n
      BY <1>1, <1>3, <2>2
    <3>2. r[prev[i]] \in Int
      BY <3>1, <1>5
    <3>3. ~(i = 0 \/ FirstOfLine(msg, i))
      BY <2>2 DEF heads
    <3> QED BY <3>1, <3>2, <3>3, <1>4, <1>5, <2>2
  <2> QED BY <2>1, <2>2
<1> DEFINE f == CHOOSE g : g = [i \in 0..n |-> Time(g, i)]
<1>7. r = [i \in 0..n |-> Time(r, i)]
  <2> DEFINE t == [i \in 0..n |-> Time(r, i)]
  <2>1. t = [i \in 0..n |-> t[i]] /\ \A i \in 0..n : t[i] = Time(r, i)
    OBVIOUS
  <2> HIDE DEF t, Time
  <2>2. \A i \in 0..n : r[i] = t[i]
    BY <2>1, <1>6
  <2>3. r = [i \in 0..n |-> r[i]]
    BY <1>5
  <2>4. [i \in 0..n |-> r[i]] = [i \in 0..n |-> t[i]]
    BY <2>2
  <2>5. r = t
    BY <2>1, <2>3, <2>4
  <2> QED BY <2>5 DEF t
<1>8. f = [i \in 0..n |-> Time(f, i)]
  BY <1>7
<1>9. Swept(msg) = f
  BY DEF Swept, n
<1> HIDE DEF f
<1>10. \A i \in 0..n : f[i] = Time(f, i)
  BY <1>8
<1> QED BY <1>9, <1>10 DEF n

\* Division with remainder.
LEMMA RemainderOf ==
  ASSUME NEW a \in Int, NEW s \in Nat \ {0}
  PROVE  a % s \in 0..(s - 1) /\ \E q \in Int : a = s * q + (a % s)
<1>1. a % s \in 0..(s - 1)
  OBVIOUS
<1>2. a = s * (a \div s) + (a % s) /\ a \div s \in Int
  OBVIOUS
<1> QED BY <1>1, <1>2

\* A multiple of s that is less than s is none.
LEMMA NoTurn ==
  ASSUME NEW s \in Nat \ {0}, NEW q \in Int, -s < s * q, s * q < s
  PROVE  s * q = 0
<1>1. CASE q >= 1
  <2>1. s * q = s + s * (q - 1) /\ s * (q - 1) >= 0
    BY <1>1
  <2> QED BY <2>1
<1>2. CASE q <= -1
  <2>1. s * q = s * (q + 1) - s /\ s * (q + 1) <= 0
    BY <1>2
  <2> QED BY <2>1
<1> QED BY <1>1, <1>2

\* A direction, as atan2 gives it.
Direction(yaw) == yaw \in Int /\ -SweepSteps < 2 * yaw /\ 2 * yaw <= SweepSteps

\* From the direction first the lidar has turned by the angle swept to the
\* direction now; within the first turn the time is this angle.
HasSwept(first, now, swept, time) ==
    /\ swept \in Nat
    /\ \E q \in Int : first - now = swept + SweepSteps * q
    /\ swept < SweepSteps => time = swept

LEMMA TurnedOn ==
  ASSUME NEW first, NEW prior, NEW now, NEW swept, NEW last,
         Direction(first), Direction(prior), Direction(now),
         HasSwept(first, prior, swept, last),
         NEW next, next = swept + ((prior - now) % SweepSteps)
  PROVE  next >= swept /\ HasSwept(first, now, next, SweepTime(first, last, now))
<1>0. /\ first \in Int /\ prior \in Int /\ now \in Int /\ swept \in Nat
      /\ SweepSteps \in Nat \ {0}
      /\ -SweepSteps < 2 * first /\ 2 * first <= SweepSteps
      /\ -SweepSteps < 2 * now /\ 2 * now <= SweepSteps
      /\ swept < SweepSteps => last = swept
  BY PreprocessAssumption DEF Direction, HasSwept
<1> DEFINE s == SweepSteps
<1> DEFINE d == (prior - now) % s
<1>1. d \in 0..(s - 1)
  <2>1. prior - now \in Int
    BY <1>0
  <2> QED BY <1>0, <2>1, RemainderOf
<1>2. PICK p \in Int : prior - now = s * p + d
  <2>1. prior - now \in Int
    BY <1>0
  <2>2. \E p \in Int : prior - now = s * p + ((prior - now) % s)
    BY <1>0, <2>1, RemainderOf
  <2> QED BY <2>2
<1>3. PICK q \in Int : first - prior = swept + s * q
  BY DEF HasSwept
<1> HIDE DEF d
<1>4. s * (p + q) = s * p + s * q /\ s * p \in Int /\ s * q \in Int /\ p + q \in Int
  BY <1>0
<1>5. next = swept + d
  BY DEF d
<1>6. next \in Nat /\ next >= swept
  BY <1>0, <1>1, <1>5
<1>7. first - now = next + s * (p + q)
  <2> DEFINE turnsP == s * p
             turnsQ == s * q
  <2>1. /\ turnsP \in Int /\ turnsQ \in Int /\ s * (p + q) = turnsP + turnsQ
        /\ prior - now = turnsP + d /\ first - prior = swept + turnsQ
    BY <1>0, <1>2, <1>3, <1>4
  <2> HIDE DEF turnsP, turnsQ
  <2>2. first - now = swept + turnsQ + turnsP + d
    BY <2>1, <1>0, <1>1
  <2>3. first - now = next + (turnsP + turnsQ)
    BY <2>1, <2>2, <1>0, <1>1, <1>5
  <2> QED BY <2>1, <2>3
<1>8. ASSUME next < s PROVE SweepTime(first, last, now) = next
  <2> DEFINE turn == IF now <= first THEN first - now ELSE first - now + s
  <2>1. last = swept
    BY <1>0, <1>6, <1>8
  <2>2. turn \in 0..(s - 1)
    BY <1>0
  <2>3. turn = next
    <3>1. CASE now <= first
      <4>1. -s < s * (p + q) /\ s * (p + q) < s
        BY <3>1, <2>2, <1>0, <1>4, <1>6, <1>7, <1>8
      <4>2. s * (p + q) = 0
        BY <4>1, <1>0, <1>4, NoTurn
      <4> QED BY <3>1, <4>2, <1>0, <1>6, <1>7
    <3>2. CASE ~(now <= first)
      <4>1. s * (p + q + 1) = s * (p + q) + s /\ p + q + 1 \in Int
        BY <1>0, <1>4
      <4>2. turn = next + s * (p + q + 1) /\ s * (p + q + 1) \in Int
        BY <3>2, <4>1, <1>0, <1>4, <1>6, <1>7
      <4>3. -s < s * (p + q + 1) /\ s * (p + q + 1) < s
        BY <2>2, <4>2, <1>0, <1>6, <1>8
      <4>4. s * (p + q + 1) = 0
        BY <4>1, <4>3, <1>0, NoTurn
      <4> QED BY <4>2, <4>4, <1>0, <1>6
    <3> QED BY <3>1, <3>2
  <2>4. SweepTime(first, last, now) = IF turn < last THEN turn + s ELSE turn
    BY DEF SweepTime
  <2> HIDE DEF turn
  <2> QED BY <2>1, <2>3, <2>4, <1>0, <1>6
<1> QED BY <1>4, <1>6, <1>7, <1>8 DEF HasSwept

\* So it is at a point of a message, counted from the first point of its line.
Turned(msg, i) ==
    LET origin == IF FirstOfLine(msg, i) THEN i ELSE First(msg, i)
    IN  HasSwept(msg[origin].yaw, msg[i].yaw, Swept(msg)[i], SweepTimes(msg)[i])

\* Of the messages of spinning lidars.
LEMMA CloudTypes ==
  ASSUME NEW msg \in PointClouds
  PROVE  /\ msg \in Seq(PrePoint)
         /\ SweepSteps \in Nat \ {0}
         /\ \A i \in 1..Len(msg) : Direction(msg[i].yaw)
<1>1. msg \in Seq(PrePoint) /\ SweepSteps \in Nat \ {0}
  BY PreprocessAssumption
<1> QED BY <1>1, MessageTypes, PreprocessAssumption DEF Direction

LEMMA NextTurned ==
  ASSUME NEW msg \in PointClouds, NEW i \in 1..Len(msg), ~FirstOfLine(msg, i),
         Turned(msg, Previous(msg, i))
  PROVE  Turned(msg, i) /\ Swept(msg)[Previous(msg, i)] <= Swept(msg)[i]
<1> DEFINE k == Previous(msg, i)
           first == First(msg, i)
<1>1. /\ msg \in Seq(PrePoint) /\ Len(msg) \in Nat
      /\ \A j \in 1..Len(msg) : Direction(msg[j].yaw)
  BY CloudTypes, MessageTypes
<1>2. /\ k \in 1..(i - 1)
      /\ first = IF FirstOfLine(msg, k) THEN k ELSE First(msg, k)
  <2>1. Len(msg) \in Nat
    BY <1>1
  <2>2. \A l : l = Previous(msg, i) =>
          l \in 1..(i - 1) /\ First(msg, i) = IF FirstOfLine(msg, l) THEN l ELSE First(msg, l)
    BY <2>1, SameLine
  <2> QED BY <2>2
<1>3. first \in 1..Len(msg) /\ k \in 1..Len(msg) /\ i \in 0..Len(msg) /\ i # 0
  <2>1. first \in 1..(i - 1)
    BY <1>1, LineOfPoint
  <2> QED BY <2>1, <1>1, <1>2
<1> DEFINE w == Swept(msg)[k]
           t == SweepTimes(msg)[k]
<1>4. /\ Swept(msg)[i] = w + ((msg[k].yaw - msg[i].yaw) % SweepSteps)
      /\ SweepTimes(msg)[i] = SweepTime(msg[first].yaw, t, msg[i].yaw)
  <2>1. Swept(msg)[i] = w + ((msg[k].yaw - msg[i].yaw) % SweepSteps)
    BY <1>1, <1>3, SweptIs
  <2>2. SweepTimes(msg)[i] = SweepTime(msg[first].yaw, t, msg[i].yaw)
    BY <1>1, <1>3, SweepTimesAre
  <2> QED BY <2>1, <2>2
<1>5. HasSwept(msg[first].yaw, msg[k].yaw, w, t)
  BY <1>2 DEF Turned
<1>6. Direction(msg[first].yaw) /\ Direction(msg[k].yaw) /\ Direction(msg[i].yaw)
  BY <1>1, <1>3
<1> HIDE DEF k, first, w, t
<1>7. /\ Swept(msg)[i] >= w
      /\ HasSwept(msg[first].yaw, msg[i].yaw, Swept(msg)[i], SweepTimes(msg)[i])
  BY <1>4, <1>5, <1>6, TurnedOn
<1>8. Turned(msg, i)
  BY <1>7 DEF Turned, first
<1>9. w \in Nat /\ Swept(msg)[i] \in Nat
  BY <1>5, <1>7 DEF HasSwept
<1> QED BY <1>7, <1>8, <1>9 DEF k, w

LEMMA AllTurned ==
  ASSUME NEW msg \in PointClouds
  PROVE  \A i \in 1..Len(msg) : Turned(msg, i)
<1> DEFINE B == {i \in 1..Len(msg) : ~Turned(msg, i)}
<1>1. msg \in Seq(PrePoint) /\ Len(msg) \in Nat /\ SweepSteps \in Nat \ {0}
      /\ \A j \in 1..Len(msg) : msg[j].yaw \in Int
  BY CloudTypes, MessageTypes
<1>2. B = {}
  <2> SUFFICES ASSUME B # {} PROVE FALSE
    OBVIOUS
  <2>1. B \in SUBSET Nat
    OBVIOUS
  <2>2. PICK i \in B : \A k \in B : i <= k
    BY <2>1, LeastExists
  <2>3. i \in 1..Len(msg) /\ ~Turned(msg, i)
    BY <2>2
  <2>4. CASE FirstOfLine(msg, i)
    <3>1. i \in 0..Len(msg)
      BY <2>3, <1>1
    <3>2. Swept(msg)[i] = 0 /\ SweepTimes(msg)[i] = 0
      BY <3>1, <2>4, <1>1, SweptIs, SweepTimesAre
    <3>3. msg[i].yaw - msg[i].yaw = 0 + SweepSteps * 0
      BY <1>1, <2>3
    <3>4. Turned(msg, i)
      BY <3>2, <3>3, <2>4 DEF Turned, HasSwept
    <3> QED BY <3>4, <2>3
  <2>5. CASE ~FirstOfLine(msg, i)
    <3>1. Previous(msg, i) \in 1..(i - 1)
      BY <1>1, <2>3, <2>5, SameLine
    <3>2. Previous(msg, i) \in 1..Len(msg) /\ ~(i <= Previous(msg, i))
      BY <3>1, <2>3, <1>1
    <3>3. Turned(msg, Previous(msg, i))
      BY <3>2, <2>2
    <3> QED BY <3>3, <2>3, <2>5, NextTurned
  <2> QED BY <2>4, <2>5
<1> QED BY <1>2

\* Along a line the swept angle grows.
LEMMA SweepGrows ==
  ASSUME NEW msg \in PointClouds, NEW j \in 1..Len(msg), NEW i \in EarlierOfLine(msg, j)
  PROVE  Swept(msg)[i] <= Swept(msg)[j]
<1> DEFINE B == {l \in 1..Len(msg) : \E k \in EarlierOfLine(msg, l) :
                    ~(Swept(msg)[k] <= Swept(msg)[l])}
<1>1. msg \in Seq(PrePoint) /\ Len(msg) \in Nat
  BY CloudTypes, MessageTypes
<1>2. B = {}
  <2> SUFFICES ASSUME B # {} PROVE FALSE
    OBVIOUS
  <2>1. B \in SUBSET Nat
    OBVIOUS
  <2>2. PICK l \in B : \A k \in B : l <= k
    BY <2>1, LeastExists
  <2>3. l \in 1..Len(msg) /\ \E k \in EarlierOfLine(msg, l) : ~(Swept(msg)[k] <= Swept(msg)[l])
    BY <2>2
  <2>4. PICK k \in EarlierOfLine(msg, l) : ~(Swept(msg)[k] <= Swept(msg)[l])
    BY <2>3
  <2> DEFINE p == Previous(msg, l)
  <2>5. ~FirstOfLine(msg, l)
    BY <2>4 DEF FirstOfLine
  <2>6. p \in 1..(l - 1) /\ EarlierOfLine(msg, l) = EarlierOfLine(msg, p) \union {p}
    BY <1>1, <2>3, <2>5, SameLine
  <2>7. p \in 1..Len(msg) /\ ~(l <= p)
    BY <2>6, <2>3, <1>1
  <2>8. Swept(msg)[p] <= Swept(msg)[l] /\ Swept(msg)[p] \in Nat /\ Swept(msg)[l] \in Nat
    <3>1. Turned(msg, p) /\ Turned(msg, l)
      BY <2>3, <2>7, AllTurned
    <3> QED BY <3>1, <2>3, <2>5, NextTurned DEF Turned, HasSwept
  <2>9. CASE k = p
    BY <2>4, <2>8, <2>9
  <2>10. CASE k # p
    <3>1. k \in EarlierOfLine(msg, p)
      BY <2>4, <2>6, <2>10
    <3>2. Swept(msg)[k] <= Swept(msg)[p]
      BY <3>1, <2>2, <2>7
    <3>3. Swept(msg)[k] \in Nat
      <4>1. k \in 1..Len(msg)
        BY <3>1, <2>7, <1>1 DEF EarlierOfLine
      <4> QED BY <4>1, AllTurned DEF Turned, HasSwept
    <3> QED BY <3>2, <3>3, <2>4, <2>8
  <2> QED BY <2>9, <2>10
<1> QED BY <1>2

\* Within the first turn the times are the swept angles, and grow.
LEMMA TimesOfTheSweep ==
  ASSUME NEW msg \in PointClouds, NEW i \in 1..Len(msg)
  PROVE  /\ \/ Swept(msg)[i] >= SweepSteps
            \/ SweepTimes(msg)[i] = Swept(msg)[i]
         /\ \A k \in EarlierOfLine(msg, i) :
              \/ Swept(msg)[i] >= SweepSteps
              \/ SweepTimes(msg)[k] <= SweepTimes(msg)[i]
<1>1. Len(msg) \in Nat /\ SweepSteps \in Nat
  BY CloudTypes, MessageTypes
<1>2. Swept(msg)[i] \in Nat /\ (Swept(msg)[i] < SweepSteps => SweepTimes(msg)[i] = Swept(msg)[i])
  BY AllTurned DEF Turned, HasSwept
<1>3. ASSUME NEW k \in EarlierOfLine(msg, i), Swept(msg)[i] < SweepSteps
      PROVE  SweepTimes(msg)[k] <= SweepTimes(msg)[i]
  <2>1. k \in 1..Len(msg)
    BY <1>1 DEF EarlierOfLine
  <2>2. Swept(msg)[k] \in Nat /\ (Swept(msg)[k] < SweepSteps => SweepTimes(msg)[k] = Swept(msg)[k])
    BY <2>1, AllTurned DEF Turned, HasSwept
  <2>3. Swept(msg)[k] <= Swept(msg)[i]
    BY SweepGrows
  <2> QED BY <2>2, <2>3, <1>1, <1>2, <1>3
<1> QED BY <1>1, <1>2, <1>3

\* The clouds of the handlers hold usable points.
Usable(c, msg) ==
    /\ Len(c) \in Nat /\ DOMAIN c = 1..Len(c)
    /\ \A k \in 1..Len(c) :
         c[k].of \in DOMAIN msg /\ ~msg[c[k].of].near /\ ~msg[c[k].of].body
    /\ \A k \in 1..(Len(c) - 1) : c[k].of < c[k + 1].of

LEMMA UsableOf ==
  ASSUME NEW msg, NEW S \in SUBSET DOMAIN msg, NEW c, IsCloudOf(c, S),
         \A i \in S : ~msg[i].near /\ ~Cropped(msg[i])
  PROVE  Usable(c, msg)
BY DEF Usable, IsCloudOf, Cropped

\* No two points of the cloud that follow each other in the message are in the same place.
NoRepeats(c, msg) ==
    \A k \in 1..(Len(c) - 1) :
      c[k + 1].of = c[k].of + 1 => msg[c[k].of].place # msg[c[k + 1].of].place

\* The points have the times of the sweep.
Timed(c, msg) ==
    \A k \in DOMAIN c : \/ Swept(msg)[c[k].of] >= SweepSteps
                        \/ c[k].curvature = Swept(msg)[c[k].of]

LEMMA AviaKeeps ==
  ASSUME NEW msg \in Seq(PrePoint), NEW filter
  PROVE  LET c == avia_handler(msg, filter) IN Usable(c, msg) /\ NoRepeats(c, msg)
<1> DEFINE Valid(i)  == i > 1 /\ msg[i].line < N_SCANS /\ msg[i].tag /\ ~Cropped(msg[i])
           Count(i)  == Cardinality({k \in 1..i : Valid(k)})
           Copied(i) == Valid(i) /\ Count(i) % filter = 0
           Full(i)   == IF Copied(i) THEN msg[i].place ELSE 0
           Used(i)   == Copied(i) /\ Full(i) # Full(i - 1) /\ ~msg[i].near
           S == {i \in DOMAIN msg : Used(i)}
           c == avia_handler(msg, filter)
<1>1. c = [k \in DOMAIN InOrder(S) |->
             [of |-> InOrder(S)[k], curvature |-> msg[InOrder(S)[k]].t * TimeScale]]
  BY DEF avia_handler, Cloud, Those
<1>2. /\ \A i \in S : Copied(i) /\ ~msg[i].near /\ ~Cropped(msg[i])
      /\ \A i \in S : Full(i) = msg[i].place /\ Full(i) # Full(i - 1)
  OBVIOUS
<1>3. S \in SUBSET DOMAIN msg /\ DOMAIN msg \subseteq Int
  BY MessageTypes
<1> HIDE DEF S, c
<1>4. c = [k \in DOMAIN InOrder(S) |-> c[k]] /\ \A k \in DOMAIN InOrder(S) : c[k].of = InOrder(S)[k]
  BY <1>1
<1>5. IsCloudOf(c, S)
  BY <1>3, <1>4, CloudIs
<1> HIDE DEF Copied
<1>6. Usable(c, msg)
  BY <1>2, <1>3, <1>5, UsableOf
<1>7. NoRepeats(c, msg)
  <2> SUFFICES ASSUME NEW k \in 1..(Len(c) - 1), c[k + 1].of = c[k].of + 1
               PROVE  msg[c[k].of].place # msg[c[k + 1].of].place
    BY DEF NoRepeats
  <2>1. k \in 1..Len(c) /\ k + 1 \in 1..Len(c)
    BY <1>5 DEF IsCloudOf
  <2> DEFINE i == c[k].of
             j == c[k + 1].of
  <2>2. i \in S /\ j \in S /\ j = i + 1
    BY <2>1, <1>5 DEF IsCloudOf
  <2> HIDE DEF i, j, Full
  <2>3. j - 1 = i
    BY <2>2, <1>3
  <2> QED BY <2>2, <2>3, <1>2 DEF i, j
<1> QED BY <1>6, <1>7 DEF c

LEMMA OthersKeep ==
  ASSUME NEW msg \in Seq(PrePoint), NEW filter
  PROVE  Usable(oust64_handler(msg, filter), msg) /\ Usable(default_handler(msg), msg)
<1>1. Usable(oust64_handler(msg, filter), msg)
  <2> DEFINE S == {i \in DOMAIN msg : (i - 1) % filter = 0 /\ ~Cropped(msg[i]) /\ ~msg[i].near}
             c == oust64_handler(msg, filter)
  <2>1. c = [k \in DOMAIN InOrder(S) |->
               [of |-> InOrder(S)[k], curvature |-> msg[InOrder(S)[k]].t * TimeScale]]
    BY DEF oust64_handler, Cloud, Those
  <2>2. S \in SUBSET DOMAIN msg /\ \A i \in S : ~msg[i].near /\ ~Cropped(msg[i])
    OBVIOUS
  <2> HIDE DEF S, c
  <2>3. c = [k \in DOMAIN InOrder(S) |-> c[k]] /\ \A k \in DOMAIN InOrder(S) : c[k].of = InOrder(S)[k]
    BY <2>1
  <2>4. IsCloudOf(c, S)
    BY <2>2, <2>3, CloudIs
  <2> QED BY <2>2, <2>4, UsableOf DEF c
<1>2. Usable(default_handler(msg), msg)
  <2> DEFINE S == {i \in DOMAIN msg : ~Cropped(msg[i]) /\ ~msg[i].near}
             c == default_handler(msg)
  <2>1. c = [k \in DOMAIN InOrder(S) |-> [of |-> InOrder(S)[k], curvature |-> 0]]
    BY DEF default_handler, Cloud, Those
  <2>2. S \in SUBSET DOMAIN msg /\ \A i \in S : ~msg[i].near /\ ~Cropped(msg[i])
    OBVIOUS
  <2> HIDE DEF S, c
  <2>3. c = [k \in DOMAIN InOrder(S) |-> c[k]] /\ \A k \in DOMAIN InOrder(S) : c[k].of = InOrder(S)[k]
    BY <2>1
  <2>4. IsCloudOf(c, S)
    BY <2>2, <2>3, CloudIs
  <2> QED BY <2>2, <2>4, UsableOf DEF c
<1> QED BY <1>1, <1>2

\* The spinning lidars, with times in the message and without.
LEMMA SpinningKeep ==
  ASSUME NEW msg \in PointClouds, NEW filter, NEW given \in BOOLEAN
  PROVE  /\ Usable(velodyne_handler(msg, filter, given), msg)
         /\ given \/ Timed(velodyne_handler(msg, filter, given), msg)
         /\ Usable(mid360_handler(msg), msg) /\ Timed(mid360_handler(msg), msg)
<1>0. msg \in Seq(PrePoint) /\ DOMAIN msg = 1..Len(msg)
  BY CloudTypes, MessageTypes
<1>1. /\ Usable(velodyne_handler(msg, filter, given), msg)
      /\ given \/ Timed(velodyne_handler(msg, filter, given), msg)
  <2> DEFINE Used(i) == /\ ~Cropped(msg[i]) /\ (given \/ ~FirstOfLine(msg, i))
                        /\ (i - 1) % filter = 0 /\ ~msg[i].near
             Time(i) == IF given THEN msg[i].t * TimeScale ELSE SweepTimes(msg)[i]
             S == {i \in DOMAIN msg : Used(i)}
             c == velodyne_handler(msg, filter, given)
  <2>1. c = [k \in DOMAIN InOrder(S) |-> [of |-> InOrder(S)[k], curvature |-> Time(InOrder(S)[k])]]
    BY DEF velodyne_handler, Cloud, Those
  <2>2. S \in SUBSET DOMAIN msg /\ \A i \in S : ~msg[i].near /\ ~Cropped(msg[i])
    OBVIOUS
  <2> HIDE DEF S, c, Time
  <2>3. /\ c = [k \in DOMAIN InOrder(S) |-> c[k]]
        /\ \A k \in DOMAIN InOrder(S) : c[k].of = InOrder(S)[k] /\ c[k].curvature = Time(c[k].of)
    BY <2>1
  <2>4. IsCloudOf(c, S)
    BY <1>0, <2>2, <2>3, CloudIs
  <2>5. Usable(c, msg)
    BY <2>2, <2>4, UsableOf
  <2>6. ASSUME ~given PROVE Timed(c, msg)
    <3> SUFFICES ASSUME NEW k \in DOMAIN c
                 PROVE  \/ Swept(msg)[c[k].of] >= SweepSteps
                        \/ c[k].curvature = Swept(msg)[c[k].of]
      BY DEF Timed
    <3>1. k \in DOMAIN InOrder(S)
      BY <2>3
    <3>2. c[k].curvature = SweepTimes(msg)[c[k].of]
      BY <3>1, <2>3, <2>6 DEF Time
    <3>3. c[k].of \in 1..Len(msg)
      BY <2>5, <1>0 DEF Usable
    <3> QED BY <3>2, <3>3, TimesOfTheSweep
  <2> QED BY <2>5, <2>6 DEF c
<1>2. Usable(mid360_handler(msg), msg) /\ Timed(mid360_handler(msg), msg)
  <2> DEFINE S == {i \in DOMAIN msg : ~Cropped(msg[i]) /\ ~FirstOfLine(msg, i) /\ ~msg[i].near}
             c == mid360_handler(msg)
  <2>1. c = [k \in DOMAIN InOrder(S) |->
               [of |-> InOrder(S)[k], curvature |-> SweepTimes(msg)[InOrder(S)[k]]]]
    BY DEF mid360_handler, Cloud, Those
  <2>2. S \in SUBSET DOMAIN msg /\ \A i \in S : ~msg[i].near /\ ~Cropped(msg[i])
    OBVIOUS
  <2> HIDE DEF S, c
  <2>3. /\ c = [k \in DOMAIN InOrder(S) |-> c[k]]
        /\ \A k \in DOMAIN InOrder(S) :
             c[k].of = InOrder(S)[k] /\ c[k].curvature = SweepTimes(msg)[c[k].of]
    BY <2>1
  <2>4. IsCloudOf(c, S)
    BY <1>0, <2>2, <2>3, CloudIs
  <2>5. Usable(c, msg)
    BY <2>2, <2>4, UsableOf
  <2>6. Timed(c, msg)
    <3> SUFFICES ASSUME NEW k \in DOMAIN c
                 PROVE  \/ Swept(msg)[c[k].of] >= SweepSteps
                        \/ c[k].curvature = Swept(msg)[c[k].of]
      BY DEF Timed
    <3>1. c[k].curvature = SweepTimes(msg)[c[k].of]
      BY <2>3
    <3>2. c[k].of \in 1..Len(msg)
      BY <2>5, <1>0 DEF Usable
    <3> QED BY <3>1, <3>2, TimesOfTheSweep
  <2> QED BY <2>5, <2>6 DEF c
<1> QED BY <1>1, <1>2

\* A laser line for give_feature.
LineOf(c, msg, j) ==
    /\ Len(c) \in Nat /\ DOMAIN c = 1..Len(c)
    /\ \A k \in DOMAIN c : msg[c[k].of].line = j /\ ~msg[c[k].of].body
    /\ \A k \in 1..(Len(c) - 1) : c[k].of < c[k + 1].of

\* Its points are in the order of the times of the sweep.
LineTimed(c, msg) ==
    \A k \in 1..(Len(c) - 1) : \/ Swept(msg)[c[k + 1].of] >= SweepSteps
                               \/ c[k].curvature <= c[k + 1].curvature

LEMMA LineIs ==
  ASSUME NEW msg \in Seq(PrePoint), NEW j, NEW S \in SUBSET DOMAIN msg,
         \A i \in S : msg[i].line = j /\ ~Cropped(msg[i]),
         NEW c, c = [k \in DOMAIN InOrder(S) |-> c[k]],
         \A k \in DOMAIN InOrder(S) : c[k].of = InOrder(S)[k]
  PROVE  LineOf(c, msg, j) /\ IsCloudOf(c, S)
<1>1. IsCloudOf(c, S)
  BY CloudIs
<1> QED BY <1>1 DEF LineOf, IsCloudOf, Cropped

LEMMA GivenLines ==
  ASSUME NEW line, NEW least
  PROVE  /\ DOMAIN Given(line, least) \subseteq Lines
         /\ \A j \in DOMAIN Given(line, least) :
              Given(line, least)[j] = line[j] /\ Len(line[j]) >= least
BY DEF Given

LEMMA AviaLines ==
  ASSUME NEW msg \in Seq(PrePoint)
  PROVE  \A j \in DOMAIN avia_lines(msg) :
           LineOf(avia_lines(msg)[j], msg, j) /\ Len(avia_lines(msg)[j]) >= 2
<1> DEFINE Valid(i) == i > 1 /\ msg[i].line < N_SCANS /\ msg[i].tag /\ ~Cropped(msg[i])
           Full(i)  == IF Valid(i) THEN msg[i].place ELSE 0
           Used(i)  == Valid(i) /\ Full(i) # Full(i - 1)
           line     == [j \in Lines |-> Cloud(msg, Those(msg, LAMBDA i : Used(i) /\ msg[i].line = j),
                                              LAMBDA i : msg[i].t * TimeScale)]
<1>1. avia_lines(msg) = Given(line, 6)
  BY DEF avia_lines
<1>2. ASSUME NEW j \in Lines PROVE LineOf(line[j], msg, j)
  <2> DEFINE S == {i \in DOMAIN msg : Used(i) /\ msg[i].line = j}
             c == line[j]
  <2>1. c = [k \in DOMAIN InOrder(S) |->
               [of |-> InOrder(S)[k], curvature |-> msg[InOrder(S)[k]].t * TimeScale]]
    BY DEF Cloud, Those
  <2>2. S \in SUBSET DOMAIN msg /\ \A i \in S : msg[i].line = j /\ ~Cropped(msg[i])
    OBVIOUS
  <2> HIDE DEF S, c
  <2>3. c = [k \in DOMAIN InOrder(S) |-> c[k]] /\ \A k \in DOMAIN InOrder(S) : c[k].of = InOrder(S)[k]
    BY <2>1
  <2> QED BY <2>2, <2>3, LineIs DEF c
<1> HIDE DEF line
<1>3. ASSUME NEW j \in DOMAIN Given(line, 6)
      PROVE  LineOf(Given(line, 6)[j], msg, j) /\ Len(Given(line, 6)[j]) >= 2
  <2>1. j \in Lines /\ Given(line, 6)[j] = line[j] /\ Len(line[j]) >= 6
    BY GivenLines
  <2>2. LineOf(line[j], msg, j)
    BY <1>2, <2>1
  <2>3. Len(line[j]) \in Nat
    BY <2>2 DEF LineOf
  <2>4. Len(line[j]) >= 2
    BY <2>1, <2>3
  <2> QED BY <2>1, <2>2, <2>4
<1> QED BY <1>1, <1>3

LEMMA Oust64Lines ==
  ASSUME NEW msg \in Seq(PrePoint)
  PROVE  \A j \in DOMAIN oust64_lines(msg) : LineOf(oust64_lines(msg)[j], msg, j)
<1> DEFINE Used(i) == ~Cropped(msg[i]) /\ ~msg[i].near
           line    == [j \in Lines |-> Cloud(msg, Those(msg, LAMBDA i : Used(i) /\ msg[i].line = j),
                                             LAMBDA i : msg[i].t * TimeScale)]
<1>1. oust64_lines(msg) = line
  BY DEF oust64_lines
<1>2. ASSUME NEW j \in Lines PROVE LineOf(line[j], msg, j)
  <2> DEFINE S == {i \in DOMAIN msg : Used(i) /\ msg[i].line = j}
             c == line[j]
  <2>1. c = [k \in DOMAIN InOrder(S) |->
               [of |-> InOrder(S)[k], curvature |-> msg[InOrder(S)[k]].t * TimeScale]]
    BY DEF Cloud, Those
  <2>2. S \in SUBSET DOMAIN msg /\ \A i \in S : msg[i].line = j /\ ~Cropped(msg[i])
    OBVIOUS
  <2> HIDE DEF S, c
  <2>3. c = [k \in DOMAIN InOrder(S) |-> c[k]] /\ \A k \in DOMAIN InOrder(S) : c[k].of = InOrder(S)[k]
    BY <2>1
  <2> QED BY <2>2, <2>3, LineIs DEF c
<1>3. DOMAIN line = Lines
  OBVIOUS
<1> HIDE DEF line
<1> QED BY <1>1, <1>2, <1>3

LEMMA VelodyneLines ==
  ASSUME NEW msg \in PointClouds, NEW given \in BOOLEAN
  PROVE  \A j \in DOMAIN velodyne_lines(msg, given) :
           /\ LineOf(velodyne_lines(msg, given)[j], msg, j)
           /\ Len(velodyne_lines(msg, given)[j]) >= 2
           /\ given \/ LineTimed(velodyne_lines(msg, given)[j], msg)
<1> DEFINE Used(i) == ~Cropped(msg[i]) /\ (given \/ ~FirstOfLine(msg, i))
           Time(i) == IF given THEN msg[i].t * TimeScale ELSE SweepTimes(msg)[i]
           line    == [j \in Lines |-> Cloud(msg, Those(msg, LAMBDA i : Used(i) /\ msg[i].line = j),
                                             LAMBDA i : Time(i))]
<1>0. msg \in Seq(PrePoint) /\ Len(msg) \in Nat /\ DOMAIN msg = 1..Len(msg)
  BY CloudTypes, MessageTypes
<1>1. velodyne_lines(msg, given) = Given(line, 2)
  BY DEF velodyne_lines
<1>2. ASSUME NEW j \in Lines
      PROVE  LineOf(line[j], msg, j) /\ (given \/ LineTimed(line[j], msg))
  <2> DEFINE S == {i \in DOMAIN msg : Used(i) /\ msg[i].line = j}
             c == line[j]
  <2>1. c = [k \in DOMAIN InOrder(S) |-> [of |-> InOrder(S)[k], curvature |-> Time(InOrder(S)[k])]]
    BY DEF Cloud, Those
  <2>2. S \in SUBSET DOMAIN msg /\ \A i \in S : msg[i].line = j /\ ~Cropped(msg[i])
    OBVIOUS
  <2> HIDE DEF S, c, Time
  <2>3. /\ c = [k \in DOMAIN InOrder(S) |-> c[k]]
        /\ \A k \in DOMAIN InOrder(S) : c[k].of = InOrder(S)[k] /\ c[k].curvature = Time(c[k].of)
    BY <2>1
  <2>4. LineOf(c, msg, j) /\ IsCloudOf(c, S)
    BY <1>0, <2>2, <2>3, LineIs
  <2>5. ASSUME ~given PROVE LineTimed(c, msg)
    <3> SUFFICES ASSUME NEW k \in 1..(Len(c) - 1)
                 PROVE  \/ Swept(msg)[c[k + 1].of] >= SweepSteps
                        \/ c[k].curvature <= c[k + 1].curvature
      BY DEF LineTimed
    <3> DEFINE a == c[k].of
               b == c[k + 1].of
    <3>1. k \in DOMAIN c /\ k + 1 \in DOMAIN c /\ k \in 1..Len(c) /\ k + 1 \in 1..Len(c)
      BY <2>4 DEF LineOf
    <3>2. c[k].curvature = SweepTimes(msg)[a] /\ c[k + 1].curvature = SweepTimes(msg)[b]
      BY <3>1, <2>3, <2>5 DEF Time
    <3>3. a \in S /\ b \in S /\ a < b
      BY <3>1, <2>4 DEF IsCloudOf
    <3> HIDE DEF a, b
    <3>4. a \in 1..(b - 1) /\ b \in 1..Len(msg) /\ msg[a].line = msg[b].line /\ ~Cropped(msg[a])
      BY <3>3, <2>2, <1>0
    <3>5. a \in EarlierOfLine(msg, b)
      BY <3>4 DEF EarlierOfLine
    <3>6. Swept(msg)[b] >= SweepSteps \/ SweepTimes(msg)[a] <= SweepTimes(msg)[b]
      BY <3>4, <3>5, TimesOfTheSweep
    <3> QED BY <3>2, <3>6 DEF b
  <2> QED BY <2>4, <2>5 DEF c
<1> HIDE DEF line
<1>3. ASSUME NEW j \in DOMAIN Given(line, 2)
      PROVE  /\ LineOf(Given(line, 2)[j], msg, j) /\ Len(Given(line, 2)[j]) >= 2
             /\ given \/ LineTimed(Given(line, 2)[j], msg)
  <2>1. j \in Lines /\ Given(line, 2)[j] = line[j] /\ Len(line[j]) >= 2
    BY GivenLines
  <2>2. LineOf(line[j], msg, j) /\ (given \/ LineTimed(line[j], msg))
    BY <1>2, <2>1
  <2> QED BY <2>1, <2>2
<1> QED BY <1>1, <1>3

\* What the handlers make of a message.
CloudInv ==
    /\ ~outside => Usable(pl_surf, taken.msg)
    /\ ~outside /\ taken.type = "AVIA" => NoRepeats(pl_surf, taken.msg)
    /\ ~outside /\ taken.type \in {"VELO16", "MID360"} =>
         given_offset_time \/ Timed(pl_surf, taken.msg)
    /\ \A j \in DOMAIN pl_buff :
         /\ LineOf(pl_buff[j], taken.msg, j)
         /\ taken.type # "OUST64" => Len(pl_buff[j]) >= 2
         /\ taken.type = "VELO16" => given_offset_time \/ LineTimed(pl_buff[j], taken.msg)

LEMMA CloudInvSuffices == CloudInv => CloudsAreUsable
<1> SUFFICES ASSUME CloudInv PROVE CloudsAreUsable
  OBVIOUS
<1>1. outside \/ TimesFollowTheSweep
  BY DEF CloudInv, TimesFollowTheSweep, Timed
<1>2. outside \/ KeptPointsAreUsable
  BY DEF CloudInv, KeptPointsAreUsable, Usable, NoRepeats
<1>3. LinesCanBeMeasured
  BY DEF CloudInv, LinesCanBeMeasured, LineOf, LineTimed
<1> QED BY <1>1, <1>2, <1>3 DEF CloudsAreUsable

LEMMA NothingUsed ==
  ASSUME NEW msg
  PROVE  Usable(<<>>, msg) /\ NoRepeats(<<>>, msg) /\ Timed(<<>>, msg)
BY DEF Usable, NoRepeats, Timed

LEMMA CustomKeeps ==
  ASSUME NEW msg \in CustomClouds, NEW filter, NEW features \in BOOLEAN,
         process_custom(msg, filter, features)
  PROVE  CloudInv'
<1>1. msg \in Seq(PrePoint) /\ taken'.msg = msg /\ taken'.type = "AVIA"
  BY PreprocessAssumption DEF process_custom
<1>2. Usable(pl_surf', msg) /\ NoRepeats(pl_surf', msg)
  BY <1>1, AviaKeeps, NothingUsed DEF process_custom
<1>3. \A j \in DOMAIN pl_buff' : LineOf(pl_buff'[j], msg, j) /\ Len(pl_buff'[j]) >= 2
  <2>1. CASE features
    BY <1>1, <2>1, AviaLines DEF process_custom
  <2>2. CASE ~features
    BY <2>2 DEF process_custom
  <2> QED BY <2>1, <2>2
<1> QED BY <1>1, <1>2, <1>3 DEF CloudInv

LEMMA CloudKeeps ==
  ASSUME NEW msg \in PointClouds, NEW type \in LidarTypes, NEW filter, NEW features \in BOOLEAN,
         process_cloud(msg, type, filter, features)
  PROVE  CloudInv'
<1> DEFINE given == msg[Len(msg)].t > 0
<1>1. msg \in Seq(PrePoint) /\ taken'.msg = msg /\ taken'.type = type
  BY CloudTypes DEF process_cloud
<1>2. msg # <<>> => given_offset_time' = CASE type = "VELO16" -> given
                                            [] type = "MID360" -> FALSE
                                            [] OTHER -> given_offset_time
  BY DEF process_cloud
<1>3. ~outside' =>
        pl_surf' = IF msg = <<>> \/ (features /\ type \in {"OUST64", "VELO16"}) THEN <<>>
                   ELSE CASE type = "OUST64" -> oust64_handler(msg, filter)
                          [] type = "VELO16" -> velodyne_handler(msg, filter, given)
                          [] type = "MID360" -> mid360_handler(msg)
                          [] OTHER -> default_handler(msg)
  BY DEF process_cloud
<1>4. pl_buff' = CASE features /\ type = "OUST64" -> oust64_lines(msg)
                   [] features /\ type = "VELO16" /\ msg # <<>> -> velodyne_lines(msg, given)
                   [] OTHER -> <<>>
  BY DEF process_cloud
<1>5. given \in BOOLEAN
  OBVIOUS
<1> HIDE DEF given
<1>6. ASSUME ~outside'
      PROVE  /\ Usable(pl_surf', msg)
             /\ type \in {"VELO16", "MID360"} => given_offset_time' \/ Timed(pl_surf', msg)
  <2>1. CASE msg = <<>> \/ (features /\ type \in {"OUST64", "VELO16"})
    BY <2>1, <1>3, NothingUsed, <1>6
  <2>2. CASE ~(msg = <<>> \/ (features /\ type \in {"OUST64", "VELO16"}))
    <3>1. CASE type = "OUST64"
      BY <2>2, <3>1, <1>1, <1>3, OthersKeep, <1>6
    <3>2. CASE type = "VELO16"
      <4>1. pl_surf' = velodyne_handler(msg, filter, given) /\ given_offset_time' = given
        BY <2>2, <3>2, <1>2, <1>3, <1>6
      <4> QED BY <4>1, <1>5, SpinningKeep
    <3>3. CASE type = "MID360"
      <4>1. pl_surf' = mid360_handler(msg)
        BY <2>2, <3>3, <1>3, <1>6
      <4> QED BY <4>1, <1>5, SpinningKeep
    <3>4. CASE type \notin {"OUST64", "VELO16", "MID360"}
      BY <2>2, <3>4, <1>1, <1>3, OthersKeep, <1>6
    <3> QED BY <3>1, <3>2, <3>3, <3>4
  <2> QED BY <2>1, <2>2
<1>7. ASSUME NEW j \in DOMAIN pl_buff'
      PROVE  /\ LineOf(pl_buff'[j], msg, j)
             /\ type # "OUST64" => Len(pl_buff'[j]) >= 2
             /\ type = "VELO16" => given_offset_time' \/ LineTimed(pl_buff'[j], msg)
  <2>1. CASE features /\ type = "OUST64"
    <3>1. pl_buff' = oust64_lines(msg)
      BY <2>1, <1>4
    <3> QED BY <2>1, <3>1, <1>1, Oust64Lines
  <2>2. CASE features /\ type = "VELO16" /\ msg # <<>>
    <3>1. pl_buff' = velodyne_lines(msg, given) /\ given_offset_time' = given
      BY <2>2, <1>2, <1>4
    <3> QED BY <3>1, <1>5, VelodyneLines
  <2>3. CASE ~(features /\ type = "OUST64") /\ ~(features /\ type = "VELO16" /\ msg # <<>>)
    <3>1. pl_buff' = <<>>
      BY <2>3, <1>4
    <3> QED BY <3>1
  <2> QED BY <2>1, <2>2, <2>3
<1>8. type = "AVIA" => NoRepeats(pl_surf', msg)
  BY PreprocessAssumption
<1> QED BY <1>1, <1>6, <1>7, <1>8 DEF CloudInv

LEMMA CloudInvStep == CloudInv /\ [PreNext]_preVars => CloudInv'
<1> SUFFICES ASSUME CloudInv, [PreNext]_preVars PROVE CloudInv'
  OBVIOUS
<1>1. CASE PreNext
  <2>1. PICK filter \in Filters, features \in BOOLEAN :
          \/ \E msg \in CustomClouds : process_custom(msg, filter, features)
          \/ \E msg \in PointClouds, type \in LidarTypes :
               process_cloud(msg, type, filter, features)
    BY <1>1 DEF PreNext
  <2> QED BY <2>1, CustomKeeps, CloudKeeps
<1>2. CASE UNCHANGED preVars
  BY <1>2 DEF CloudInv, preVars
<1> QED BY <1>1, <1>2

\* What the handlers make of a message can be registered (CloudsAreUsable), unless
\* its points have led them outside their vectors of N_SCANS entries: the kept
\* points are usable and keep their order, the times of a message without times
\* are the angle swept within the first turn, through the jump of the direction,
\* and the lines given to give_feature can be measured.
THEOREM CloudsCorrect == PreSpec => []CloudsAreUsable
<1>1. PreInit => CloudInv
  <2> SUFFICES ASSUME PreInit PROVE CloudInv
    OBVIOUS
  <2>1. pl_surf = <<>> /\ DOMAIN pl_buff = {} /\ taken.type = "none"
    BY DEF PreInit
  <2> QED BY <2>1, NothingUsed DEF CloudInv
<1> QED BY <1>1, CloudInvStep, CloudInvSuffices, PTL DEF PreSpec

-----------------------------------------------------------------------------
(* The features of a scan.                                                   *)

Labels == {"Nor", "Poss_Plane", "Real_Plane", "Edge_Plane", "Edge_Jump", "Wire"}

FeatTypes ==
    /\ plsize \in Nat \ {0} /\ blindAt \subseteq 0..(plsize - 1)
    /\ head \in 0..(plsize - 1)
    /\ ftype \in [0..(plsize - 1) -> Labels]
    /\ pass \in {"surf", "edge", "small", "take", "done"}
    /\ at \in Nat /\ last_surface \in Int
    /\ surf \in Seq(SUBSET Int)

\* The position before which every surface point has been dealt with.
Front == IF last_surface = -1 THEN at ELSE last_surface

\* i is in a run, or passed over by a full run that ends shortly after it.
Covered(i) ==
    \E m \in DOMAIN surf : \E j \in surf[m] : i <= j /\ j < i + point_filter_num

\* The pass that takes the surface points has an open run from last_surface to
\* at, shorter than point_filter_num, and has dealt with all points before it.
TakeInv ==
    /\ at \in head..plsize
    /\ last_surface # -1 =>
         /\ last_surface \in head..(at - 1) /\ at <= last_surface + point_filter_num - 1
         /\ \A j \in last_surface..(at - 1) : ftype[j] \in Planes
    /\ \A i \in corn : ftype[i] \notin Planes
    /\ \A m \in DOMAIN surf : \A i \in surf[m] : i < Front
    /\ \A i \in head..(Front - 1) : ftype[i] \in Planes => Covered(i)

FeatInv ==
    /\ FeatTypes /\ NoBlindFeature /\ SurfaceRunsAreDisjoint
    /\ pass \in {"surf", "edge", "small"} => surf = <<>> /\ last_surface = -1 /\ corn = {}
    /\ pass \in {"take", "done"} => TakeInv
    /\ pass = "done" => at = plsize

LEMMA FeatInitInv == FeatInit => FeatInv
<1> SUFFICES ASSUME FeatInit PROVE FeatInv
  OBVIOUS
<1> DEFINE S == (0..(plsize - 1)) \ blindAt
<1>1. plsize \in Nat \ {0} /\ blindAt \subseteq 0..(plsize - 1) /\ S # {} /\ S \in SUBSET Nat
  BY FeatureAssumption DEF FeatInit
<1>2. \E h \in S : \A k \in S : h <= k
  BY <1>1, LeastExists
<1>3. head = CHOOSE h \in S : \A k \in S : h <= k
  BY DEF FeatInit
<1>4. head \in S
  BY <1>2, <1>3
<1>5. FeatTypes
  BY <1>1, <1>4 DEF FeatInit, FeatTypes, Labels
<1>6. NoBlindFeature /\ SurfaceRunsAreDisjoint
  BY <1>1 DEF FeatInit, NoBlindFeature, SurfaceRunsAreDisjoint
<1> QED BY <1>5, <1>6 DEF FeatInv, FeatInit

\* The first three passes change labels only, and of no blind point.
LEMMA LabelPassInv ==
  ASSUME FeatInv,
         \/ \E result \in 0..2, i_nex \in 0..plsize, corner \in BOOLEAN :
              SurfStep(result, i_nex, corner)
         \/ Skip
         \/ \E label \in Labels : EdgeStep(label)
         \/ \E flat \in BOOLEAN : SmallStep(flat)
  PROVE  FeatInv'
<1> SUFFICES ASSUME /\ pass \in {"surf", "edge", "small"}
                    /\ UNCHANGED <<lineVars, pass, last_surface, surf, corn>>
                    /\ at' \in Nat
                    /\ ftype' \in [0..(plsize - 1) -> Labels]
                    /\ NoBlindFeature'
             PROVE  FeatInv'
  <2>t. FeatTypes /\ NoBlindFeature
    BY DEF FeatInv
  <2>1. ASSUME NEW result \in 0..2, NEW i_nex \in 0..plsize, NEW corner \in BOOLEAN,
               SurfStep(result, i_nex, corner)
        PROVE  at' \in Nat /\ ftype' \in [0..(plsize - 1) -> Labels] /\ NoBlindFeature'
    <3>1. CASE result = 1
      <4>1. i_nex \in Nat /\ \A b \in blindAt : ~(at <= b /\ b <= i_nex)
        BY <2>1, <3>1 DEF SurfStep, plane_judge
      <4>2. ftype' = [j \in DOMAIN ftype |->
                 CASE j = at /\ last_state = 1 -> IF corner THEN "Edge_Plane" ELSE "Real_Plane"
                   [] j = at \/ j = i_nex -> "Poss_Plane"
                   [] at < j /\ j < i_nex -> "Real_Plane"
                   [] OTHER -> ftype[j]]
            /\ at' = i_nex
        BY <2>1, <3>1 DEF SurfStep
      <4>3. ftype' \in [0..(plsize - 1) -> Labels]
        BY <4>2, <2>t DEF FeatTypes, Labels
      <4>4. at <= i_nex
        BY <2>1, <3>1, <2>t, FeatureAssumption DEF SurfStep, plane_judge, FeatTypes
      <4>5. \A b \in blindAt : b \in DOMAIN ftype /\ b # at /\ b # i_nex /\ ~(at < b /\ b < i_nex)
        BY <4>1, <4>4, <2>t DEF FeatTypes
      <4>6. \A b \in blindAt : ftype'[b] = ftype[b]
        BY <4>2, <4>5
      <4>7. blindAt' = blindAt
        BY <2>1 DEF SurfStep, lineVars
      <4> QED BY <4>1, <4>2, <4>3, <4>6, <4>7, <2>t DEF NoBlindFeature
    <3>2. CASE result # 1
      BY <2>1, <3>2, <2>t DEF SurfStep, FeatTypes, NoBlindFeature, lineVars
    <3> QED BY <3>1, <3>2
  <2>2. CASE Skip
    BY <2>2, <2>t DEF Skip, FeatTypes, NoBlindFeature, lineVars
  <2>3. ASSUME NEW label \in Labels, EdgeStep(label)
        PROVE  at' \in Nat /\ ftype' \in [0..(plsize - 1) -> Labels] /\ NoBlindFeature'
    <3>1. /\ ftype' = [ftype EXCEPT ![at] = label] /\ at' = at + 1
          /\ label = ftype[at] \/ at \notin blindAt
          /\ UNCHANGED blindAt
      BY <2>3 DEF EdgeStep, lineVars
    <3>2. at' \in Nat /\ ftype' \in [0..(plsize - 1) -> Labels]
      <4>1. label \in Labels /\ at \in Nat /\ ftype \in [0..(plsize - 1) -> Labels]
        BY <2>3, <2>t DEF FeatTypes
      <4>2. at' \in Nat
        BY <3>1, <4>1
      <4>3. ftype' = [ftype EXCEPT ![at] = label]
        BY <3>1
      <4>4. ftype' \in [0..(plsize - 1) -> Labels]
        BY <4>1, <4>3
      <4> QED BY <4>2, <4>4
    <3>3. \A b \in blindAt : b \in DOMAIN ftype /\ ftype'[b] = ftype[b]
      BY <3>1, <2>t DEF FeatTypes
    <3>4. NoBlindFeature'
      <4>1. blindAt' = blindAt
        BY <3>1
      <4> QED BY <4>1, <3>3, <2>t DEF NoBlindFeature
    <3> QED BY <3>2, <3>4
  <2>4. ASSUME NEW flat \in BOOLEAN, SmallStep(flat)
        PROVE  at' \in Nat /\ ftype' \in [0..(plsize - 1) -> Labels] /\ NoBlindFeature'
    <3>1. UNCHANGED blindAt /\ at' = at + 1
      BY <2>4 DEF SmallStep, lineVars
    <3>2. CASE ftype' = ftype
      BY <3>1, <3>2, <2>t DEF FeatTypes, NoBlindFeature
    <3>3. CASE /\ {at - 1, at, at + 1} \cap blindAt = {}
               /\ ftype' = [j \in DOMAIN ftype |->
                        IF j = at \/ (j \in {at - 1, at + 1} /\ ftype[j] = "Nor")
                        THEN "Real_Plane" ELSE ftype[j]]
      BY <3>1, <3>3, <2>t DEF FeatTypes, NoBlindFeature, Labels
    <3> QED BY <2>4, <3>2, <3>3 DEF SmallStep
  <2> QED BY <2>1, <2>2, <2>3, <2>4 DEF SurfStep, Skip, EdgeStep, SmallStep
<1>1. surf' = <<>> /\ last_surface' = -1 /\ corn' = {}
  BY DEF FeatInv
<1>2. FeatTypes'
  BY <1>1 DEF FeatInv, FeatTypes, lineVars
<1> QED BY <1>1, <1>2 DEF FeatInv, SurfaceRunsAreDisjoint

\* A step of the pass that takes the surface points preserves the invariant.
LEMMA TakeInvStep ==
  ASSUME FeatInv, TakeStep
  PROVE  FeatInv'
<1>t. FeatTypes /\ NoBlindFeature /\ SurfaceRunsAreDisjoint /\ TakeInv /\ pass = "take"
      /\ at < plsize /\ at \in Nat /\ head \in Nat /\ point_filter_num \in Nat \ {0}
      /\ plsize \in Nat /\ last_surface \in Int
  BY FeatureAssumption DEF FeatInv, TakeStep, FeatTypes
<1>u. UNCHANGED <<plsize, blindAt, head, ftype, pass>> /\ at' = at + 1
  BY DEF TakeStep, lineVars
<1>s. surf \in Seq(SUBSET Int) /\ Len(surf) \in Nat /\ DOMAIN surf = 1..Len(surf)
  BY <1>t, LenProperties DEF FeatTypes
\* The runs after one more run R is appended.
<1>a. ASSUME NEW R \in SUBSET Int, surf' = Append(surf, R)
      PROVE  /\ surf' \in Seq(SUBSET Int)
             /\ DOMAIN surf' = 1..(Len(surf) + 1)
             /\ \A m \in DOMAIN surf : surf'[m] = surf[m] /\ m \in DOMAIN surf'
             /\ surf'[Len(surf) + 1] = R
             /\ \A m \in DOMAIN surf' : m \in DOMAIN surf \/ m = Len(surf) + 1
  <2>1. /\ surf' \in Seq(SUBSET Int) /\ Len(surf') = Len(surf) + 1
        /\ \A m \in 1..Len(surf) : surf'[m] = surf[m] /\ surf'[Len(surf) + 1] = R
        /\ surf'[Len(surf) + 1] = R
    BY <1>a, <1>s, AppendProperties
  <2>2. DOMAIN surf' = 1..(Len(surf) + 1)
    BY <2>1, LenProperties
  <2> QED BY <2>1, <2>2, <1>s
\* Appending a run of surface points at or after the front.
<1>b. ASSUME NEW R \in SUBSET Int, surf' = Append(surf, R), corn' = corn,
             R # {}, Cardinality(R) <= point_filter_num,
             \A i \in R : Front <= i /\ i <= at /\ ftype[i] \in Planes
      PROVE  SurfaceRunsAreDisjoint' /\ \A m \in DOMAIN surf' : \A i \in surf'[m] : i < at + 1
  <2>1. \A m \in DOMAIN surf : \A i \in surf[m] : i \in Int /\ i < Front
    BY <1>s, <1>t, ElementOfSeq DEF TakeInv
  <2>f. Front \in Int /\ Front <= at
    BY <1>t DEF Front, TakeInv
  <2>2. \A m, n \in DOMAIN surf' : m < n => \A i \in surf'[m], j \in surf'[n] : i < j
    <3> SUFFICES ASSUME NEW m \in DOMAIN surf', NEW n \in DOMAIN surf', m < n,
                        NEW i \in surf'[m], NEW j \in surf'[n]
                 PROVE  i < j
      OBVIOUS
    <3>1. m \in DOMAIN surf /\ i \in surf[m]
      BY <1>a, <1>b, <1>s
    <3>2. CASE n \in DOMAIN surf
      <4>1. j \in surf[n]
        BY <3>2, <1>a, <1>b
      <4> QED BY <3>1, <3>2, <4>1, <1>t DEF SurfaceRunsAreDisjoint
    <3>3. CASE n = Len(surf) + 1
      <4>1. j \in R
        BY <3>3, <1>a, <1>b
      <4>2. Front <= j /\ j \in Int /\ i < Front /\ i \in Int
        BY <3>1, <4>1, <2>1, <1>b
      <4> QED BY <4>2, <2>f
    <3> QED BY <3>2, <3>3, <1>a, <1>b
  <2>3. ASSUME NEW m \in DOMAIN surf'
        PROVE  /\ surf'[m] # {} /\ Cardinality(surf'[m]) <= point_filter_num
               /\ \A i \in surf'[m] : ftype'[i] \in Planes /\ i \notin corn' /\ i < at + 1
    <3>1. CASE m \in DOMAIN surf
      BY <3>1, <2>1, <2>f, <1>a, <1>b, <1>t, <1>u DEF SurfaceRunsAreDisjoint
    <3>2. CASE m = Len(surf) + 1
      <4>1. surf'[m] = R
        BY <3>2, <1>a, <1>b
      <4>2. \A i \in R : ftype'[i] \in Planes /\ i \notin corn' /\ i < at + 1
        BY <1>b, <1>t, <1>u DEF TakeInv
      <4> QED BY <4>1, <4>2, <1>b
    <3> QED BY <3>1, <3>2, <1>a, <1>b
  <2> QED BY <2>2, <2>3 DEF SurfaceRunsAreDisjoint
<1>c. ASSUME NEW R \in SUBSET Int, surf' = Append(surf, R), NEW i \in Int, Covered(i)
      PROVE  Covered(i)'
  BY <1>a, <1>c DEF Covered
<1>1. CASE ftype[at] \in Planes /\ at = Front + point_filter_num - 1
  <2>1. surf' = Append(surf, {at}) /\ last_surface' = -1 /\ corn' = corn
    BY <1>1, <1>t DEF TakeStep, Front
  <2>2. Cardinality({at}) <= point_filter_num
    BY <1>t, FS_Singleton
  <2>3. Front <= at /\ Front \in Int /\ head <= Front
    BY <1>t DEF Front, TakeInv
  <2>4. {at} \in SUBSET Int
    BY <1>t
  <2>5. SurfaceRunsAreDisjoint' /\ \A m \in DOMAIN surf' : \A i \in surf'[m] : i < at + 1
    <3> DEFINE R == {at}
    <3>1. /\ R # {} /\ Cardinality(R) <= point_filter_num
          /\ \A i \in R : Front <= i /\ i <= at /\ ftype[i] \in Planes
          /\ R \in SUBSET Int /\ surf' = Append(surf, R) /\ corn' = corn
      BY <2>1, <2>4, <2>2, <2>3, <1>1, <1>t
    <3> HIDE DEF R
    <3> QED BY <3>1, <1>b
  <2>6. Front' = at + 1
    BY <2>1, <1>u DEF Front
  <2>7. ASSUME NEW i \in head..at, ftype[i] \in Planes PROVE Covered(i)'
    <3>1. CASE i < Front
      <4>1. i \in head..(Front - 1) /\ i \in Int
        BY <3>1, <2>3, <1>t
      <4>2. Covered(i)
        BY <4>1, <2>7, <1>t DEF TakeInv
      <4> QED BY <4>1, <4>2, <2>1, <2>4, <1>c
    <3>2. CASE ~(i < Front)
      <4>1. i <= at /\ at < i + point_filter_num
        BY <3>2, <1>1, <1>t, <2>3
      <4>2. Len(surf) + 1 \in DOMAIN surf' /\ at \in surf'[Len(surf) + 1]
        BY <2>1, <2>4, <1>a, <1>s
      <4> QED BY <4>1, <4>2 DEF Covered
    <3> QED BY <3>1, <3>2
  <2>8. TakeInv'
    BY <2>1, <2>5, <2>6, <2>7, <1>t, <1>u DEF TakeInv
  <2>9. FeatTypes' /\ NoBlindFeature'
    BY <2>1, <2>4, <1>a, <1>t, <1>u DEF FeatTypes, NoBlindFeature
  <2> QED BY <2>5, <2>8, <2>9, <1>t, <1>u DEF FeatInv
<1>2. CASE ftype[at] \in Planes /\ at # Front + point_filter_num - 1
  <2>1. last_surface' = Front /\ surf' = surf /\ corn' = corn
    BY <1>2, <1>t DEF TakeStep, Front
  <2>2. /\ Front \in head..at /\ at + 1 <= Front + point_filter_num - 1 /\ Front # -1
        /\ \A j \in Front..at : ftype[j] \in Planes
    BY <1>2, <1>t DEF Front, TakeInv
  <2>3. Front' = Front
    BY <2>1, <2>2 DEF Front
  <2>4. \A i : Covered(i)' <=> Covered(i)
    BY <2>1 DEF Covered
  <2>5. TakeInv'
    BY <2>1, <2>2, <2>3, <2>4, <1>t, <1>u DEF TakeInv
  <2>6. FeatTypes' /\ NoBlindFeature' /\ SurfaceRunsAreDisjoint'
    BY <2>1, <2>2, <1>t, <1>u DEF FeatTypes, NoBlindFeature, SurfaceRunsAreDisjoint
  <2> QED BY <2>5, <2>6, <1>t, <1>u DEF FeatInv
<1>3. CASE ftype[at] \notin Planes
  <2>0. /\ corn' = corn \/ corn' = corn \union {at}
        /\ surf' = IF last_surface = -1 THEN surf ELSE Append(surf, last_surface..(at - 1))
        /\ last_surface' = -1
    BY <1>3 DEF TakeStep
  <2>c. \A i \in corn' : ftype'[i] \notin Planes
    BY <2>0, <1>3, <1>t, <1>u DEF TakeInv
  <2>f. Front' = at + 1
    BY <2>0, <1>u DEF Front
  <2>n. NoBlindFeature'
    BY <1>t, <1>u DEF NoBlindFeature
  <2>1. CASE last_surface = -1
    <3>1. surf' = surf /\ Front = at
      BY <2>0, <2>1 DEF Front
    <3>2. \A m \in DOMAIN surf : \A i \in surf[m] : i \in Int /\ i < at
      BY <3>1, <1>s, <1>t, ElementOfSeq DEF TakeInv
    <3>3. SurfaceRunsAreDisjoint'
      BY <3>1, <2>c, <1>t, <1>u DEF SurfaceRunsAreDisjoint
    <3>4. \A i \in head..at : ftype[i] \in Planes => Covered(i)'
      BY <3>1, <1>3, <1>t DEF TakeInv, Covered
    <3>5. TakeInv'
      BY <3>1, <3>2, <3>4, <2>0, <2>c, <2>f, <1>t, <1>u DEF TakeInv
    <3>6. FeatTypes'
      BY <3>1, <2>0, <1>t, <1>u DEF FeatTypes
    <3> QED BY <3>3, <3>5, <3>6, <2>n, <1>t, <1>u DEF FeatInv
  <2>2. CASE last_surface # -1
    <3> DEFINE R == last_surface..(at - 1)
    <3>1. surf' = Append(surf, R) /\ Front = last_surface
      BY <2>0, <2>2 DEF Front
    <3>2. /\ R \in SUBSET Int /\ R # {}
          /\ last_surface \in head..(at - 1) /\ at <= last_surface + point_filter_num - 1
          /\ \A j \in R : ftype[j] \in Planes
      BY <2>2, <1>t DEF TakeInv
    <3>3. Cardinality(R) <= point_filter_num
      <4>1. last_surface \in Int /\ at - 1 \in Int
        BY <1>t
      <4>2. Cardinality(R) = at - 1 - last_surface + 1
        BY <4>1, <3>2, FS_Interval
      <4> QED BY <4>2, <3>2, <1>t
    <3>p. \A m, n \in DOMAIN surf' : m < n => \A i \in surf'[m], j \in surf'[n] : i < j
      <4> SUFFICES ASSUME NEW m \in DOMAIN surf', NEW n \in DOMAIN surf', m < n,
                          NEW i \in surf'[m], NEW j \in surf'[n]
                   PROVE  i < j
        OBVIOUS
      <4>0. \A k \in DOMAIN surf : \A l \in surf[k] : l \in Int /\ l < last_surface
        BY <3>1, <1>s, <1>t, ElementOfSeq DEF TakeInv
      <4>1. m \in DOMAIN surf /\ i \in surf[m]
        BY <3>1, <3>2, <1>a, <1>s
      <4>2. CASE n \in DOMAIN surf
        BY <4>1, <4>2, <3>1, <3>2, <1>a, <1>t DEF SurfaceRunsAreDisjoint
      <4>3. CASE n = Len(surf) + 1
        BY <4>0, <4>1, <4>3, <3>1, <3>2, <1>a
      <4> QED BY <4>2, <4>3, <3>1, <3>2, <1>a
    <3>q. ASSUME NEW m \in DOMAIN surf'
          PROVE  /\ surf'[m] # {} /\ Cardinality(surf'[m]) <= point_filter_num
                 /\ \A i \in surf'[m] : ftype'[i] \in Planes /\ i < at + 1
      <4>1. CASE m \in DOMAIN surf
        <5>1. \A l \in surf[m] : l \in Int /\ l < last_surface
          BY <4>1, <3>1, <1>s, <1>t, ElementOfSeq DEF TakeInv
        <5> QED BY <5>1, <4>1, <3>1, <3>2, <1>a, <1>t, <1>u DEF SurfaceRunsAreDisjoint
      <4>2. CASE m = Len(surf) + 1
        BY <4>2, <3>1, <3>2, <3>3, <1>a, <1>t, <1>u
      <4> QED BY <4>1, <4>2, <3>1, <3>2, <1>a
    <3>4. SurfaceRunsAreDisjoint'
      BY <3>p, <3>q, <2>c DEF SurfaceRunsAreDisjoint
    <3>5. ASSUME NEW i \in head..at, ftype[i] \in Planes PROVE Covered(i)'
      <4>1. CASE i < last_surface
        BY <4>1, <3>1, <3>2, <3>5, <1>c, <1>t DEF TakeInv
      <4>2. CASE ~(i < last_surface)
        <5>1. i \in R
          BY <4>2, <3>2, <3>5, <1>3, <1>t
        <5>2. Len(surf) + 1 \in DOMAIN surf' /\ i \in surf'[Len(surf) + 1]
          BY <5>1, <3>1, <3>2, <1>a, <1>s
        <5> QED BY <5>2, <1>t DEF Covered
      <4> QED BY <4>1, <4>2
    <3>6. TakeInv'
      BY <3>5, <3>q, <2>0, <2>c, <2>f, <1>t, <1>u DEF TakeInv
    <3>7. FeatTypes'
      BY <3>1, <3>2, <2>0, <1>a, <1>t, <1>u DEF FeatTypes
    <3> QED BY <3>4, <3>6, <3>7, <2>n, <1>t, <1>u DEF FeatInv
  <2> QED BY <2>1, <2>2
<1> QED BY <1>1, <1>2, <1>3

LEMMA NextPassInv ==
  ASSUME FeatInv, NextPass
  PROVE  FeatInv'
<1>t. FeatTypes /\ NoBlindFeature /\ SurfaceRunsAreDisjoint
  BY DEF FeatInv
<1>u. UNCHANGED <<plsize, blindAt, head, ftype, last_surface, surf, corn>>
  BY DEF NextPass, lineVars
<1>1. at' \in Nat /\ pass' \in {"edge", "small", "take", "done"}
  BY <1>t DEF NextPass, FeatTypes
<1>2. FeatTypes' /\ NoBlindFeature' /\ SurfaceRunsAreDisjoint'
  BY <1>1, <1>t, <1>u DEF FeatTypes, NoBlindFeature, SurfaceRunsAreDisjoint
<1>3. CASE pass' \in {"edge", "small"}
  BY <1>2, <1>3, <1>u DEF FeatInv, NextPass
<1>4. CASE pass' = "take"
  <2>1. at' = head /\ surf = <<>> /\ last_surface = -1 /\ corn = {}
    BY <1>4 DEF NextPass, FeatInv
  <2>2. TakeInv'
    BY <2>1, <1>t, <1>u DEF TakeInv, FeatTypes, Front, Covered
  <2> QED BY <2>2, <1>2, <1>4 DEF FeatInv
<1>5. CASE pass' = "done"
  <2>1. at' = at /\ at >= plsize /\ pass = "take" /\ TakeInv
    BY <1>5 DEF NextPass, FeatInv
  <2>2. at = plsize
    BY <2>1, <1>t DEF TakeInv, FeatTypes
  <2>3. TakeInv'
    BY <2>1, <1>u DEF TakeInv, Front, Covered
  <2> QED BY <2>1, <2>2, <2>3, <1>2, <1>5, <1>u DEF FeatInv
<1> QED BY <1>1, <1>3, <1>4, <1>5

\* For every line of points and set of thresholds, give_feature labels no blind point
\* and leaves no flat stretch out between two groups.
THEOREM FeaturesCorrect == FeatSpec => []FeaturesAreSound
<1>1. FeatInv /\ [FeatNext]_featVars => FeatInv'
  <2> SUFFICES ASSUME FeatInv, [FeatNext]_featVars PROVE FeatInv'
    OBVIOUS
  <2>1. CASE FeatNext
    BY <2>1, LabelPassInv, TakeInvStep, NextPassInv DEF FeatNext, Labels
  <2>2. CASE UNCHANGED featVars
    BY <2>2 DEF featVars, lineVars, FeatInv, FeatTypes, NoBlindFeature, SurfaceRunsAreDisjoint,
       TakeInv, Front, Covered
  <2> QED BY <2>1, <2>2
<1>2. FeatInv => FeaturesAreSound
  <2> SUFFICES ASSUME FeatInv, pass = "done", NEW i \in head..(plsize - 1), ftype[i] \in Planes
               PROVE  \/ Covered(i)
                      \/ last_surface # -1 /\ last_surface <= i
    BY DEF FeatInv, FeaturesAreSound, NoSurfaceForgotten, Covered
  <2>1. TakeInv /\ at = plsize /\ FeatTypes
    BY DEF FeatInv
  <2>2. CASE i < Front
    BY <2>1, <2>2 DEF TakeInv, Front, FeatTypes
  <2>3. CASE ~(i < Front)
    BY <2>1, <2>3 DEF TakeInv, Front, FeatTypes
  <2> QED BY <2>2, <2>3
<1> QED BY FeatInitInv, <1>1, <1>2, PTL DEF FeatSpec

-----------------------------------------------------------------------------
(* The geometry of the map: what the range of a subtree tells of its points. *)

Triple == [Axes -> Int]
Range3 == [lo : Triple, hi : Triple]
InRange(q, range) == \A a \in Axes : range.lo[a] <= q[a] /\ q[a] <= range.hi[a]

\* Squares of integers.
LEMMA SquareIsNat == \A n \in Int : Sq(n) \in Nat /\ Sq(n) = n * n
BY DEF Sq

LEMMA SquaresAreOrdered ==
  \A m \in Nat, n \in Nat : m <= n => m * m <= n * n
OBVIOUS

LEMMA Products ==
  \A k \in Nat, m \in Int, n \in Int : m <= n => k * m <= k * n
OBVIOUS

\* The inequality of Cauchy and Schwarz, for triples.
LEMMA ScalarProduct ==
  ASSUME NEW x \in Int, NEW y \in Int, NEW z \in Int,
         NEW u \in Int, NEW v \in Int, NEW w \in Int
  PROVE  Sq(x * u + y * v + z * w) <= (Sq(x) + Sq(y) + Sq(z)) * (Sq(u) + Sq(v) + Sq(w))
<1>1. (Sq(x) + Sq(y) + Sq(z)) * (Sq(u) + Sq(v) + Sq(w)) - Sq(x * u + y * v + z * w)
      = Sq(x * v - y * u) + Sq(x * w - z * u) + Sq(y * w - z * v)
  BY DEF Sq
<1>2. /\ Sq(x * v - y * u) \in Nat /\ Sq(x * w - z * u) \in Nat /\ Sq(y * w - z * v) \in Nat
  BY SquareIsNat
<1>3. /\ (Sq(x) + Sq(y) + Sq(z)) * (Sq(u) + Sq(v) + Sq(w)) \in Int
      /\ Sq(x * u + y * v + z * w) \in Int
  BY DEF Sq
<1> DEFINE l == (Sq(x) + Sq(y) + Sq(z)) * (Sq(u) + Sq(v) + Sq(w))
           m == Sq(x * u + y * v + z * w)
           e == Sq(x * v - y * u)
           f == Sq(x * w - z * u)
           g == Sq(y * w - z * v)
<1>4. l - m = e + f + g /\ l \in Int /\ m \in Int /\ e \in Nat /\ f \in Nat /\ g \in Nat
  BY <1>1, <1>2, <1>3
<1> HIDE DEF l, m, e, f, g
<1>5. m <= l
  BY <1>4
<1> QED BY <1>5 DEF l, m

\* The square of a number s is at most 4 c v, where s is c + v - a or its
\* opposite; then (c - v - a)^2 is at most 4 a v.
LEMMA QuarticIdentity ==
  ASSUME NEW c \in Int, NEW v \in Int, NEW a \in Int
  PROVE  /\ (c + v - a) * (c + v - a) - 4 * (c * v) = (c - v - a) * (c - v - a) - 4 * (a * v)
         /\ (a - c - v) * (a - c - v) - 4 * (c * v) = (a + v - c) * (a + v - c) - 4 * (a * v)
OBVIOUS

\* A point at squared distance v from the centre of a ball (c away from the
\* query) that lies beyond the query's radius (squared: a).
LEMMA BeyondTheRadius ==
  ASSUME NEW c \in Nat, NEW v \in Nat, NEW a \in Nat, NEW own \in Nat, NEW s \in Int,
         v <= own, s * s <= c * v,
         c - a - own > 0, (c - a - own) * (c - a - own) > 4 * (a * own)
  PROVE  c + v + 2 * s > a
<1> SUFFICES ASSUME c + v + 2 * s <= a PROVE FALSE
  OBVIOUS
<1> DEFINE over == c - a - own
           far == c - v - a
           sum == c + v - a
<1>1. over \in Nat /\ far \in Nat /\ sum \in Nat /\ over <= far /\ sum <= -2 * s /\ -2 * s \in Nat
  OBVIOUS
<1>2. sum * sum <= (-2 * s) * (-2 * s)
  BY <1>1, SquaresAreOrdered
<1>3. (-2 * s) * (-2 * s) = 4 * (s * s)
  OBVIOUS
<1>4. s * s \in Int /\ c * v \in Int /\ a * v \in Int /\ a * own \in Int
      /\ sum * sum \in Int /\ far * far \in Int /\ over * over \in Int
  OBVIOUS
<1>5. sum * sum - 4 * (c * v) = far * far - 4 * (a * v)
  BY QuarticIdentity
<1>6. over * over <= far * far
  BY <1>1, SquaresAreOrdered
<1>7. a * v <= a * own
  BY Products
<1>8. over * over > 4 * (a * own)
  OBVIOUS
<1> HIDE DEF over, far, sum
<1> DEFINE ss == s * s
           cv == c * v
           av == a * v
           ao == a * own
           m == sum * sum
           f == far * far
           o == over * over
<1>9. /\ ss \in Int /\ cv \in Int /\ av \in Int /\ ao \in Int /\ m \in Int /\ f \in Int /\ o \in Int
      /\ m <= 4 * ss /\ ss <= cv /\ m - 4 * cv = f - 4 * av /\ o <= f /\ av <= ao /\ o > 4 * ao
  BY <1>2, <1>3, <1>4, <1>5, <1>6, <1>7, <1>8
<1> HIDE DEF ss, cv, av, ao, m, f, o
<1> QED BY <1>9

\* The same for one that lies within the radius.
LEMMA WithinTheRadius ==
  ASSUME NEW c \in Nat, NEW v \in Nat, NEW a \in Nat, NEW own \in Nat, NEW s \in Int,
         v <= own, s * s <= c * v,
         own <= a, a + own - c >= 0, (a + own - c) * (a + own - c) >= 4 * (a * own)
  PROVE  c + v + 2 * s <= a
<1> SUFFICES ASSUME c + v + 2 * s > a PROVE FALSE
  OBVIOUS
<1> DEFINE room == a + own - c
           rest == a - c - v
           slack == a + v - c
<1>0. room \in Nat /\ rest \in Int /\ slack \in Int
  OBVIOUS
<1>1. room >= 2 * own
  <2> SUFFICES ASSUME room < 2 * own PROVE FALSE
    BY <1>0
  <2>1. room + 1 \in Nat /\ 2 * own \in Nat /\ room + 1 <= 2 * own
    BY <1>0
  <2>2. (room + 1) * (room + 1) <= (2 * own) * (2 * own)
    BY <2>1, SquaresAreOrdered
  <2>3. (room + 1) * (room + 1) = room * room + 2 * room + 1 /\ (2 * own) * (2 * own) = 4 * (own * own)
    OBVIOUS
  <2>4. own * own <= own * a /\ own * a = a * own
    BY Products
  <2>5. room * room >= 4 * (a * own)
    OBVIOUS
  <2>6. room * room \in Int /\ own * own \in Int /\ a * own \in Int
    OBVIOUS
  <2> HIDE DEF room
  <2> DEFINE rr == room * room
             oo == own * own
             ao == a * own
  <2>7. /\ rr + 2 * room + 1 <= 4 * oo /\ oo <= ao /\ rr >= 4 * ao
        /\ rr \in Int /\ oo \in Int /\ ao \in Int /\ room \in Nat
    BY <1>0, <2>2, <2>3, <2>4, <2>5, <2>6
  <2> HIDE DEF rr, oo, ao
  <2> QED BY <2>7
<1>2. rest \in Nat
  BY <1>1
<1>3. rest < 2 * s /\ 2 * s \in Nat /\ rest + 1 \in Nat /\ rest + 1 <= 2 * s
  BY <1>2
<1>4. (rest + 1) * (rest + 1) <= (2 * s) * (2 * s)
  BY <1>3, SquaresAreOrdered
<1>5. (rest + 1) * (rest + 1) = rest * rest + 2 * rest + 1 /\ (2 * s) * (2 * s) = 4 * (s * s)
  OBVIOUS
<1>6. rest * rest - 4 * (c * v) = slack * slack - 4 * (a * v)
  BY QuarticIdentity
<1>7. slack * slack - 4 * (a * v) = (room * room - 4 * (a * own)) + (own - v) * (2 * a + 2 * c - v - own)
  OBVIOUS
<1>8. (own - v) * (2 * a + 2 * c - v - own) >= 0
  <2>1. own - v \in Nat /\ 2 * a + 2 * c - v - own \in Nat
    OBVIOUS
  <2> QED BY <2>1
<1>9. room * room >= 4 * (a * own)
  OBVIOUS
<1>10. /\ s * s \in Int /\ c * v \in Int /\ a * v \in Int /\ a * own \in Int
       /\ room * room \in Int /\ rest * rest \in Int /\ slack * slack \in Int
       /\ (own - v) * (2 * a + 2 * c - v - own) \in Int
  OBVIOUS
<1> HIDE DEF room, rest, slack
<1> DEFINE ss == s * s
           cv == c * v
           av == a * v
           ao == a * own
           rr == room * room
           ee == rest * rest
           ll == slack * slack
           d == (own - v) * (2 * a + 2 * c - v - own)
<1>11. /\ ss \in Int /\ cv \in Int /\ av \in Int /\ ao \in Int /\ rr \in Int /\ ee \in Int
       /\ ll \in Int /\ d \in Int /\ rest \in Nat
       /\ ee + 2 * rest + 1 <= 4 * ss /\ ss <= cv /\ ee - 4 * cv = ll - 4 * av
       /\ ll - 4 * av = (rr - 4 * ao) + d /\ d >= 0 /\ rr >= 4 * ao
  BY <1>2, <1>4, <1>5, <1>6, <1>7, <1>8, <1>9, <1>10
<1> HIDE DEF ss, cv, av, ao, rr, ee, ll, d
<1> QED BY <1>11

\* No point of a range lies farther from its centre than a corner.
LEMMA CornerIsFarthest ==
  ASSUME NEW l \in Int, NEW h \in Int, NEW n \in Int, l <= n, n <= h
  PROVE  Sq(2 * n - (l + h)) <= Sq(l - h)
<1>1. Sq(l - h) - Sq(2 * n - (l + h)) = 4 * ((h - n) * (n - l))
  BY DEF Sq
<1>2. (h - n) * (n - l) \in Nat
  <2>1. h - n \in Nat /\ n - l \in Nat
    OBVIOUS
  <2> QED BY <2>1
<1>3. Sq(l - h) \in Int /\ Sq(2 * n - (l + h)) \in Int
  BY DEF Sq
<1> QED BY <1>1, <1>2, <1>3

\* Distances, in the coordinates of the points.
LEMMA TripleAxes ==
  ASSUME NEW p \in Triple
  PROVE  p[1] \in Int /\ p[2] \in Int /\ p[3] \in Int
BY DEF Triple, Axes

\* The centre of a range, a point of it and a point to which both are compared.
LEMMA ByTheCentre ==
  ASSUME NEW range \in Range3, NEW q \in Triple, InRange(q, range), NEW p \in Triple
  PROVE  \E v \in Nat, s \in Int :
           /\ CentreDist(range, p) \in Nat /\ Dist(range.lo, range.hi) \in Nat
           /\ v <= Dist(range.lo, range.hi)
           /\ s * s <= CentreDist(range, p) * v
           /\ CentreDist(range, p) + v + 2 * s = 4 * Dist(q, p)
           /\ Dist(q, p) \in Nat
<1> DEFINE l1 == range.lo[1]
           l2 == range.lo[2]
           l3 == range.lo[3]
           h1 == range.hi[1]
           h2 == range.hi[2]
           h3 == range.hi[3]
           x == l1 + h1 - 2 * p[1]
           y == l2 + h2 - 2 * p[2]
           z == l3 + h3 - 2 * p[3]
           u == 2 * q[1] - (l1 + h1)
           v == 2 * q[2] - (l2 + h2)
           w == 2 * q[3] - (l3 + h3)
           s == x * u + y * v + z * w
           V == Sq(u) + Sq(v) + Sq(w)
<1>1. /\ l1 \in Int /\ l2 \in Int /\ l3 \in Int /\ h1 \in Int /\ h2 \in Int /\ h3 \in Int
      /\ p[1] \in Int /\ p[2] \in Int /\ p[3] \in Int /\ q[1] \in Int /\ q[2] \in Int /\ q[3] \in Int
  BY TripleAxes DEF Range3
<1>2. /\ l1 <= q[1] /\ q[1] <= h1 /\ l2 <= q[2] /\ q[2] <= h2 /\ l3 <= q[3] /\ q[3] <= h3
  BY DEF InRange, Axes
<1>3. CentreDist(range, p) = Sq(x) + Sq(y) + Sq(z)
  <2> DEFINE centre == [a \in Axes |-> range.lo[a] + range.hi[a]]
             double == [a \in Axes |-> 2 * p[a]]
  <2>1. /\ centre[1] = l1 + h1 /\ centre[2] = l2 + h2 /\ centre[3] = l3 + h3
        /\ double[1] = 2 * p[1] /\ double[2] = 2 * p[2] /\ double[3] = 2 * p[3]
    BY DEF Axes
  <2>2. CentreDist(range, p) = Dist(centre, double)
    BY DEF CentreDist
  <2> HIDE DEF centre, double, l1, l2, l3, h1, h2, h3
  <2>3. centre[1] - double[1] = x /\ centre[2] - double[2] = y /\ centre[3] - double[3] = z
    BY <1>1, <2>1
  <2> HIDE DEF x, y, z
  <2> QED BY <2>2, <2>3 DEF Dist
<1>4. Dist(range.lo, range.hi) = Sq(l1 - h1) + Sq(l2 - h2) + Sq(l3 - h3)
  BY DEF Dist
<1>5. Dist(q, p) = Sq(q[1] - p[1]) + Sq(q[2] - p[2]) + Sq(q[3] - p[3])
  BY DEF Dist
<1> HIDE DEF l1, l2, l3, h1, h2, h3
<1>6. x \in Int /\ y \in Int /\ z \in Int /\ u \in Int /\ v \in Int /\ w \in Int
  BY <1>1
<1>7. /\ Sq(x) \in Nat /\ Sq(y) \in Nat /\ Sq(z) \in Nat
      /\ Sq(u) \in Nat /\ Sq(v) \in Nat /\ Sq(w) \in Nat
  BY <1>6, SquareIsNat
<1>8. /\ Sq(l1 - h1) \in Nat /\ Sq(l2 - h2) \in Nat /\ Sq(l3 - h3) \in Nat
      /\ Sq(q[1] - p[1]) \in Nat /\ Sq(q[2] - p[2]) \in Nat /\ Sq(q[3] - p[3]) \in Nat
  BY <1>1, SquareIsNat
<1>9. Sq(u) <= Sq(l1 - h1) /\ Sq(v) <= Sq(l2 - h2) /\ Sq(w) <= Sq(l3 - h3)
  BY <1>1, <1>2, CornerIsFarthest
<1>10. V \in Nat /\ V <= Dist(range.lo, range.hi)
  BY <1>4, <1>7, <1>8, <1>9
<1>11. s \in Int /\ s * s <= CentreDist(range, p) * V
  <2>1. s \in Int
    BY <1>6
  <2>2. Sq(s) <= (Sq(x) + Sq(y) + Sq(z)) * V
    BY <1>6, ScalarProduct
  <2> HIDE DEF s, V
  <2> QED BY <1>3, <2>1, <2>2, SquareIsNat
<1>12. CentreDist(range, p) + V + 2 * s = 4 * Dist(q, p)
  <2>1. (Sq(x) + Sq(y) + Sq(z)) + (Sq(u) + Sq(v) + Sq(w)) + 2 * (x * u + y * v + z * w)
        = Sq(x + u) + Sq(y + v) + Sq(z + w)
    <3> HIDE DEF x, y, z, u, v, w
    <3> QED BY <1>6 DEF Sq
  <2>2. /\ x + u = 2 * (q[1] - p[1]) /\ y + v = 2 * (q[2] - p[2]) /\ z + w = 2 * (q[3] - p[3])
    BY <1>1
  <2>3. \A n \in Int : Sq(2 * n) = 4 * Sq(n)
    BY DEF Sq
  <2>4. /\ Sq(x + u) = 4 * Sq(q[1] - p[1]) /\ Sq(y + v) = 4 * Sq(q[2] - p[2])
        /\ Sq(z + w) = 4 * Sq(q[3] - p[3])
    BY <1>1, <2>2, <2>3
  <2> HIDE DEF x, y, z, u, v, w
  <2> QED BY <1>3, <1>5, <1>8, <2>1, <2>4
<1>13. CentreDist(range, p) \in Nat /\ Dist(range.lo, range.hi) \in Nat /\ Dist(q, p) \in Nat
  BY <1>3, <1>4, <1>5, <1>7, <1>8
<1> HIDE DEF s, V
<1> QED BY <1>10, <1>11, <1>12, <1>13

\* A set of integers has a least and a greatest element when it is finite.
LEMMA ExtremesExist ==
  ASSUME NEW S \in SUBSET Int, S # {}, IsFiniteSet(S)
  PROVE  /\ \E v \in S : \A w \in S : v <= w
         /\ \E v \in S : \A w \in S : v >= w
<1> DEFINE Below(v) == {w \in S : w < v}
           Above(v) == {w \in S : w > v}
<1>1. \A v \in S : /\ IsFiniteSet(Below(v)) /\ Cardinality(Below(v)) \in Nat
                   /\ IsFiniteSet(Above(v)) /\ Cardinality(Above(v)) \in Nat
  <2> SUFFICES ASSUME NEW v \in S
               PROVE  /\ IsFiniteSet(Below(v)) /\ Cardinality(Below(v)) \in Nat
                      /\ IsFiniteSet(Above(v)) /\ Cardinality(Above(v)) \in Nat
    OBVIOUS
  <2>1. Below(v) \subseteq S /\ Above(v) \subseteq S
    OBVIOUS
  <2> HIDE DEF Below, Above
  <2> QED BY <2>1, FS_Subset, FS_CardinalityType
<1>2. \E v \in S : \A w \in S : v <= w
  <2> DEFINE T == {Cardinality(Below(v)) : v \in S}
  <2>1. T \in SUBSET Nat /\ T # {}
    BY <1>1
  <2>2. PICK v \in S : \A w \in S : Cardinality(Below(v)) <= Cardinality(Below(w))
    <3>1. PICK h \in T : \A k \in T : h <= k
      BY <2>1, LeastExists
    <3> QED BY <3>1
  <2>3. ASSUME NEW w \in S, ~(v <= w) PROVE FALSE
    <3>0. v \in Int /\ w \in Int /\ \A e \in S : e \in Int
      OBVIOUS
    <3>1. Below(w) \subseteq Below(v) /\ w \in Below(v) /\ w \notin Below(w)
      <4>1. w < v /\ ~(w < w) /\ \A e \in S : e < w => e < v
        BY <2>3, <3>0
      <4> HIDE DEF T
      <4> QED BY <4>1
    <3>2. Below(w) # Below(v)
      BY <3>1
    <3> DEFINE b == Below(w)
               c == Below(v)
    <3>3. /\ b \subseteq c /\ b # c /\ IsFiniteSet(c) /\ Cardinality(b) \in Nat
          /\ Cardinality(c) \in Nat /\ Cardinality(c) <= Cardinality(b)
      BY <1>1, <2>2, <3>1, <3>2
    <3> HIDE DEF b, c
    <3> QED BY <3>3, FS_Subset
  <2> QED BY <2>3
<1>3. \E v \in S : \A w \in S : v >= w
  <2> DEFINE T == {Cardinality(Above(v)) : v \in S}
  <2>1. T \in SUBSET Nat /\ T # {}
    BY <1>1
  <2>2. PICK v \in S : \A w \in S : Cardinality(Above(v)) <= Cardinality(Above(w))
    <3>1. PICK h \in T : \A k \in T : h <= k
      BY <2>1, LeastExists
    <3> QED BY <3>1
  <2>3. ASSUME NEW w \in S, ~(v >= w) PROVE FALSE
    <3>0. v \in Int /\ w \in Int /\ \A e \in S : e \in Int
      OBVIOUS
    <3>1. Above(w) \subseteq Above(v) /\ w \in Above(v) /\ w \notin Above(w)
      <4>1. w > v /\ ~(w > w) /\ \A e \in S : e > w => e > v
        BY <2>3, <3>0
      <4> HIDE DEF T
      <4> QED BY <4>1
    <3>2. Above(w) # Above(v)
      BY <3>1
    <3> DEFINE b == Above(w)
               c == Above(v)
    <3>3. /\ b \subseteq c /\ b # c /\ IsFiniteSet(c) /\ Cardinality(b) \in Nat
          /\ Cardinality(c) \in Nat /\ Cardinality(c) <= Cardinality(b)
      BY <1>1, <2>2, <3>1, <3>2
    <3> HIDE DEF b, c
    <3> QED BY <3>3, FS_Subset
  <2> QED BY <2>3
<1> QED BY <1>2, <1>3

\* A point of a part is a point of the whole.
LEMMA HullHolds ==
  ASSUME NEW parts \in SUBSET Range3, IsFiniteSet(parts), NEW part \in parts,
         NEW q \in Triple, InRange(q, part)
  PROVE  Hull(parts) \in Range3 /\ InRange(q, Hull(parts))
<1> DEFINE Least(a) == CHOOSE v \in {r.lo[a] : r \in parts} : \A r \in parts : v <= r.lo[a]
           Greatest(a) == CHOOSE v \in {r.hi[a] : r \in parts} : \A r \in parts : v >= r.hi[a]
<1>1. ASSUME NEW a \in Axes
      PROVE  /\ Least(a) \in Int /\ Least(a) <= part.lo[a]
             /\ Greatest(a) \in Int /\ part.hi[a] <= Greatest(a)
  <2> DEFINE L == {r.lo[a] : r \in parts}
             H == {r.hi[a] : r \in parts}
  <2>1. \A r \in parts : r.lo[a] \in Int /\ r.hi[a] \in Int
    BY DEF Range3, Triple
  <2>2. L \in SUBSET Int /\ L # {} /\ H \in SUBSET Int /\ H # {}
    BY <2>1
  <2>3. IsFiniteSet(L) /\ IsFiniteSet(H)
    <3>1. [r \in parts |-> r.lo[a]] \in Surjection(parts, L)
      BY DEF Surjection
    <3>2. [r \in parts |-> r.hi[a]] \in Surjection(parts, H)
      BY DEF Surjection
    <3> HIDE DEF L, H
    <3> QED BY <3>1, <3>2, FS_Surjection
  <2>4. \E v \in L : \A w \in L : v <= w
    <3> HIDE DEF L, H
    <3> QED BY <2>2, <2>3, ExtremesExist
  <2>5. \E v \in H : \A w \in H : v >= w
    <3> HIDE DEF L, H
    <3> QED BY <2>2, <2>3, ExtremesExist
  <2>6. Least(a) \in L /\ \A r \in parts : Least(a) <= r.lo[a]
    <3>1. \E v \in L : \A r \in parts : v <= r.lo[a]
      BY <2>4
    <3> QED BY <3>1
  <2>7. Greatest(a) \in H /\ \A r \in parts : Greatest(a) >= r.hi[a]
    <3>1. \E v \in H : \A r \in parts : v >= r.hi[a]
      BY <2>5
    <3> QED BY <3>1
  <2>8. Least(a) \in Int /\ Greatest(a) \in Int
    BY <2>2, <2>6, <2>7
  <2> HIDE DEF Least, Greatest, L, H
  <2> QED BY <2>1, <2>6, <2>7, <2>8
<1>2. Hull(parts) = [lo |-> [a \in Axes |-> Least(a)], hi |-> [a \in Axes |-> Greatest(a)]]
  BY DEF Hull
<1>3. part \in Range3 /\ \A a \in Axes : part.lo[a] <= q[a] /\ q[a] <= part.hi[a]
  BY DEF InRange
<1>4. \A a \in Axes : part.lo[a] \in Int /\ part.hi[a] \in Int /\ q[a] \in Int
  BY <1>3 DEF Range3, Triple
<1> HIDE DEF Least, Greatest
<1>5. \A a \in Axes : Least(a) <= q[a] /\ q[a] <= Greatest(a)
  BY <1>1, <1>3, <1>4
<1>6. Hull(parts) \in Range3
  BY <1>1, <1>2 DEF Range3, Triple
<1> QED BY <1>2, <1>5, <1>6 DEF InRange

\* A query by box.
LEMMA BoxAgainstRange ==
  ASSUME NEW range \in Range3, NEW q \in Triple, InRange(q, range), NEW b \in Range3
  PROVE  (Disjoint(b, range) => ~InBox(q, b)) /\ (Covers(b, range) => InBox(q, b))
<1>1. \A a \in Axes : /\ range.lo[a] \in Int /\ range.hi[a] \in Int /\ q[a] \in Int
                      /\ b.lo[a] \in Int /\ b.hi[a] \in Int
                      /\ range.lo[a] <= q[a] /\ q[a] <= range.hi[a]
  BY DEF Range3, Triple, InRange
<1>2. ASSUME NEW a \in Axes, b.hi[a] <= range.lo[a] \/ b.lo[a] > range.hi[a]
      PROVE  ~(b.lo[a] <= q[a] /\ q[a] < b.hi[a])
  BY <1>1, <1>2
<1>3. ASSUME NEW a \in Axes, b.lo[a] <= range.lo[a] /\ b.hi[a] > range.hi[a]
      PROVE  b.lo[a] <= q[a] /\ q[a] < b.hi[a]
  BY <1>1, <1>3
<1> QED BY <1>2, <1>3 DEF Disjoint, Covers, InBox

\* A query by radius.
LEMMA BallAgainstRange ==
  ASSUME NEW range \in Range3, NEW q \in Triple, InRange(q, range),
         NEW p \in Triple, NEW r \in Nat
  PROVE  /\ FarOff(range, p, r) => Dist(q, p) > Sq(r)
         /\ WithinBall(range, p, r) => Dist(q, p) <= Sq(r)
<1>1. PICK v \in Nat, s \in Int :
        /\ CentreDist(range, p) \in Nat /\ Dist(range.lo, range.hi) \in Nat
        /\ v <= Dist(range.lo, range.hi)
        /\ s * s <= CentreDist(range, p) * v
        /\ CentreDist(range, p) + v + 2 * s = 4 * Dist(q, p)
        /\ Dist(q, p) \in Nat
  BY ByTheCentre
<1> DEFINE c == CentreDist(range, p)
           own == Dist(range.lo, range.hi)
           a == Sq(2 * r)
           d == Dist(q, p)
<1>2. Sq(r) \in Nat /\ a \in Nat /\ a = 4 * Sq(r)
  BY DEF Sq
<1>3. FarOff(range, p, r) => c - a - own > 0 /\ (c - a - own) * (c - a - own) > 4 * a * own
  BY DEF FarOff, Sq
<1>4. WithinBall(range, p, r) =>
        own <= a /\ a + own - c >= 0 /\ (a + own - c) * (a + own - c) >= 4 * a * own
  BY DEF WithinBall, Sq
<1>5. /\ c \in Nat /\ own \in Nat /\ d \in Nat /\ v <= own /\ s * s <= c * v
      /\ c + v + 2 * s = 4 * d
  BY <1>1
<1> HIDE DEF c, own, a, d
<1>6. 4 * a * own = 4 * (a * own)
  BY <1>2, <1>5
<1>7. FarOff(range, p, r) => d > Sq(r)
  <2> SUFFICES ASSUME FarOff(range, p, r) PROVE d > Sq(r)
    OBVIOUS
  <2>1. c + v + 2 * s > a
    BY <1>2, <1>3, <1>5, <1>6, BeyondTheRadius
  <2> QED BY <1>2, <1>5, <2>1
<1>8. WithinBall(range, p, r) => d <= Sq(r)
  <2> SUFFICES ASSUME WithinBall(range, p, r) PROVE d <= Sq(r)
    OBVIOUS
  <2>1. c + v + 2 * s <= a
    BY <1>2, <1>4, <1>5, <1>6, WithinTheRadius
  <2> QED BY <1>2, <1>5, <2>1
<1> QED BY <1>7, <1>8 DEF d

\* A query for the nearest points.
LEMMA GapIsLess ==
  ASSUME NEW l \in Int, NEW h \in Int, NEW n \in Int, NEW m \in Int, l <= n, n <= h
  PROVE  LET gap == IF m < l THEN Sq(m - l) ELSE IF m > h THEN Sq(m - h) ELSE 0
         IN  gap \in Nat /\ gap <= Sq(m - n) /\ Sq(m - n) \in Nat
<1>1. Sq(m - l) \in Nat /\ Sq(m - h) \in Nat /\ Sq(m - n) \in Nat
  BY SquareIsNat
<1>2. CASE m < l
  <2>1. l - m \in Nat /\ n - m \in Nat /\ l - m <= n - m
    BY <1>2
  <2>2. (l - m) * (l - m) <= (n - m) * (n - m)
    BY <2>1, SquaresAreOrdered
  <2>3. Sq(m - l) = (l - m) * (l - m) /\ Sq(m - n) = (n - m) * (n - m)
    BY DEF Sq
  <2> QED BY <1>1, <1>2, <2>2, <2>3
<1>3. CASE m > h
  <2>1. m - h \in Nat /\ m - n \in Nat /\ m - h <= m - n
    BY <1>3
  <2>2. (m - h) * (m - h) <= (m - n) * (m - n)
    BY <2>1, SquaresAreOrdered
  <2>3. Sq(m - h) = (m - h) * (m - h) /\ Sq(m - n) = (m - n) * (m - n)
    BY DEF Sq
  <2>4. ~(m < l)
    BY <1>3
  <2> QED BY <1>1, <1>3, <2>2, <2>3, <2>4
<1>4. CASE ~(m < l) /\ ~(m > h)
  BY <1>1, <1>4
<1> QED BY <1>2, <1>3, <1>4

LEMMA NearestAgainstRange ==
  ASSUME NEW range \in Range3, NEW q \in Triple, InRange(q, range), NEW p \in Triple
  PROVE  calc_box_dist(range, p) <= Dist(p, q)
<1> DEFINE Gap(a) == IF p[a] < range.lo[a] THEN Sq(p[a] - range.lo[a])
                     ELSE IF p[a] > range.hi[a] THEN Sq(p[a] - range.hi[a]) ELSE 0
<1>1. \A a \in Axes : /\ range.lo[a] \in Int /\ range.hi[a] \in Int /\ q[a] \in Int /\ p[a] \in Int
                      /\ range.lo[a] <= q[a] /\ q[a] <= range.hi[a]
  BY DEF Range3, Triple, InRange
<1>2. \A a \in Axes : Gap(a) \in Nat /\ Gap(a) <= Sq(p[a] - q[a]) /\ Sq(p[a] - q[a]) \in Nat
  BY <1>1, GapIsLess
<1>3. 1 \in Axes /\ 2 \in Axes /\ 3 \in Axes
  BY DEF Axes
<1>4. calc_box_dist(range, p) = Gap(1) + Gap(2) + Gap(3)
  BY DEF calc_box_dist
<1>5. Dist(p, q) = Sq(p[1] - q[1]) + Sq(p[2] - q[2]) + Sq(p[3] - q[3])
  BY DEF Dist
<1> HIDE DEF Gap
<1> QED BY <1>2, <1>3, <1>4, <1>5

(* A subtree is left out of a query, or taken whole, for the range of its    *)
(* node alone.  That is exact, for every point that lies in the range of     *)
(* one of the parts Update has put together: by box, by radius, and for the  *)
(* nearest points, whose distance is never less than calc_box_dist.          *)
THEOREM PruningIsExact ==
  ASSUME NEW parts \in SUBSET Range3, IsFiniteSet(parts), NEW part \in parts,
         NEW q \in Triple, InRange(q, part)
  PROVE  LET range == Hull(parts)
         IN  /\ \A b \in Range3 : /\ Disjoint(b, range) => ~InBox(q, b)
                                  /\ Covers(b, range) => InBox(q, b)
             /\ \A p \in Triple, r \in Nat : /\ FarOff(range, p, r) => Dist(q, p) > Sq(r)
                                            /\ WithinBall(range, p, r) => Dist(q, p) <= Sq(r)
             /\ \A p \in Triple : calc_box_dist(range, p) <= Dist(p, q)
<1> DEFINE range == Hull(parts)
<1>1. range \in Range3 /\ InRange(q, range)
  BY HullHolds
<1> HIDE DEF range
<1>2. \A b \in Range3 : (Disjoint(b, range) => ~InBox(q, b)) /\ (Covers(b, range) => InBox(q, b))
  BY <1>1, BoxAgainstRange
<1>3. \A p \in Triple, r \in Nat : /\ FarOff(range, p, r) => Dist(q, p) > Sq(r)
                                  /\ WithinBall(range, p, r) => Dist(q, p) <= Sq(r)
  BY <1>1, BallAgainstRange
<1>4. \A p \in Triple : calc_box_dist(range, p) <= Dist(p, q)
  BY <1>1, NearestAgainstRange
<1> QED BY <1>2, <1>3, <1>4 DEF range

\* Two numbers have the same quotient just when one lies in the cell of the other.
LEMMA SameCell ==
  ASSUME NEW m \in Int, NEW n \in Int, NEW r \in Nat \ {0}
  PROVE  (r * (m \div r) <= n /\ n < r * (m \div r) + r) <=> n \div r = m \div r
<1> DEFINE p == m \div r
           q == n \div r
<1>1. p \in Int /\ q \in Int /\ r * q <= n /\ n < r * q + r
  OBVIOUS
<1> HIDE DEF p, q
<1>2. ASSUME r * p <= n, n < r * p + r PROVE q = p
  <2>1. ASSUME NEW a \in Int, NEW b \in Int, a < b, r * b <= n, n < r * a + r PROVE FALSE
    <3>1. b - a - 1 \in Nat
      BY <2>1
    <3>2. r * (b - a - 1) \in Nat
      BY <3>1
    <3>3. r * b = r * a + r + r * (b - a - 1)
      OBVIOUS
    <3> DEFINE u == r * b
               v == r * a
               w == r * (b - a - 1)
    <3>4. u \in Int /\ v \in Int /\ w \in Nat /\ u = v + r + w /\ u <= n /\ n < v + r
      BY <2>1, <3>2, <3>3
    <3> HIDE DEF u, v, w
    <3> QED BY <3>4
  <2>2. ~(q < p) /\ ~(p < q)
    BY <1>1, <1>2, <2>1
  <2> QED BY <1>1, <2>2
<1>3. ASSUME q = p PROVE r * p <= n /\ n < r * p + r
  BY <1>1, <1>3
<1> QED BY <1>2, <1>3 DEF p, q

(* Voxels part the space: a point lies in the voxel of another just when it  *)
(* has the same voxel, so that a down-sampling touches no other voxel.       *)
THEOREM VoxelsPartSpace ==
  \A p \in Triple, q \in Triple : InBox(q, VoxelOf(p)) <=> VoxelOf(q) = VoxelOf(p)
<1> SUFFICES ASSUME NEW p \in Triple, NEW q \in Triple
             PROVE  InBox(q, VoxelOf(p)) <=> VoxelOf(q) = VoxelOf(p)
  OBVIOUS
<1> DEFINE Low(n) == (n \div Voxel) * Voxel
<1>1. \A a \in Axes : p[a] \in Int /\ q[a] \in Int
  BY DEF Triple
<1>2. \A m \in Int, n \in Int : /\ Low(m) \in Int
                               /\ (Low(m) <= n /\ n < Low(m) + Voxel) <=> Low(n) = Low(m)
  <2> SUFFICES ASSUME NEW m \in Int, NEW n \in Int
               PROVE  /\ Low(m) \in Int
                      /\ (Low(m) <= n /\ n < Low(m) + Voxel) <=> Low(n) = Low(m)
    OBVIOUS
  <2> DEFINE a == m \div Voxel
             b == n \div Voxel
  <2>0. Voxel \in Nat \ {0}
    BY VoxelAssumption DEF VoxelAssumption
  <2>1. a \in Int /\ b \in Int
    BY <2>0
  <2>2. (Voxel * a <= n /\ n < Voxel * a + Voxel) <=> b = a
    BY <2>0, SameCell
  <2> HIDE DEF a, b
  <2>3. a * Voxel = Voxel * a /\ a * Voxel \in Int /\ b * Voxel \in Int
    BY <2>0, <2>1
  <2>4. a * Voxel = b * Voxel => a = b
    <3> SUFFICES ASSUME a * Voxel = b * Voxel, a # b PROVE FALSE
      OBVIOUS
    <3>1. (a - b) * Voxel = 0
      BY <2>0, <2>1
    <3> QED BY <2>0, <2>1, <3>1
  <2>5. Low(m) = a * Voxel /\ Low(n) = b * Voxel
    BY DEF a, b
  <2> HIDE DEF Low
  <2> QED BY <2>2, <2>3, <2>4, <2>5
<1>3. \A s \in Triple : VoxelOf(s) = [lo |-> [a \in Axes |-> Low(s[a])],
                                      hi |-> [a \in Axes |-> Low(s[a]) + Voxel]]
  BY DEF VoxelOf
<1> HIDE DEF Low
<1>4. InBox(q, VoxelOf(p)) <=> \A a \in Axes : Low(p[a]) <= q[a] /\ q[a] < Low(p[a]) + Voxel
  BY <1>3 DEF InBox
<1>5. VoxelOf(q) = VoxelOf(p) <=> \A a \in Axes : Low(q[a]) = Low(p[a])
  <2>1. ASSUME VoxelOf(q) = VoxelOf(p), NEW a \in Axes PROVE Low(q[a]) = Low(p[a])
    <3>1. VoxelOf(q).lo[a] = Low(q[a]) /\ VoxelOf(p).lo[a] = Low(p[a])
      BY <1>3
    <3> QED BY <2>1, <3>1
  <2>2. ASSUME \A a \in Axes : Low(q[a]) = Low(p[a]) PROVE VoxelOf(q) = VoxelOf(p)
    <3>1. /\ [a \in Axes |-> Low(q[a])] = [a \in Axes |-> Low(p[a])]
          /\ [a \in Axes |-> Low(q[a]) + Voxel] = [a \in Axes |-> Low(p[a]) + Voxel]
      BY <2>2
    <3> QED BY <1>3, <3>1
  <2> QED BY <2>1, <2>2
<1> QED BY <1>1, <1>2, <1>4, <1>5
=============================================================================
