--------------------------- MODULE Drivers_proofs ---------------------------
(* Proofs about the parts of the drivers and of the behaviour-tree library    *)
(* that have threads, timers or retries: the configuration and the packet     *)
(* queues of the lidar driver, the rebuild thread of the k-d tree, the        *)
(* back-up behaviour, the control nodes and the topic and service nodes;      *)
(* about the scans that a cloud is turned into; and about the checksum of the *)
(* serial packets.                                                            *)
EXTENDS LivoxConfig, LivoxStreams, IkdRebuild, BackUp, RecoveryNode, RosServiceNode,
        LaserScan, RosTopicSubNode, TickGates, Crc, FiniteSetTheorems,
        SequenceTheorems, WellFoundedInduction, TLAPS

-----------------------------------------------------------------------------
(* Numbers.                                                                  *)

\* A set of naturals that is not empty has a least element.
LEMMA LeastNat ==
  ASSUME NEW S \in SUBSET Nat, S # {}
  PROVE  \E h \in S : \A k \in S : h <= k
<1>1. PICK h \in S : \A k \in S : <<k, h>> \notin OpToRel(<, Nat)
  BY NatLessThanWellFounded, WFMin
<1>2. ASSUME NEW k \in S PROVE h <= k
  <2>1. <<k, h>> \in Nat \X Nat
    OBVIOUS
  <2>2. ~(k < h)
    BY <1>1, <2>1 DEF OpToRel
  <2> QED BY <2>1, <2>2
<1> QED BY <1>2

\* Division with remainder: what a quotient is, and that quotients keep the order.
LEMMA QuotientBounds ==
  ASSUME NEW n \in Int, NEW r \in Nat \ {0}
  PROVE  n \div r \in Int /\ r * (n \div r) <= n /\ n < r * (n \div r) + r
OBVIOUS

LEMMA QuotientsAreOrdered ==
  ASSUME NEW p \in Int, NEW q \in Int, NEW r \in Nat \ {0}, r * p < r * q + r
  PROVE  p <= q
<1> SUFFICES ASSUME p > q PROVE FALSE
  OBVIOUS
<1>1. p - (q + 1) \in Nat
  OBVIOUS
<1>2. r * (p - (q + 1)) \in Nat
  BY <1>1
<1>3. r * (p - (q + 1)) = r * p - (r * q + r)
  OBVIOUS
<1> DEFINE a == r * p
           b == r * q
           c == r * (p - (q + 1))
<1>4. a \in Int /\ b \in Int /\ c \in Nat /\ c = a - (b + r) /\ a < b + r
  BY <1>2, <1>3
<1> HIDE DEF a, b, c
<1>5. FALSE
  BY <1>4
<1> QED BY <1>5

LEMMA Remainder ==
  ASSUME NEW x \in Int, NEW m \in Nat \ {0}
  PROVE  /\ x % m \in 0..(m - 1) /\ x % m \in Int
         /\ x \div m \in Int /\ x % m = x - m * (x \div m)
<1>1. x % m \in 0..(m - 1)
  OBVIOUS
<1>2. x % m = x - m * (x \div m)
  OBVIOUS
<1> QED BY <1>1, <1>2, QuotientBounds

LEMMA RemainderIsUnique ==
  ASSUME NEW m \in Nat \ {0}, NEW q \in Int, NEW y \in 0..(m - 1)
  PROVE  (y + m * q) % m = y
<1> DEFINE x == y + m * q
           p == x \div m
<1>1. x \in Int /\ m * q \in Int
  OBVIOUS
<1>2. p \in Int /\ x % m = x - m * p /\ x % m \in 0..(m - 1)
  BY <1>1, Remainder
<1>3. m * p \in Int
  BY <1>2
<1>4. x = y + m * q
  OBVIOUS
<1> HIDE DEF p, x
<1>5. m * p < m * q + m /\ m * q < m * p + m
  BY <1>1, <1>2, <1>3, <1>4
<1>6. p = q
  BY <1>2, <1>5, QuotientsAreOrdered
<1>7. x % m = y
  BY <1>1, <1>2, <1>4, <1>6
<1> QED BY <1>7 DEF x

\* Whole turns do not count.
LEMMA TurnsDoNotCount ==
  ASSUME NEW x \in Int, NEW m \in Nat \ {0}, NEW q \in Int
  PROVE  (x + m * q) % m = x % m
<1> DEFINE y == x % m
           p == x \div m
<1>1. p \in Int /\ y \in 0..(m - 1) /\ y = x - m * p
  BY Remainder
<1>2. x + m * q = y + m * (p + q)
  <2> HIDE DEF y, p
  <2>1. m * (p + q) = m * p + m * q /\ m * p \in Int /\ m * q \in Int
    BY <1>1
  <2> DEFINE s == m * p
             t == m * q
  <2>2. s \in Int /\ t \in Int /\ y = x - s /\ m * (p + q) = s + t
    BY <1>1, <2>1
  <2> HIDE DEF s, t
  <2>3. x + t = y + (s + t)
    BY <2>2, <1>1
  <2> QED BY <2>2, <2>3 DEF s, t
<1> HIDE DEF y, p
<1>3. (y + m * (p + q)) % m = y
  BY <1>1, RemainderIsUnique
<1> QED BY <1>2, <1>3 DEF y

\* The same backwards.
LEMMA TurnsBackDoNotCount ==
  ASSUME NEW x \in Int, NEW m \in Nat \ {0}, NEW q \in Int
  PROVE  (x - m * q) % m = x % m
<1> DEFINE s == m * q
<1>1. s \in Int /\ x - s \in Int
  OBVIOUS
<1>2. ((x - s) + m * q) % m = (x - s) % m
  BY <1>1, TurnsDoNotCount
<1>3. (x - s) + s = x
  <2> HIDE DEF s
  <2> QED BY <1>1
<1> QED BY <1>2, <1>3

LEMMA SmallRemainder ==
  ASSUME NEW m \in Nat \ {0}, NEW y \in 0..(m - 1)
  PROVE  y % m = y
<1>1. y + m * 0 = y
  OBVIOUS
<1> QED BY <1>1, RemainderIsUnique

\* Remainders may be taken in between.
LEMMA InnerRemainder ==
  ASSUME NEW m \in Nat \ {0}, NEW x \in Int, NEW d \in Int
  PROVE  /\ ((x % m) + d) % m = (x + d) % m
         /\ (d - (x % m)) % m = (d - x) % m
<1> DEFINE p == x \div m
           y == x % m
<1>1. p \in Int /\ y \in Int /\ y = x - m * p
  BY Remainder
<1> HIDE DEF p, y
<1> DEFINE s == m * p
<1>2. s \in Int /\ y = x - s
  BY <1>1
<1>3. y + d = (x + d) - m * p /\ d - y = (d - x) + m * p
  <2> SUFFICES y + d = (x + d) - s /\ d - y = (d - x) + s
    OBVIOUS
  <2> HIDE DEF s
  <2> QED BY <1>1, <1>2
<1>4. (x + d) \in Int /\ (d - x) \in Int
  OBVIOUS
<1>5. ((x + d) - m * p) % m = (x + d) % m
  BY <1>1, <1>4, TurnsBackDoNotCount
<1>6. ((d - x) + m * p) % m = (d - x) % m
  BY <1>1, <1>4, TurnsDoNotCount
<1> QED BY <1>3, <1>5, <1>6 DEF y

\* Numbers less than one turn apart have different remainders.
LEMMA EqualRemainders ==
  ASSUME NEW m \in Nat \ {0}, NEW x \in Int, NEW d \in 1..(m - 1)
  PROVE  (x + d) % m # x % m
<1> SUFFICES ASSUME (x + d) % m = x % m PROVE FALSE
  OBVIOUS
<1> DEFINE p == x \div m
           q == (x + d) \div m
<1>1. /\ p \in Int /\ x % m = x - m * p /\ x % m \in Int
  BY Remainder
<1>2. q \in Int /\ (x + d) % m = (x + d) - m * q
  <2> DEFINE z == x + d
  <2>1. z \in Int
    OBVIOUS
  <2> HIDE DEF z
  <2>2. z \div m \in Int /\ z % m = z - m * (z \div m)
    BY <2>1, Remainder
  <2> QED BY <2>2 DEF z
<1> HIDE DEF p, q
<1>3. m * p \in Int /\ m * q \in Int /\ m * q = m * p + d
  BY <1>1, <1>2
<1>4. m * q < m * p + m /\ m * p < m * q + m
  BY <1>3
<1>5. p = q
  BY <1>1, <1>2, <1>4, QuotientsAreOrdered
<1> QED BY <1>3, <1>5

-----------------------------------------------------------------------------
(* The configuration of the lidars.                                          *)

CfgTypes ==
    /\ set_bits \in [Lidars -> SUBSET Options] /\ acknowledged \in [Lidars -> SUBSET Options]
    /\ connect_state \in [Lidars -> {"Off", "Sampling"}]
    /\ asked \in [Lidars -> [Options -> Nat]]
    /\ announcing # NoCallback =>
          /\ announcing \in [lidar : Lidars, todo : SUBSET Options]
          /\ announcing.todo # {}

\* The options of a lidar that have not been asked for are those the callback has still
\* to ask for; without a callback all are, once one is.
Announces(l) == announcing # NoCallback /\ announcing.lidar = l

AnswerInv(l) ==
    /\ Announces(l) => Wanted(l) \subseteq set_bits[l] \union acknowledged[l] \union announcing.todo
    /\ ~Announces(l) /\ (\E o \in Options : asked[l][o] > 0) =>
          Wanted(l) \subseteq set_bits[l] \union acknowledged[l]
    /\ connect_state[l] = "Sampling" => Wanted(l) \subseteq acknowledged[l]

CfgInv == CfgTypes /\ \A l \in Lidars : AnswerInv(l)

LEMMA WantedAreOptions == \A l \in Lidars : Wanted(l) \subseteq Options
BY ConfigAssumption DEF Wanted

\* The choice of the next option is defined.
LEMMA NextOptionIsLeft ==
  ASSUME NEW asks \in SUBSET Options, asks # {}
  PROVE  NextOption(asks) \in asks
<1> DEFINE P(i) == /\ kConfigBits[i] \in asks
                   /\ \A j \in 1 .. i - 1 : kConfigBits[j] \notin asks
<1>1. DOMAIN kConfigBits = 1..4
  BY DEF kConfigBits
<1>2. PICK i \in 1..4 : kConfigBits[i] \in asks
  BY <1>1 DEF Options
<1> HIDE DEF kConfigBits
<1>3. \E j \in 1..4 : P(j)
  <2>1. CASE kConfigBits[1] \in asks
    BY <2>1
  <2>2. CASE kConfigBits[1] \notin asks /\ kConfigBits[2] \in asks
    BY <2>2
  <2>3. CASE kConfigBits[1] \notin asks /\ kConfigBits[2] \notin asks /\ kConfigBits[3] \in asks
    <3>1. \A j \in 1..2 : j = 1 \/ j = 2
      OBVIOUS
    <3> QED BY <2>3, <3>1
  <2>4. CASE kConfigBits[1] \notin asks /\ kConfigBits[2] \notin asks /\ kConfigBits[3] \notin asks
    <3>1. \A j \in 1..3 : j = 1 \/ j = 2 \/ j = 3
      OBVIOUS
    <3>2. i = 4
      BY <1>2, <2>4
    <3> QED BY <1>2, <2>4, <3>1, <3>2
  <2> QED BY <2>1, <2>2, <2>3, <2>4
<1>4. P(CHOOSE j \in DOMAIN kConfigBits : P(j))
  BY <1>1, <1>3
<1> QED BY <1>4 DEF NextOption

LEMMA CfgInvInit == CfgInit => CfgInv
BY DEF CfgInit, CfgInv, CfgTypes, AnswerInv, Announces, NoCallback

LEMMA AnnounceKeeps ==
  ASSUME CfgInv, NEW l \in Lidars, LidarInfoChangeCallback(l)
  PROVE  CfgInv'
<1>1. announcing = NoCallback /\ UNCHANGED <<set_bits, connect_state, asked, acknowledged>>
  BY DEF LidarInfoChangeCallback
<1>2. CASE UNCHANGED announcing
  BY <1>1, <1>2 DEF CfgInv, CfgTypes, AnswerInv, Announces
<1>3. CASE announcing' = [lidar |-> l, todo |-> Wanted(l)] /\ Wanted(l) # {}
  <2>1. /\ announcing'.lidar = l /\ announcing'.todo = Wanted(l) /\ announcing' # NoCallback
        /\ announcing' \in [lidar : Lidars, todo : SUBSET Options]
    BY <1>3, WantedAreOptions DEF NoCallback
  <2>2. \A m \in Lidars : ~Announces(m)
    BY <1>1 DEF Announces
  <2>3. \A m \in Lidars : Announces(m)' <=> m = l
    BY <2>1 DEF Announces
  <2>4. CfgTypes'
    BY <1>1, <1>3, <2>1 DEF CfgInv, CfgTypes
  <2>5. \A m \in Lidars : AnswerInv(m)'
    BY <1>1, <2>1, <2>2, <2>3 DEF CfgInv, AnswerInv
  <2> QED BY <2>4, <2>5 DEF CfgInv
<1> QED BY <1>1, <1>2, <1>3 DEF LidarInfoChangeCallback

\* An option that has been asked for has its bit.
LEMMA RequestKeeps ==
  ASSUME CfgInv, RequestOption
  PROVE  CfgInv'
<1> DEFINE l == announcing.lidar
           o == NextOption(announcing.todo)
           left == announcing.todo \ {o}
<1>1. /\ announcing # NoCallback
      /\ set_bits' = [set_bits EXCEPT ![l] = @ \cup {o}]
      /\ asked' = [asked EXCEPT ![l][o] = @ + 1]
      /\ announcing' = IF left = {} THEN NoCallback ELSE [lidar |-> l, todo |-> left]
      /\ UNCHANGED <<connect_state, acknowledged>>
  BY DEF RequestOption
<1>2. /\ l \in Lidars /\ announcing.todo \in SUBSET Options /\ announcing.todo # {}
      /\ set_bits \in [Lidars -> SUBSET Options] /\ asked \in [Lidars -> [Options -> Nat]]
  BY <1>1 DEF CfgInv, CfgTypes
<1>3. o \in announcing.todo /\ o \in Options
  BY <1>2, NextOptionIsLeft
<1> HIDE DEF o
<1>4. Announces(l) /\ \A m \in Lidars : m # l => ~Announces(m)
  BY <1>1 DEF Announces
<1>5. \A m \in Lidars : m # l => ~Announces(m)'
  BY <1>1, <1>2 DEF Announces, NoCallback
<1> HIDE DEF l
<1>6. /\ set_bits'[l] = set_bits[l] \union {o}
      /\ \A m \in Lidars : m # l => set_bits'[m] = set_bits[m] /\ asked'[m] = asked[m]
  BY <1>1, <1>2
<1>7. /\ set_bits' \in [Lidars -> SUBSET Options] /\ asked' \in [Lidars -> [Options -> Nat]]
  BY <1>1, <1>2, <1>3
<1>8. announcing' # NoCallback =>
          /\ announcing' \in [lidar : Lidars, todo : SUBSET Options]
          /\ announcing'.todo # {} /\ announcing'.lidar = l
          /\ announcing'.todo = left
  BY <1>1, <1>2
<1>9. CfgTypes'
  BY <1>1, <1>7, <1>8 DEF CfgInv, CfgTypes
<1>10. ASSUME NEW m \in Lidars PROVE AnswerInv(m)'
  <2>1. CASE m # l
    BY <1>1, <1>4, <1>5, <1>6, <2>1 DEF CfgInv, AnswerInv
  <2>2. CASE m = l
    <3>1. Wanted(l) \subseteq set_bits[l] \union acknowledged[l] \union announcing.todo
      BY <1>2, <1>4 DEF CfgInv, AnswerInv
    <3>2. Wanted(l) \subseteq set_bits'[l] \union acknowledged[l] \union left
      BY <3>1, <1>6
    <3>3. announcing' = NoCallback => left = {}
      BY <1>1 DEF NoCallback
    <3>4. connect_state[l] = "Sampling" => Wanted(l) \subseteq acknowledged[l]
      BY <1>2 DEF CfgInv, AnswerInv
    <3> QED BY <2>2, <3>2, <3>3, <3>4, <1>1, <1>8 DEF AnswerInv, Announces
  <2> QED BY <2>1, <2>2
<1> QED BY <1>9, <1>10 DEF CfgInv

LEMMA AnswersAreCounted ==
  ASSUME CfgTypes, NEW l \in Lidars, NEW o \in Options, asked[l][o] > 0,
         asked' \in {Answered(l, o), [Answered(l, o) EXCEPT ![l][o] = @ + 1]}
  PROVE  /\ asked' \in [Lidars -> [Options -> Nat]]
         /\ \A m \in Lidars : (\E p \in Options : asked'[m][p] > 0) => \E p \in Options : asked[m][p] > 0
<1>1. asked \in [Lidars -> [Options -> Nat]] /\ asked[l][o] \in Nat
  BY DEF CfgTypes
<1>2. CASE asked' = Answered(l, o)
  <2>1. asked[l][o] - 1 \in Nat
    BY <1>1
  <2> QED BY <1>1, <1>2, <2>1 DEF Answered
<1>3. CASE asked' = [Answered(l, o) EXCEPT ![l][o] = @ + 1]
  <2>1. asked[l][o] - 1 \in Nat /\ (asked[l][o] - 1) + 1 = asked[l][o]
    BY <1>1
  <2>2. /\ Answered(l, o) \in [Lidars -> [Options -> Nat]]
        /\ Answered(l, o)[l][o] = asked[l][o] - 1
        /\ \A m \in Lidars, p \in Options : m # l \/ p # o => Answered(l, o)[m][p] = asked[m][p]
    BY <1>1, <2>1 DEF Answered
  <2> QED BY <1>1, <1>3, <2>1, <2>2
<1> QED BY <1>2, <1>3

\* With the last bit gone all options that were asked for are confirmed.
LEMMA ConfirmKeeps ==
  ASSUME CfgInv, NEW l \in Lidars, NEW o \in Options, OptionConfirmed(l, o)
  PROVE  CfgInv'
<1>1. /\ asked[l][o] > 0 /\ announcing = NoCallback /\ announcing' = NoCallback
      /\ asked' = Answered(l, o)
      /\ set_bits' = [set_bits EXCEPT ![l] = @ \ {o}]
      /\ connect_state' = [connect_state EXCEPT ![l] =
                         IF set_bits[l] \ {o} = {} THEN "Sampling" ELSE @]
      /\ acknowledged' = [acknowledged EXCEPT ![l] = @ \cup {o}]
  BY DEF OptionConfirmed, ConfigMutexFree
<1>2. /\ set_bits \in [Lidars -> SUBSET Options] /\ acknowledged \in [Lidars -> SUBSET Options]
      /\ connect_state \in [Lidars -> {"Off", "Sampling"}]
  BY DEF CfgInv, CfgTypes
<1>3. /\ asked' \in [Lidars -> [Options -> Nat]]
      /\ \A m \in Lidars : (\E p \in Options : asked'[m][p] > 0) => \E p \in Options : asked[m][p] > 0
  BY <1>1, AnswersAreCounted DEF CfgInv
<1>4. CfgTypes'
  BY <1>1, <1>2, <1>3 DEF CfgTypes
<1>5. \A m \in Lidars : ~Announces(m) /\ ~Announces(m)'
  BY <1>1 DEF Announces
<1>6. \A m \in Lidars : m # l => /\ set_bits'[m] = set_bits[m] /\ acknowledged'[m] = acknowledged[m]
                                 /\ connect_state'[m] = connect_state[m]
  BY <1>1, <1>2
<1>7. /\ set_bits'[l] = set_bits[l] \ {o} /\ acknowledged'[l] = acknowledged[l] \union {o}
      /\ connect_state'[l] = IF set_bits[l] \ {o} = {} THEN "Sampling" ELSE connect_state[l]
  BY <1>1, <1>2
<1>8. ASSUME NEW m \in Lidars PROVE AnswerInv(m)'
  <2>1. CASE m # l
    BY <1>3, <1>5, <1>6, <2>1 DEF CfgInv, AnswerInv
  <2>2. CASE m = l
    <3>1. Wanted(l) \subseteq set_bits[l] \union acknowledged[l]
      BY <1>1, <1>5 DEF CfgInv, AnswerInv
    <3>2. connect_state[l] = "Sampling" => Wanted(l) \subseteq acknowledged[l]
      BY DEF CfgInv, AnswerInv
    <3>3. connect_state'[l] = "Sampling" => Wanted(l) \subseteq acknowledged'[l]
      BY <3>1, <3>2, <1>7
    <3>4. Wanted(l) \subseteq set_bits'[l] \union acknowledged'[l]
      BY <3>1, <1>7
    <3> QED BY <2>2, <3>3, <3>4, <1>5 DEF AnswerInv
  <2> QED BY <2>1, <2>2
<1> QED BY <1>4, <1>8 DEF CfgInv

LEMMA OtherAnswerKeeps ==
  ASSUME CfgInv, NEW l \in Lidars, NEW o \in Options, OptionRefused(l, o) \/ TimedOut(l, o)
  PROVE  CfgInv'
<1>1. /\ asked[l][o] > 0 /\ asked' \in {Answered(l, o), [Answered(l, o) EXCEPT ![l][o] = @ + 1]}
      /\ UNCHANGED <<set_bits, connect_state, announcing, acknowledged>>
  BY DEF OptionRefused, TimedOut
<1>2. /\ asked' \in [Lidars -> [Options -> Nat]]
      /\ \A m \in Lidars : (\E p \in Options : asked'[m][p] > 0) => \E p \in Options : asked[m][p] > 0
  BY <1>1, AnswersAreCounted DEF CfgInv
<1> QED BY <1>1, <1>2 DEF CfgInv, CfgTypes, AnswerInv, Announces

\* For every set of lidars and options, and every order of announcements, answers and
\* timeouts: a lidar's data leaves the driver only once the lidar has confirmed all its
\* options (LidarInfoChangeCallback and the Set...Callback functions).
THEOREM SamplingCorrect == CfgSpec => []SamplingMeansConfigured
<1>1. CfgInv /\ [CfgNext]_cfgVars => CfgInv'
  <2> SUFFICES ASSUME CfgInv, [CfgNext]_cfgVars PROVE CfgInv'
    OBVIOUS
  <2>1. CASE UNCHANGED cfgVars
    BY <2>1 DEF cfgVars, CfgInv, CfgTypes, AnswerInv, Announces
  <2>2. ASSUME NEW l \in Lidars, LidarInfoChangeCallback(l) PROVE CfgInv'
    BY <2>2, AnnounceKeeps
  <2>3. CASE RequestOption
    BY <2>3, RequestKeeps
  <2>4. ASSUME NEW l \in Lidars, NEW o \in Options,
               OptionConfirmed(l, o) \/ OptionRefused(l, o) \/ TimedOut(l, o)
        PROVE  CfgInv'
    BY <2>4, ConfirmKeeps, OtherAnswerKeeps
  <2> QED BY <2>1, <2>2, <2>3, <2>4 DEF CfgNext
<1>2. CfgInv => SamplingMeansConfigured
  BY DEF CfgInv, AnswerInv, SamplingMeansConfigured
<1> QED BY <1>1, <1>2, CfgInvInit, PTL DEF CfgSpec

-----------------------------------------------------------------------------
(* The packet queues of the lidar driver.                                    *)

Indices == 0..(IndexRange - 1)
\* The n-th index from r on.
At(r, n) == (r + n) % IndexRange

\* The range of the indices is a multiple of the queue's size.
LEMMA StreamConstants ==
  /\ QueueSize \in Nat \ {0} /\ IndexRange \in Nat \ {0} /\ QueueSize < IndexRange
  /\ lidar_count_ \in Nat
  /\ \E k \in Nat : IndexRange = QueueSize * k
<1>1. QueueSize \in Nat \ {0} /\ lidar_count_ \in Nat
  BY StreamAssumption
<1>2. PICK k \in 2 .. IndexRange : IndexRange = k * QueueSize
  BY StreamAssumption
<1>3. k \in Nat /\ k >= 2
  BY <1>2
<1>4. k * QueueSize \in Nat /\ k * QueueSize = (k - 2) * QueueSize + 2 * QueueSize
      /\ (k - 2) * QueueSize \in Nat /\ k * QueueSize = QueueSize * k
  BY <1>1, <1>3
<1> QED BY <1>1, <1>2, <1>3, <1>4

\* So the slot of an index does not depend on whether it has wrapped round.
LEMMA SlotOfRemainder ==
  ASSUME NEW x \in Int
  PROVE  Slot(x % IndexRange) = x % QueueSize /\ Slot(x) \in 0..(QueueSize - 1)
<1>1. PICK k \in Nat : IndexRange = QueueSize * k
  BY StreamConstants
<1> DEFINE p == x \div IndexRange
           y == x % IndexRange
<1>2. QueueSize \in Nat \ {0} /\ IndexRange \in Nat \ {0}
  BY StreamConstants
<1>3. p \in Int /\ y \in Int /\ y = x - IndexRange * p
  BY <1>2, Remainder
<1> HIDE DEF p, y
<1> DEFINE j == k * p
<1>4. j \in Int /\ QueueSize * j = IndexRange * p
  BY <1>1, <1>2, <1>3
<1>5. y = x - QueueSize * j
  BY <1>3, <1>4
<1> HIDE DEF j
<1>6. y % QueueSize = x % QueueSize
  BY <1>2, <1>4, <1>5, TurnsBackDoNotCount
<1>7. x % QueueSize \in 0..(QueueSize - 1)
  BY <1>2, Remainder
<1> QED BY <1>6, <1>7 DEF y, Slot

\* The ring's indices: how many are in use after a push and after a pop, and
\* which.
LEMMA RingIndices ==
  ASSUME NEW r \in Indices, NEW w \in Indices
  PROVE  /\ Used(r, w) \in Nat /\ Used(r, w) < IndexRange
         /\ Succ(r) \in Indices /\ Succ(w) \in Indices
         /\ Used(r, w) + 1 < IndexRange => Used(r, Succ(w)) = Used(r, w) + 1
         /\ Used(r, w) > 0 => Used(Succ(r), w) = Used(r, w) - 1
         /\ Used(r, w) = 0 <=> r = w
         /\ Used(r, w) = 1 => r = (w - 1) % IndexRange
         /\ At(r, Used(r, w)) = w
<1> DEFINE m == IndexRange
           u == (w - r) % m
<1>1. m \in Nat \ {0} /\ r \in Int /\ w \in Int /\ r \in 0..(m - 1) /\ w \in 0..(m - 1)
  BY StreamConstants DEF Indices
<1> HIDE DEF m
<1>2. u \in 0..(m - 1) /\ u \in Int
  BY <1>1, Remainder
<1>3. (r + 1) % m \in 0..(m - 1) /\ (w + 1) % m \in 0..(m - 1)
  BY <1>1, Remainder
<1>4. u + 1 < m => (((w + 1) % m) - r) % m = u + 1
  <2> SUFFICES ASSUME u + 1 < m PROVE (((w + 1) % m) - r) % m = u + 1
    OBVIOUS
  <2>1. (-r) \in Int /\ (w + 1) \in Int /\ (w - r) \in Int
    BY <1>1
  <2>2. (((w + 1) % m) + (-r)) % m = ((w + 1) + (-r)) % m
    BY <1>1, <2>1, InnerRemainder
  <2>3. ((w + 1) % m) + (-r) = ((w + 1) % m) - r /\ (w + 1) + (-r) = (w - r) + 1
    BY <1>1, <1>3
  <2>4. (u + 1) % m = ((w - r) + 1) % m
    <3> DEFINE z == w - r
    <3>1. z \in Int
      BY <2>1
    <3> HIDE DEF z
    <3>2. \A x, d \in Int : ((x % m) + d) % m = (x + d) % m
      BY <1>1, InnerRemainder
    <3>3. 1 \in Int
      OBVIOUS
    <3>4. ((z % m) + 1) % m = (z + 1) % m
      BY <3>1, <3>2, <3>3, Zenon
    <3> QED BY <3>4 DEF z
  <2> HIDE DEF u
  <2>5. (u + 1) % m = u + 1
    BY <1>1, <1>2, SmallRemainder
  <2> QED BY <2>2, <2>3, <2>4, <2>5
<1>5. u > 0 => (w - ((r + 1) % m)) % m = u - 1
  <2> SUFFICES ASSUME u > 0 PROVE (w - ((r + 1) % m)) % m = u - 1
    OBVIOUS
  <2>1. (r + 1) \in Int /\ (w - r) \in Int /\ (-1) \in Int
    BY <1>1
  <2>2. (w - ((r + 1) % m)) % m = (w - (r + 1)) % m
    BY <1>1, <2>1, InnerRemainder
  <2>3. (u + (-1)) % m = ((w - r) + (-1)) % m
    BY <1>1, <2>1, InnerRemainder
  <2>4. w - (r + 1) = (w - r) + (-1)
    BY <1>1
  <2> HIDE DEF u
  <2>5. u + (-1) = u - 1 /\ u - 1 \in 0..(m - 1)
    BY <1>1, <1>2
  <2>6. (u - 1) % m = u - 1
    BY <1>1, <2>5, SmallRemainder
  <2> QED BY <2>2, <2>3, <2>4, <2>5, <2>6
<1>6. (r + u) % m = w
  <2>1. (w - r) \in Int
    BY <1>1
  <2>2. (u + r) % m = ((w - r) + r) % m
    BY <1>1, <2>1, InnerRemainder
  <2>3. (w - r) + r = w
    BY <1>1
  <2> HIDE DEF u
  <2>4. u + r = r + u
    BY <1>1, <1>2
  <2> QED BY <1>1, <2>2, <2>3, <2>4, SmallRemainder
<1>7. u = 0 <=> r = w
  <2>1. CASE u = 0
    <3>1. r + u = r
      BY <1>1, <2>1
    <3>2. r % m = r
      BY <1>1, SmallRemainder
    <3> HIDE DEF u
    <3> QED BY <1>6, <2>1, <3>1, <3>2
  <2>2. CASE r = w
    <3>1. w - r = 0 /\ 0 \in 0..(m - 1)
      BY <1>1, <2>2
    <3> QED BY <1>1, <2>2, <3>1, SmallRemainder
  <2> QED BY <2>1, <2>2
<1>8. u = 1 => r = (w - 1) % m
  <2> SUFFICES ASSUME u = 1 PROVE r = (w - 1) % m
    OBVIOUS
  <2>0. u = 1
    OBVIOUS
  <2> HIDE DEF u
  <2>1. (r + 1) % m = w
    BY <1>6, <2>0
  <2>2. (((r + 1) % m) + (-1)) % m = ((r + 1) + (-1)) % m
    <3>1. (r + 1) \in Int /\ (-1) \in Int
      BY <1>1
    <3> QED BY <1>1, <3>1, InnerRemainder
  <2>3. w + (-1) = w - 1 /\ (r + 1) + (-1) = r
    BY <1>1
  <2> QED BY <1>1, <2>1, <2>2, <2>3, SmallRemainder
<1> QED BY <1>1, <1>2, <1>3, <1>4, <1>5, <1>6, <1>7, <1>8 DEF Used, Succ, At, Indices, m

\* Where the used indices are: never in the slot that is written next.
LEMMA RingSlots ==
  ASSUME NEW r \in Indices, NEW w \in Indices, NEW n \in Nat
  PROVE  /\ At(r, n) \in Int /\ Slot(At(r, n)) \in 0..(QueueSize - 1)
         /\ Slot(w) \in 0..(QueueSize - 1) /\ At(r, 0) = r
         /\ At(Succ(r), n) = At(r, n + 1)
         /\ n < Used(r, w) /\ Used(r, w) < QueueSize => Slot(At(r, n)) # Slot(w)
<1> DEFINE m == IndexRange
           u == Used(r, w)
<1>1. m \in Nat \ {0} /\ r \in Int /\ w \in Int /\ r \in 0..(m - 1) /\ QueueSize \in Nat \ {0}
  BY StreamConstants DEF Indices
<1>2. u \in Nat /\ At(r, u) = w
  BY RingIndices
<1> HIDE DEF m, u
<1>3. At(r, n) \in Int /\ Slot(At(r, n)) \in 0..(QueueSize - 1) /\ Slot(w) \in 0..(QueueSize - 1)
  <2>1. (r + n) % m \in Int
    BY <1>1, Remainder
  <2>2. At(r, n) \in Int
    BY <2>1 DEF At, m
  <2> QED BY <1>1, <2>2, SlotOfRemainder
<1>4. At(r, 0) = r
  <2>1. r + 0 = r
    BY <1>1
  <2> QED BY <1>1, <2>1, SmallRemainder DEF At, m
<1>5. At(Succ(r), n) = At(r, n + 1)
  <2>1. (r + 1) \in Int
    BY <1>1
  <2>2. (((r + 1) % m) + n) % m = ((r + 1) + n) % m
    <3> DEFINE z == r + 1
    <3>1. z \in Int
      BY <2>1
    <3> HIDE DEF z
    <3>2. n \in Int
      OBVIOUS
    <3>3. \A x, d \in Int : ((x % m) + d) % m = (x + d) % m
      BY <1>1, InnerRemainder
    <3>4. ((z % m) + n) % m = (z + n) % m
      BY <3>1, <3>2, <3>3, Zenon
    <3> QED BY <3>4 DEF z
  <2>3. (r + 1) + n = r + (n + 1)
    BY <1>1
  <2> QED BY <2>2, <2>3 DEF At, Succ, m
<1>6. ASSUME n < u, u < QueueSize PROVE Slot(At(r, n)) # Slot(w)
  <2>1. (r + n) \in Int /\ (r + u) \in Int /\ u - n \in 1..(QueueSize - 1)
    BY <1>1, <1>2, <1>6
  <2>2. ((r + n) + (u - n)) % QueueSize # (r + n) % QueueSize
    BY <1>1, <2>1, EqualRemainders
  <2>3. (r + n) + (u - n) = r + u
    BY <1>1, <1>2
  <2>4. Slot(At(r, n)) = (r + n) % QueueSize /\ Slot(At(r, u)) = (r + u) % QueueSize
    BY <2>1, SlotOfRemainder DEF At
  <2> QED BY <1>2, <2>2, <2>3, <2>4
<1> QED BY <1>3, <1>4, <1>5, <1>6 DEF u

StreamTypes ==
    /\ sampling \subseteq Sources
    /\ rd_idx \in [Sources -> Indices] /\ wr_idx \in [Sources -> Indices]
    /\ storage \in [Sources -> [0..(QueueSize - 1) -> Indices]]
    /\ poll.at \in {"polling", "draining", "copy"} => poll.lidar \in Sources
    /\ poll \in [at : {"return", "ended", "wait", "next", "polling", "draining", "copy"},
                 lidar : 0..lidar_count_]
    /\ store.at \in {"write", "count", "full", "signal"} => store.lidar \in Sources
    /\ store \in [at : {"idle", "write", "count", "full", "signal"}, lidar : Sources \union {Nobody}]

InUse(l) == Used(rd_idx[l], wr_idx[l])

Keeps(l) == \A n \in Nat : n < InUse(l) =>
               storage[l][Slot(At(rd_idx[l], n))] = At(rd_idx[l], n)

\* The ring of a lidar is never more than full, has room for a packet that is being
\* written, and holds the one that is being copied, also when the last store to
\* wr_idx is not visible yet.
RingInv(l) ==
    /\ InUse(l) <= QueueSize
    /\ store.at = "write" /\ store.lidar = l => InUse(l) < QueueSize
    /\ poll.at = "copy" /\ poll.lidar = l => InUse(l) > 0
    /\ buffered = l => InUse(l) > 0
    /\ buffered = l /\ poll.at = "copy" /\ poll.lidar = l => InUse(l) > 1
    /\ Keeps(l)

StreamInv == StreamTypes /\ \A l \in Sources : RingInv(l)

LEMMA StreamInvInit == StreamInit => StreamInv
<1> SUFFICES ASSUME StreamInit PROVE StreamInv
  OBVIOUS
<1>1. QueueSize \in Nat \ {0} /\ IndexRange \in Nat \ {0} /\ lidar_count_ \in Nat /\ 0 \in Indices
  BY StreamConstants DEF Indices
<1>2. /\ store = [at |-> "idle", lidar |-> Nobody] /\ poll = [at |-> "return", lidar |-> 0]
      /\ sampling = {} /\ buffered = Nobody
      /\ rd_idx = [l \in Sources |-> 0] /\ wr_idx = [l \in Sources |-> 0]
      /\ storage = [l \in Sources |-> [s \in 0 .. QueueSize - 1 |-> 0]]
  BY DEF StreamInit
<1>3. StreamTypes
  <2>1. storage \in [Sources -> [0..(QueueSize - 1) -> Indices]]
    BY <1>1, <1>2
  <2>2. rd_idx \in [Sources -> Indices] /\ wr_idx \in [Sources -> Indices]
    BY <1>1, <1>2
  <2> QED BY <1>1, <1>2, <2>1, <2>2 DEF StreamTypes
<1>4. Nobody \notin Sources
  BY <1>1 DEF Nobody, Sources
<1>5. \A l \in Sources : InUse(l) = 0
  BY <1>1, <1>2, RingIndices DEF InUse
<1>6. \A l \in Sources : RingInv(l)
  BY <1>1, <1>2, <1>4, <1>5 DEF RingInv, Keeps
<1> QED BY <1>3, <1>6 DEF StreamInv

LEMMA UsedIsNat ==
  ASSUME StreamTypes, NEW l \in Sources
  PROVE  /\ rd_idx[l] \in Indices /\ wr_idx[l] \in Indices /\ InUse(l) \in Nat
         /\ QueueSize \in Nat \ {0} /\ QueueSize < IndexRange /\ IndexRange \in Nat
<1>1. rd_idx[l] \in Indices /\ wr_idx[l] \in Indices
  BY DEF StreamTypes
<1> QED BY <1>1, RingIndices, StreamConstants DEF InUse

\* The packet goes to a slot that no used index has.
LEMMA PushKeeps ==
  ASSUME StreamInv, QueuePushAny
  PROVE  StreamInv'
<1>0. store.lidar \in Sources /\ store.at = "write"
  BY DEF QueuePushAny, StreamInv, StreamTypes
<1> PICK l \in Sources : l = store.lidar
  BY <1>0
<1> DEFINE r == rd_idx[l]
           w == wr_idx[l]
<1>1. /\ store.at = "write" /\ store' = [store EXCEPT !.at = "count"]
      /\ storage' = [storage EXCEPT ![l][Slot(wr_idx[l])] = wr_idx[l]]
      /\ wr_idx' = [wr_idx EXCEPT ![l] = Succ(@)]
      /\ buffered' = l \/ buffered' = buffered
      /\ UNCHANGED <<sampling, rd_idx, poll>>
  BY DEF QueuePushAny
<1>2. l \in Sources /\ RingInv(l)
  BY <1>1 DEF StreamInv, StreamTypes
<1>3. /\ store \in [at : {"idle", "write", "count", "full", "signal"}, lidar : Sources \union {Nobody}]
      /\ wr_idx \in [Sources -> Indices]
      /\ storage \in [Sources -> [0..(QueueSize - 1) -> Indices]]
  BY DEF StreamInv, StreamTypes
<1>4. store'.at = "count" /\ store'.lidar = l /\ store' \in [at : {"idle", "write", "count", "full", "signal"}, lidar : Sources \union {Nobody}]
  BY <1>1, <1>3
<1>5. /\ r \in Indices /\ w \in Indices /\ InUse(l) \in Nat /\ QueueSize \in Nat \ {0}
      /\ QueueSize < IndexRange /\ IndexRange \in Nat
  BY <1>2, UsedIsNat DEF StreamInv
<1>6. InUse(l) < QueueSize
  BY <1>1, <1>2 DEF RingInv
<1>7. /\ wr_idx'[l] = Succ(w) /\ Succ(w) \in Indices
      /\ \A m \in Sources : m # l => wr_idx'[m] = wr_idx[m]
      /\ wr_idx' \in [Sources -> Indices]
  <2>1. Succ(w) \in Indices
    BY <1>5, RingIndices
  <2> QED BY <1>1, <1>2, <1>3, <2>1
<1>8. InUse(l)' = InUse(l) + 1
  <2>1. Used(r, w) + 1 < IndexRange
    BY <1>5, <1>6 DEF InUse
  <2>2. Used(r, Succ(w)) = Used(r, w) + 1
    BY <1>5, <2>1, RingIndices
  <2> QED BY <1>1, <1>7, <2>2 DEF InUse
<1>9. Slot(w) \in 0..(QueueSize - 1)
  BY <1>5, RingSlots
<1>10. /\ storage'[l] = [storage[l] EXCEPT ![Slot(w)] = w]
       /\ \A m \in Sources : m # l => storage'[m] = storage[m]
       /\ storage' \in [Sources -> [0..(QueueSize - 1) -> Indices]]
  BY <1>1, <1>2, <1>3, <1>5, <1>9
<1>11. StreamTypes'
  BY <1>1, <1>2, <1>4, <1>7, <1>10 DEF StreamInv, StreamTypes
<1>12. Keeps(l)'
  <2> SUFFICES ASSUME NEW n \in Nat, n < InUse(l)'
               PROVE  storage'[l][Slot(At(r, n))] = At(r, n)
    BY <1>1 DEF Keeps
  <2>1. /\ Slot(At(r, n)) \in 0..(QueueSize - 1)
        /\ n < Used(r, w) /\ Used(r, w) < QueueSize => Slot(At(r, n)) # Slot(w)
        /\ At(r, Used(r, w)) = w
    <3>1. At(r, Used(r, w)) = w
      BY <1>5, RingIndices
    <3> QED BY <1>5, <3>1, RingSlots
  <2>2. CASE n < InUse(l)
    <3>1. Slot(At(r, n)) # Slot(w)
      BY <1>6, <2>1, <2>2 DEF InUse
    <3>2. storage[l][Slot(At(r, n))] = At(r, n)
      BY <1>2, <2>2 DEF RingInv, Keeps
    <3>3. storage[l] \in [0..(QueueSize - 1) -> Indices]
      BY <1>2, <1>3
    <3> QED BY <1>10, <2>1, <3>1, <3>2, <3>3
  <2>3. CASE n = InUse(l)
    <3>1. At(r, n) = w
      BY <2>1, <2>3 DEF InUse
    <3>2. storage[l] \in [0..(QueueSize - 1) -> Indices]
      BY <1>2, <1>3
    <3> QED BY <1>9, <1>10, <3>1, <3>2
  <2> QED BY <1>5, <1>8, <2>2, <2>3
<1>13. RingInv(l)'
  <2>1. (poll.at = "copy" /\ poll.lidar = l => InUse(l) > 0)
    BY <1>2 DEF RingInv
  <2>2. InUse(l)' <= QueueSize /\ InUse(l)' > 0 /\ (InUse(l) > 0 => InUse(l)' > 1)
    BY <1>5, <1>6, <1>8
  <2> QED BY <1>1, <1>4, <1>12, <2>1, <2>2 DEF RingInv
<1>14. ASSUME NEW m \in Sources, m # l PROVE RingInv(m)'
  <2>1. RingInv(m)
    BY DEF StreamInv
  <2>2. InUse(m)' = InUse(m) /\ (Keeps(m) => Keeps(m)')
    BY <1>1, <1>7, <1>10, <1>14 DEF InUse, Keeps
  <2> QED BY <1>1, <1>4, <1>14, <2>1, <2>2 DEF RingInv
<1> QED BY <1>11, <1>13, <1>14 DEF StreamInv

\* The first of the used indices is given back.
LEMMA PopKeeps ==
  ASSUME StreamInv, Pop
  PROVE  StreamInv'
<1>0. poll.lidar \in Sources /\ poll.at = "copy"
  BY DEF Pop, StreamInv, StreamTypes
<1> PICK l \in Sources : l = poll.lidar
  BY <1>0
<1> DEFINE r == rd_idx[l]
           w == wr_idx[l]
<1>1. /\ poll.at = "copy"
      /\ rd_idx' = [rd_idx EXCEPT ![l] = Succ(@)]
      /\ poll' = [poll EXCEPT !.at = IF stream = "cloud" THEN "draining" ELSE "polling"]
      /\ UNCHANGED <<sampling, wr_idx, storage, buffered, store>>
  BY DEF Pop
<1>2. l \in Sources /\ RingInv(l)
  BY <1>1 DEF StreamInv, StreamTypes
<1>3. /\ poll \in [at : {"return", "ended", "wait", "next", "polling", "draining", "copy"},
                   lidar : 0..lidar_count_]
      /\ rd_idx \in [Sources -> Indices]
  BY DEF StreamInv, StreamTypes
<1>4. /\ poll'.at \in {"draining", "polling"} /\ poll'.lidar = l
      /\ poll' \in [at : {"return", "ended", "wait", "next", "polling", "draining", "copy"},
                    lidar : 0..lidar_count_]
  BY <1>1, <1>3
<1>5. /\ r \in Indices /\ w \in Indices /\ InUse(l) \in Nat
  BY <1>2, UsedIsNat DEF StreamInv
<1>6. InUse(l) > 0 /\ (buffered = l => InUse(l) > 1)
  BY <1>1, <1>2 DEF RingInv
<1>7. /\ rd_idx'[l] = Succ(r) /\ Succ(r) \in Indices
      /\ \A m \in Sources : m # l => rd_idx'[m] = rd_idx[m]
      /\ rd_idx' \in [Sources -> Indices]
  <2>1. Succ(r) \in Indices
    BY <1>5, RingIndices
  <2> QED BY <1>1, <1>2, <1>3, <2>1
<1>8. InUse(l)' = InUse(l) - 1
  <2>1. Used(Succ(r), w) = Used(r, w) - 1
    BY <1>5, <1>6, RingIndices DEF InUse
  <2> QED BY <1>1, <1>7, <2>1 DEF InUse
<1>9. StreamTypes'
  BY <1>1, <1>2, <1>4, <1>7 DEF StreamInv, StreamTypes
<1>10. Keeps(l)'
  <2> SUFFICES ASSUME NEW n \in Nat, n < InUse(l) - 1
               PROVE  storage[l][Slot(At(Succ(r), n))] = At(Succ(r), n)
    BY <1>1, <1>7, <1>8 DEF Keeps
  <2>1. At(Succ(r), n) = At(r, n + 1)
    BY <1>5, RingSlots
  <2>2. n + 1 \in Nat /\ n + 1 < InUse(l)
    BY <1>5
  <2> QED BY <1>2, <2>1, <2>2 DEF RingInv, Keeps
<1>11. RingInv(l)'
  <2>1. /\ InUse(l) <= QueueSize
        /\ store.at = "write" /\ store.lidar = l => InUse(l) < QueueSize
        /\ QueueSize \in Nat
    BY <1>2, StreamConstants DEF RingInv
  <2>2. /\ InUse(l)' <= QueueSize /\ (InUse(l) < QueueSize => InUse(l)' < QueueSize)
        /\ (InUse(l) > 1 => InUse(l)' > 0)
    BY <1>5, <1>8, <2>1
  <2> QED BY <1>1, <1>4, <1>6, <1>10, <2>1, <2>2 DEF RingInv
<1>12. ASSUME NEW m \in Sources, m # l PROVE RingInv(m)'
  <2>1. RingInv(m)
    BY DEF StreamInv
  <2>2. InUse(m)' = InUse(m) /\ (Keeps(m) => Keeps(m)')
    BY <1>1, <1>7, <1>12 DEF InUse, Keeps
  <2> QED BY <1>1, <1>4, <1>12, <2>1, <2>2 DEF RingInv
<1> QED BY <1>9, <1>11, <1>12 DEF StreamInv

\* The other steps leave the ring alone; what they may do is to let the threads
\* at it, a storing thread when it is not full and the poll thread when it is not empty.
LEMMA OtherStepKeeps ==
  ASSUME StreamInv, StreamTypes',
         UNCHANGED <<rd_idx, wr_idx, storage>>,
         buffered' \in {buffered, Nobody},
         ASSUME NEW l \in Sources, store'.at = "write", store'.lidar = l
         PROVE  InUse(l) < QueueSize,
         ASSUME NEW l \in Sources, poll'.at = "copy", poll'.lidar = l
         PROVE  InUse(l) > 0 /\ (buffered = l => InUse(l) > 1)
  PROVE  StreamInv'
<1> SUFFICES ASSUME NEW l \in Sources PROVE RingInv(l)'
  BY DEF StreamInv
<1>1. Nobody # l
  BY StreamConstants DEF Nobody, Sources
<1>2. InUse(l)' = InUse(l) /\ (Keeps(l)' <=> Keeps(l))
  BY DEF InUse, Keeps
<1>3. RingInv(l)
  BY DEF StreamInv
<1> QED BY <1>1, <1>2, <1>3 DEF RingInv

\* The queue that does not look empty is not, even if the last store is not seen.
LEMMA PollingKeeps ==
  ASSUME StreamInv, Polling
  PROVE  StreamInv'
<1> DEFINE l == poll.lidar
           empty == QueueIsEmpty(rd_idx[l], Seen(l))
<1>1. /\ poll.at \in {"polling", "draining"}
      /\ UNCHANGED <<sampling, rd_idx, wr_idx, storage, buffered, store>>
  BY DEF Polling
<1>2. l \in Sources /\ l \in 0..lidar_count_ /\ lidar_count_ \in Nat
  BY <1>1, StreamConstants DEF StreamInv, StreamTypes
<1>3. \/ poll' = [poll EXCEPT !.at = "copy"] /\ ~empty
      \/ poll' = [poll EXCEPT !.at = "polling"]
      \/ poll' = [at |-> "next", lidar |-> l + 1]
  BY DEF Polling
<1>4. poll \in [at : {"return", "ended", "wait", "next", "polling", "draining", "copy"},
                lidar : 0..lidar_count_]
  BY DEF StreamInv, StreamTypes
<1> HIDE DEF empty
<1>5. /\ poll' \in [at : {"return", "ended", "wait", "next", "polling", "draining", "copy"},
                    lidar : 0..lidar_count_]
      /\ poll'.at \in {"polling", "draining", "copy"} => poll'.lidar = l
      /\ poll'.at = "copy" => ~empty
  <2>1. l + 1 \in 0..lidar_count_
    BY <1>2 DEF Sources
  <2> QED BY <1>3, <1>4, <2>1
<1>6. StreamTypes'
  BY <1>1, <1>2, <1>5 DEF StreamInv, StreamTypes
<1>7. ASSUME ~empty PROVE InUse(l) > 0 /\ (buffered = l => InUse(l) > 1)
  <2>1. /\ rd_idx[l] \in Indices /\ wr_idx[l] \in Indices /\ InUse(l) \in Nat
    BY <1>2, UsedIsNat DEF StreamInv
  <2>2. /\ InUse(l) = 0 <=> rd_idx[l] = wr_idx[l]
        /\ InUse(l) = 1 => rd_idx[l] = (wr_idx[l] - 1) % IndexRange
    BY <2>1, RingIndices DEF InUse
  <2>3. buffered = l => InUse(l) > 0
    BY <1>2 DEF StreamInv, RingInv
  <2>4. CASE buffered = l
    BY <1>7, <2>1, <2>2, <2>3, <2>4 DEF empty, QueueIsEmpty, Seen
  <2>5. CASE buffered # l
    BY <1>7, <2>1, <2>2, <2>5 DEF empty, QueueIsEmpty, Seen
  <2> QED BY <2>4, <2>5
<1>8. ASSUME NEW m \in Sources, store'.at = "write", store'.lidar = m
      PROVE  InUse(m) < QueueSize
  BY <1>1, <1>8 DEF StreamInv, RingInv
<1>9. ASSUME NEW m \in Sources, poll'.at = "copy", poll'.lidar = m
      PROVE  InUse(m) > 0 /\ (buffered = m => InUse(m) > 1)
  BY <1>5, <1>7, <1>9
<1> QED BY <1>1, <1>6, <1>8, <1>9, OtherStepKeeps

LEMMA OfferKeeps ==
  ASSUME StreamInv, NEW l \in Sources, Offer(l)
  PROVE  StreamInv'
<1> DEFINE full == QueueIsFull(rd_idx[l], wr_idx[l])
<1>1. /\ store' = [at |-> IF full THEN "full" ELSE "write", lidar |-> l]
      /\ UNCHANGED <<sampling, rd_idx, wr_idx, storage, buffered, poll>>
  BY DEF Offer
<1>2. full <=> InUse(l) > QueueSize - 1
  BY DEF QueueIsFull, InUse
<1>3. InUse(l) \in Nat /\ QueueSize \in Nat
  BY UsedIsNat DEF StreamInv
<1> HIDE DEF full
<1>4. /\ store' \in [at : {"idle", "write", "count", "full", "signal"}, lidar : Sources \union {Nobody}]
      /\ store'.lidar = l /\ (store'.at = "write" => ~full)
  BY <1>1
<1>5. StreamTypes'
  BY <1>1, <1>4 DEF StreamInv, StreamTypes
<1>6. ASSUME NEW m \in Sources, store'.at = "write", store'.lidar = m
      PROVE  InUse(m) < QueueSize
  BY <1>2, <1>3, <1>4, <1>6
<1>7. ASSUME NEW m \in Sources, poll'.at = "copy", poll'.lidar = m
      PROVE  InUse(m) > 0 /\ (buffered = m => InUse(m) > 1)
  BY <1>1, <1>7 DEF StreamInv, RingInv
<1> QED BY <1>1, <1>5, <1>6, <1>7, OtherStepKeeps

\* No other step starts to write or to copy.
LEMMA IdleStepKeeps ==
  ASSUME StreamInv,
         \/ ReadCount \/ Signal \/ StoreBecomesVisible \/ RequestExit \/ Join
         \/ Wait \/ NextLidar \/ PollAgain \/ \E l \in Sources : BecomesSampling(l)
  PROVE  StreamInv'
<1>0. /\ store \in [at : {"idle", "write", "count", "full", "signal"}, lidar : Sources \union {Nobody}]
      /\ poll \in [at : {"return", "ended", "wait", "next", "polling", "draining", "copy"},
                   lidar : 0..lidar_count_]
      /\ lidar_count_ \in Nat /\ sampling \subseteq Sources
  BY StreamConstants DEF StreamInv, StreamTypes
<1>1. /\ UNCHANGED <<rd_idx, wr_idx, storage>> /\ buffered' \in {buffered, Nobody}
      /\ sampling' \subseteq Sources
  <2>1. ASSUME NEW l \in Sources, BecomesSampling(l)
        PROVE  UNCHANGED <<rd_idx, wr_idx, storage, buffered>> /\ sampling' \subseteq Sources
    BY <1>0, <2>1 DEF BecomesSampling
  <2>2. CASE ReadCount \/ Signal \/ StoreBecomesVisible \/ RequestExit \/ Join
    BY <1>0, <2>2 DEF ReadCount, Signal, StoreBecomesVisible, RequestExit, Join
  <2>3. CASE Wait \/ NextLidar \/ PollAgain
    BY <1>0, <2>3 DEF Wait, NextLidar, PollAgain
  <2> QED BY <2>1, <2>2, <2>3
<1>2. \/ UNCHANGED store
      \/ /\ store.at \in {"count", "full", "signal"}
         /\ store' \in {[store EXCEPT !.at = "signal"], [at |-> "idle", lidar |-> Nobody]}
  <2>1. ASSUME NEW l \in Sources, BecomesSampling(l) PROVE UNCHANGED store
    BY <2>1 DEF BecomesSampling
  <2>2. CASE ReadCount \/ Signal
    BY <2>2 DEF ReadCount, Signal
  <2>3. CASE StoreBecomesVisible \/ RequestExit \/ Join \/ Wait \/ NextLidar \/ PollAgain
    BY <2>3 DEF StoreBecomesVisible, RequestExit, Join, Wait, NextLidar, PollAgain
  <2> QED BY <2>1, <2>2, <2>3
<1>3. /\ store' \in [at : {"idle", "write", "count", "full", "signal"}, lidar : Sources \union {Nobody}]
      /\ store'.at \in {"write", "count", "full", "signal"} => store'.lidar \in Sources
      /\ store'.at = "write" => store' = store
  <2>1. store.at \in {"write", "count", "full", "signal"} => store.lidar \in Sources
    BY DEF StreamInv, StreamTypes
  <2> QED BY <1>0, <1>2, <2>1
<1>4. \/ UNCHANGED poll
      \/ poll' \in {[poll EXCEPT !.at = "ended"], [poll EXCEPT !.at = "return"], [poll EXCEPT !.at = "wait"]}
      \/ poll' \in {[at |-> "next", lidar |-> 0], [at |-> "return", lidar |-> 0]}
      \/ poll.lidar \in sampling /\ poll' = [poll EXCEPT !.at = "polling"]
      \/ poll.at = "next" /\ poll.lidar # lidar_count_ /\ poll' = [poll EXCEPT !.lidar = @ + 1]
  <2>1. ASSUME NEW l \in Sources, BecomesSampling(l) PROVE UNCHANGED poll
    BY <2>1 DEF BecomesSampling
  <2>2. CASE ReadCount \/ Signal \/ StoreBecomesVisible \/ RequestExit \/ Join
    BY <2>2 DEF ReadCount, Signal, StoreBecomesVisible, RequestExit, Join
  <2>3. CASE Wait
    BY <2>3 DEF Wait
  <2>4. CASE NextLidar
    BY <2>4 DEF NextLidar
  <2>5. CASE PollAgain
    BY <2>5 DEF PollAgain
  <2> QED BY <2>1, <2>2, <2>3, <2>4, <2>5
<1>5. /\ poll' \in [at : {"return", "ended", "wait", "next", "polling", "draining", "copy"},
                    lidar : 0..lidar_count_]
      /\ poll'.at \in {"polling", "draining", "copy"} => poll'.lidar \in Sources
      /\ poll'.at = "copy" => poll' = poll
  <2>1. poll.at \in {"polling", "draining", "copy"} => poll.lidar \in Sources
    BY DEF StreamInv, StreamTypes
  <2>2. CASE UNCHANGED poll
    BY <1>0, <2>1, <2>2
  <2>3. CASE poll' \in {[poll EXCEPT !.at = "ended"], [poll EXCEPT !.at = "return"], [poll EXCEPT !.at = "wait"]}
    BY <1>0, <2>3
  <2>4. CASE poll' \in {[at |-> "next", lidar |-> 0], [at |-> "return", lidar |-> 0]}
    BY <1>0, <2>4
  <2>5. CASE poll.lidar \in sampling /\ poll' = [poll EXCEPT !.at = "polling"]
    BY <1>0, <2>5
  <2>6. CASE poll.at = "next" /\ poll.lidar # lidar_count_ /\ poll' = [poll EXCEPT !.lidar = @ + 1]
    BY <1>0, <2>6
  <2> QED BY <1>4, <2>2, <2>3, <2>4, <2>5, <2>6
<1>6. StreamTypes'
  BY <1>1, <1>3, <1>5 DEF StreamInv, StreamTypes
<1>7. ASSUME NEW m \in Sources, store'.at = "write", store'.lidar = m
      PROVE  InUse(m) < QueueSize
  BY <1>3, <1>7 DEF StreamInv, RingInv
<1>8. ASSUME NEW m \in Sources, poll'.at = "copy", poll'.lidar = m
      PROVE  InUse(m) > 0 /\ (buffered = m => InUse(m) > 1)
  BY <1>5, <1>8 DEF StreamInv, RingInv
<1> QED BY <1>1, <1>6, <1>7, <1>8, OtherStepKeeps

LEMMA StreamInvariance == StreamSpec => []StreamInv
<1>1. StreamInv /\ [StreamNext]_streamVars => StreamInv'
  <2> SUFFICES ASSUME StreamInv, [StreamNext]_streamVars PROVE StreamInv'
    OBVIOUS
  <2>1. CASE UNCHANGED streamVars
    BY <2>1 DEF streamVars, StreamInv, StreamTypes, RingInv, Keeps, InUse
  <2>2. ASSUME NEW l \in Sources, Offer(l) PROVE StreamInv'
    BY <2>2, OfferKeeps
  <2>3. CASE QueuePushAny
    BY <2>3, PushKeeps
  <2>4. CASE Polling
    BY <2>4, PollingKeeps
  <2>5. CASE Pop
    BY <2>5, PopKeeps
  <2>6. CASE \/ ReadCount \/ Signal \/ StoreBecomesVisible \/ RequestExit \/ Join
             \/ Wait \/ NextLidar \/ PollAgain \/ \E l \in Sources : BecomesSampling(l)
    BY <2>6, IdleStepKeeps
  <2> QED BY <2>1, <2>2, <2>3, <2>4, <2>5, <2>6 DEF StreamNext, Store, Poll
<1> QED BY <1>1, StreamInvInit, PTL DEF StreamSpec

\* For every size of the queue and every range of its indices that is a multiple of it:
\* the ring keeps what it has taken, also when the indices wrap round, and no slot is
\* copied while it is written (QueuePushAny and QueuePop, with a store to wr_idx that
\* the other thread does not see yet).
THEOREM PacketsCorrect == StreamSpec => []PacketsKeepTheirSlot
<1>1. StreamInv => PacketsKeepTheirSlot
  <2> SUFFICES ASSUME StreamInv PROVE PacketsKeepTheirSlot
    OBVIOUS
  <2>1. ASSUME NEW l \in Sources, NEW n \in 0 .. Used(rd_idx[l], wr_idx[l]) - 1
        PROVE  storage[l][Slot((rd_idx[l] + n) % IndexRange)] = (rd_idx[l] + n) % IndexRange
    <3>1. InUse(l) \in Nat /\ Keeps(l)
      BY UsedIsNat DEF StreamInv, RingInv
    <3>2. n \in Nat /\ n < InUse(l)
      BY <3>1 DEF InUse
    <3> QED BY <3>1, <3>2 DEF Keeps, At
  <2>2. ASSUME poll.at = "copy", store.at = "write", poll.lidar = store.lidar
        PROVE  Slot(rd_idx[poll.lidar]) # Slot(wr_idx[store.lidar])
    <3> DEFINE l == poll.lidar
    <3>1. l \in Sources /\ InUse(l) > 0 /\ InUse(l) < QueueSize
      BY <2>2 DEF StreamInv, StreamTypes, RingInv
    <3>2. rd_idx[l] \in Indices /\ wr_idx[l] \in Indices
      BY <3>1, UsedIsNat DEF StreamInv
    <3>3. At(rd_idx[l], 0) = rd_idx[l] /\ Slot(At(rd_idx[l], 0)) # Slot(wr_idx[l])
      BY <3>1, <3>2, RingSlots DEF InUse
    <3> QED BY <2>2, <3>3
  <2> QED BY <2>1, <2>2 DEF PacketsKeepTheirSlot
<1> QED BY <1>1, StreamInvariance, PTL

\* The numbers of u packets from index r on.
Numbered(r, u) == [n \in 1..u |-> At(r, n - 1)]

\* What waits in the ring are the packets from rd_idx on, in order.
LEMMA RingIsNumbered ==
  ASSUME NEW r \in Indices, NEW u \in Nat, NEW s,
         \A n \in Nat : n < u => s[Slot(At(r, n))] = At(r, n)
  PROVE  [n \in 1..u |-> s[Slot((r + n - 1) % IndexRange)]] = Numbered(r, u)
<1> SUFFICES ASSUME NEW n \in 1..u
             PROVE  s[Slot((r + n - 1) % IndexRange)] = At(r, n - 1)
  BY DEF Numbered
<1>1. r \in Int /\ n - 1 \in Nat /\ n - 1 < u
  BY DEF Indices
<1>2. r + n - 1 = r + (n - 1)
  BY <1>1
<1> QED BY <1>1, <1>2 DEF At

\* The numbered packets are a sequence,
LEMMA NumberedIsSeq ==
  ASSUME NEW r \in Indices, NEW u \in Nat
  PROVE  Numbered(r, u) \in Seq(Int) /\ Len(Numbered(r, u)) = u
<1>1. ASSUME NEW n \in 1..u PROVE At(r, n - 1) \in Int
  <2>1. n - 1 \in Nat
    OBVIOUS
  <2> QED BY <2>1, RingSlots
<1>2. Numbered(r, u) \in [1..u -> Int]
  BY <1>1 DEF Numbered
<1> QED BY <1>2

\* which one more packet prolongs by its number,
LEMMA NumberedGrows ==
  ASSUME NEW r \in Indices, NEW u \in Nat
  PROVE  Numbered(r, u + 1) = Append(Numbered(r, u), At(r, u))
<1> DEFINE q == Numbered(r, u)
           e == At(r, u)
           p == Numbered(r, u + 1)
<1>1. q \in Seq(Int) /\ Len(q) = u /\ p \in Seq(Int) /\ Len(p) = u + 1 /\ e \in Int
  <2>1. u + 1 \in Nat
    OBVIOUS
  <2> QED BY <2>1, NumberedIsSeq, RingSlots
<1>2. ASSUME NEW n \in 1..u PROVE p[n] = q[n]
  BY DEF Numbered
<1>3. p[u + 1] = e
  <2>1. u + 1 \in 1..(u + 1) /\ u + 1 - 1 = u
    OBVIOUS
  <2> QED BY <2>1 DEF Numbered
<1> HIDE DEF p, q, e
<1>4. /\ Append(q, e) \in Seq(Int) /\ Len(Append(q, e)) = u + 1
      /\ \A n \in 1..u : Append(q, e)[n] = q[n]
      /\ Append(q, e)[u + 1] = e
  BY <1>1, AppendProperties
<1>5. \A n \in 1..(u + 1) : p[n] = Append(q, e)[n]
  <2> TAKE n \in 1..(u + 1)
  <2>1. n \in 1..u \/ n = u + 1
    OBVIOUS
  <2> QED BY <1>2, <1>3, <1>4, <2>1
<1>6. p = Append(q, e)
  BY <1>1, <1>4, <1>5, SeqEqual
<1> QED BY <1>6 DEF p, q, e

\* and of which the next index leaves out the first.
LEMMA NumberedShrinks ==
  ASSUME NEW r \in Indices, NEW u \in Nat, u > 0
  PROVE  /\ Numbered(r, u) # <<>>
         /\ Numbered(Succ(r), u - 1) = Tail(Numbered(r, u))
<1> DEFINE q == Numbered(r, u)
           p == Numbered(Succ(r), u - 1)
<1>1. q \in Seq(Int) /\ Len(q) = u /\ p \in Seq(Int) /\ Len(p) = u - 1
  <2>1. u - 1 \in Nat /\ Succ(r) \in Indices
    BY RingIndices
  <2> QED BY <2>1, NumberedIsSeq
<1>2. ASSUME NEW n \in 1..(u - 1)
      PROVE  p[n] = q[n + 1]
  <2>1. n - 1 \in Nat /\ n + 1 \in 1..u /\ n + 1 - 1 = n /\ n - 1 + 1 = n
    OBVIOUS
  <2>2. At(Succ(r), n - 1) = At(r, n - 1 + 1)
    BY <2>1, RingSlots
  <2>3. q[n + 1] = At(r, n + 1 - 1) /\ p[n] = At(Succ(r), n - 1)
    BY <2>1 DEF Numbered
  <2> QED BY <2>1, <2>2, <2>3
<1> HIDE DEF p, q
<1>3. q # <<>>
  BY <1>1
<1>4. /\ Tail(q) \in Seq(Int) /\ Len(Tail(q)) = u - 1
      /\ \A n \in 1..(u - 1) : Tail(q)[n] = q[n + 1]
  BY <1>1, <1>3, HeadTailProperties
<1>5. p = Tail(q)
  BY <1>1, <1>2, <1>4, SeqEqual
<1> QED BY <1>3, <1>5 DEF p, q

\* The packets that wait, by their numbers.
Waiting(l) == Numbered(rd_idx[l], InUse(l))

\* They are what the ring holds, before a step ...
LEMMA WhatWaits ==
  ASSUME StreamInv, NEW l \in Sources
  PROVE  InRing(l) = Waiting(l)
<1>1. rd_idx[l] \in Indices /\ InUse(l) \in Nat
  BY UsedIsNat DEF StreamInv
<1>2. \A n \in Nat : n < InUse(l) => storage[l][Slot(At(rd_idx[l], n))] = At(rd_idx[l], n)
  BY DEF StreamInv, RingInv, Keeps
<1>3. [n \in 1..InUse(l) |-> storage[l][Slot((rd_idx[l] + n - 1) % IndexRange)]] = Waiting(l)
  BY <1>1, <1>2, RingIsNumbered DEF Waiting
<1> QED BY <1>3 DEF InRing, InUse

\* ... and after it.
LEMMA WhatWaitsThen ==
  ASSUME StreamInv', NEW l \in Sources
  PROVE  InRing(l)' = Waiting(l)'
<1>1. rd_idx'[l] \in Indices /\ InUse(l)' \in Nat
  <2>1. rd_idx'[l] \in Indices /\ wr_idx'[l] \in Indices
    BY DEF StreamInv, StreamTypes
  <2> QED BY <2>1, RingIndices DEF InUse
<1>2. \A n \in Nat : n < InUse(l)' =>
         storage'[l][Slot(At(rd_idx'[l], n))] = At(rd_idx'[l], n)
  BY DEF StreamInv, RingInv, Keeps
<1>3. [n \in 1..InUse(l)' |-> storage'[l][Slot((rd_idx'[l] + n - 1) % IndexRange)]] = Waiting(l)'
  BY <1>1, <1>2, RingIsNumbered DEF Waiting
<1> QED BY <1>3 DEF InRing, InUse

\* A push puts the packet behind those that wait.
LEMMA PushPuts ==
  ASSUME StreamInv, StreamInv', QueuePushAny
  PROVE  Queues!Put(store.lidar)
<1> PICK l \in Sources : l = store.lidar
  BY DEF QueuePushAny, StreamInv, StreamTypes
<1>1. /\ store.at = "write" /\ UNCHANGED rd_idx
      /\ wr_idx' = [wr_idx EXCEPT ![l] = Succ(@)]
  BY DEF QueuePushAny
<1>2. wr_idx \in [Sources -> Indices]
  BY DEF StreamInv, StreamTypes
<1>3. /\ rd_idx[l] \in Indices /\ wr_idx[l] \in Indices /\ InUse(l) \in Nat
      /\ QueueSize < IndexRange /\ IndexRange \in Nat /\ QueueSize \in Nat
  BY UsedIsNat DEF StreamInv
<1>4. InUse(l) < QueueSize
  BY <1>1 DEF StreamInv, RingInv
<1>5. InUse(l)' = InUse(l) + 1
  <2>1. Used(rd_idx[l], wr_idx[l]) + 1 < IndexRange
    BY <1>3, <1>4 DEF InUse
  <2>2. Used(rd_idx[l], Succ(wr_idx[l])) = Used(rd_idx[l], wr_idx[l]) + 1
    BY <1>3, <2>1, RingIndices
  <2>3. wr_idx'[l] = Succ(wr_idx[l])
    BY <1>1, <1>2
  <2> QED BY <1>1, <2>2, <2>3 DEF InUse
<1>6. InRing(l)' = Append(InRing(l), wr_idx[l]) /\ Len(InRing(l)) = InUse(l)
  <2>1. At(rd_idx[l], InUse(l)) = wr_idx[l]
    BY <1>3, RingIndices DEF InUse
  <2>2. Waiting(l)' = Append(Waiting(l), wr_idx[l])
    BY <1>1, <1>3, <1>5, <2>1, NumberedGrows DEF Waiting
  <2>3. Len(Waiting(l)) = InUse(l)
    BY <1>3, NumberedIsSeq DEF Waiting
  <2> QED BY <2>2, <2>3, WhatWaits, WhatWaitsThen
<1>7. ASSUME NEW k \in Sources, k # l PROVE InRing(k)' = InRing(k)
  <2>1. wr_idx'[k] = wr_idx[k]
    BY <1>1, <1>2, <1>7
  <2> QED BY <1>1, <2>1, WhatWaits, WhatWaitsThen DEF Waiting, InUse
<1>8. [k \in Sources |-> InRing(k)]'
        = [[k \in Sources |-> InRing(k)] EXCEPT ![l] = Append(@, wr_idx[l])]
  BY <1>6, <1>7
<1> QED BY <1>1, <1>4, <1>6, <1>8 DEF Queues!Put, Succ

\* A pop takes the one that has waited longest.
LEMMA PopTakes ==
  ASSUME StreamInv, StreamInv', Pop
  PROVE  Queues!Take(poll.lidar)
<1> PICK l \in Sources : l = poll.lidar
  BY DEF Pop, StreamInv, StreamTypes
<1>1. /\ poll.at = "copy" /\ UNCHANGED wr_idx
      /\ rd_idx' = [rd_idx EXCEPT ![l] = Succ(@)]
  BY DEF Pop
<1>2. rd_idx \in [Sources -> Indices]
  BY DEF StreamInv, StreamTypes
<1>3. rd_idx[l] \in Indices /\ wr_idx[l] \in Indices /\ InUse(l) \in Nat
  BY UsedIsNat DEF StreamInv
<1>4. InUse(l) > 0
  BY <1>1 DEF StreamInv, RingInv
<1>5. rd_idx'[l] = Succ(rd_idx[l]) /\ InUse(l)' = InUse(l) - 1
  <2>1. Used(Succ(rd_idx[l]), wr_idx[l]) = Used(rd_idx[l], wr_idx[l]) - 1
    BY <1>3, <1>4, RingIndices DEF InUse
  <2> QED BY <1>1, <1>2, <2>1 DEF InUse
<1>6. InRing(l) # <<>> /\ InRing(l)' = Tail(InRing(l))
  <2>1. Waiting(l) # <<>> /\ Waiting(l)' = Tail(Waiting(l))
    BY <1>3, <1>4, <1>5, NumberedShrinks DEF Waiting
  <2> QED BY <2>1, WhatWaits, WhatWaitsThen
<1>7. ASSUME NEW k \in Sources, k # l PROVE InRing(k)' = InRing(k)
  <2>1. rd_idx'[k] = rd_idx[k]
    BY <1>1, <1>2, <1>7
  <2> QED BY <1>1, <2>1, WhatWaits, WhatWaitsThen DEF Waiting, InUse
<1>8. [k \in Sources |-> InRing(k)]'
        = [[k \in Sources |-> InRing(k)] EXCEPT ![l] = Tail(@)]
  BY <1>6, <1>7
<1> QED BY <1>1, <1>6, <1>8 DEF Queues!Take

\* For every size of the queues and every range of their indices that is a multiple of
\* it, the ring of a lidar is a queue: QueuePushAny puts a packet behind the others,
\* QueuePop takes the oldest, and no step of any thread, no late store to wr_idx and no
\* wrap of the indices loses, repeats or reorders one that the ring has taken.
THEOREM QueuesCorrect == StreamSpec => ImplementsQueues
<1>1. StreamInit => Queues!QueueInit
  <2> SUFFICES ASSUME StreamInit PROVE Queues!QueueInit
    OBVIOUS
  <2>1. /\ rd_idx = [l \in Sources |-> 0] /\ wr_idx = [l \in Sources |-> 0]
    BY DEF StreamInit
  <2>2. ASSUME NEW l \in Sources PROVE InRing(l) = <<>>
    <3>1. 0 \in Indices
      BY StreamConstants DEF Indices
    <3>2. Used(rd_idx[l], wr_idx[l]) = 0
      BY <2>1, <3>1, RingIndices
    <3> QED BY <3>2 DEF InRing
  <2> QED BY <2>1, <2>2 DEF Queues!QueueInit
<1>2. StreamInv /\ StreamInv' /\ [StreamNext]_streamVars => [Queues!QueueNext]_(Queues!queueVars)
  <2> SUFFICES ASSUME StreamInv, StreamInv', [StreamNext]_streamVars
               PROVE  Queues!QueueNext \/ UNCHANGED Queues!queueVars
    OBVIOUS
  <2>1. CASE UNCHANGED <<rd_idx, wr_idx, storage>>
    BY <2>1 DEF Queues!queueVars, InRing
  <2>2. CASE QueuePushAny
    <3>1. store.lidar \in Sources
      BY <2>2 DEF QueuePushAny, StreamInv, StreamTypes
    <3> QED BY <2>2, <3>1, PushPuts DEF Queues!QueueNext
  <2>3. CASE Pop
    <3>1. poll.lidar \in Sources
      BY <2>3 DEF Pop, StreamInv, StreamTypes
    <3> QED BY <2>3, <3>1, PopTakes DEF Queues!QueueNext
  <2>4. ASSUME NEW l \in Sources, Offer(l) \/ BecomesSampling(l)
        PROVE  UNCHANGED <<rd_idx, wr_idx, storage>>
    BY <2>4 DEF Offer, BecomesSampling
  <2>5. CASE \/ ReadCount \/ Signal \/ StoreBecomesVisible \/ RequestExit \/ Join
    BY <2>1, <2>5 DEF ReadCount, Signal, StoreBecomesVisible, RequestExit, Join
  <2>6. CASE Wait \/ NextLidar \/ Polling \/ PollAgain
    BY <2>1, <2>6 DEF Wait, NextLidar, Polling, PollAgain
  <2>7. CASE UNCHANGED streamVars
    BY <2>1, <2>7 DEF streamVars
  <2> QED BY <2>1, <2>2, <2>3, <2>4, <2>5, <2>6, <2>7 DEF StreamNext, Store, Poll
<1> QED BY <1>1, <1>2, StreamInvariance, PTL DEF StreamSpec, ImplementsQueues, Queues!QueueSpec

-----------------------------------------------------------------------------
(* The rebuild thread of the k-d tree.                                       *)

MapOperations ==
    {[kind |-> "ADD_POINT", point |-> p] : p \in MapPoints}
      \union {[kind |-> "DELETE_BOX", box |-> b] : b \in DelBoxes}
      \union {PushDown}

Tasks == [at : Subtrees, op : MapOperations]

\* The operations of a logger turn one set of points into another one: there is a set
\* for every place in the logger, and each comes from the one before.
Replays(S, log, T) ==
    \E f \in [1..(Len(log) + 1) -> SUBSET MapPoints] :
       /\ f[1] = S /\ f[Len(log) + 1] = T
       /\ \A i \in 1..Len(log) : f[i + 1] = Applied(log[i], f[i])

LEMMA AppliedToPoints ==
  ASSUME NEW o \in MapOperations, NEW S \in SUBSET MapPoints
  PROVE  Applied(o, S) \in SUBSET MapPoints
<1>1. CASE \E p \in MapPoints : o = [kind |-> "ADD_POINT", point |-> p]
  BY <1>1 DEF Applied
<1>2. CASE \E b \in DelBoxes : o = [kind |-> "DELETE_BOX", box |-> b]
  BY <1>2 DEF Applied
<1>3. CASE o = PushDown
  BY <1>3 DEF Applied, PushDown
<1> QED BY <1>1, <1>2, <1>3 DEF MapOperations

LEMMA ReplaysNothing ==
  ASSUME NEW S \in SUBSET MapPoints
  PROVE  Replays(S, <<>>, S)
<1> DEFINE f == [i \in 1..1 |-> S]
<1>1. Len(<<>>) = 0 /\ f[1] = S
  BY EmptySeq
<1>2. f \in [1..(Len(<<>>) + 1) -> SUBSET MapPoints]
  BY <1>1
<1>3. f[Len(<<>>) + 1] = S /\ \A i \in 1..Len(<<>>) : f[i + 1] = Applied((<<>>)[i], f[i])
  BY <1>1
<1> HIDE DEF f
<1> QED BY <1>1, <1>2, <1>3 DEF Replays

LEMMA ReplaysDone ==
  ASSUME NEW S, NEW T, Replays(S, <<>>, T)
  PROVE  S = T
BY EmptySeq DEF Replays

LEMMA ReplaysOneMore ==
  ASSUME NEW S, NEW T, NEW log \in Seq(MapOperations), NEW o \in MapOperations,
         Replays(S, log, T)
  PROVE  Replays(S, Append(log, o), Applied(o, T))
<1> DEFINE n == Len(log)
           a == Append(log, o)
<1>1. n \in Nat /\ Len(a) = n + 1 /\ (\A i \in 1..n : a[i] = log[i]) /\ a[n + 1] = o
  BY LenProperties, AppendProperties
<1>2. PICK f \in [1..(n + 1) -> SUBSET MapPoints] :
        /\ f[1] = S /\ f[n + 1] = T
        /\ \A i \in 1..n : f[i + 1] = Applied(log[i], f[i])
  BY DEF Replays
<1> HIDE DEF n, a
<1> DEFINE g == [i \in 1..(n + 2) |-> IF i = n + 2 THEN Applied(o, T) ELSE f[i]]
<1>3. g \in [1..(n + 2) -> SUBSET MapPoints]
  <2>1. T \in SUBSET MapPoints
    BY <1>1, <1>2
  <2>2. Applied(o, T) \in SUBSET MapPoints
    BY <2>1, AppliedToPoints
  <2>3. ASSUME NEW i \in 1..(n + 2), i # n + 2 PROVE f[i] \in SUBSET MapPoints
    <3>1. i \in 1..(n + 1)
      BY <2>3, <1>1
    <3> QED BY <3>1, <1>2
  <2> QED BY <2>2, <2>3
<1>4. g[1] = S /\ g[n + 2] = Applied(o, T)
  BY <1>1, <1>2
<1>5. ASSUME NEW i \in 1..(n + 1) PROVE g[i + 1] = Applied(a[i], g[i])
  <2>1. CASE i = n + 1
    BY <2>1, <1>1, <1>2
  <2>2. CASE i # n + 1
    <3>1. i \in 1..n /\ i + 1 \in 1..(n + 2) /\ i \in 1..(n + 2) /\ i + 1 # n + 2 /\ i # n + 2
      BY <2>2, <1>1
    <3>2. g[i + 1] = f[i + 1] /\ g[i] = f[i] /\ a[i] = log[i]
      BY <3>1, <1>1
    <3> QED BY <3>1, <3>2, <1>2
  <2> QED BY <2>1, <2>2
<1>6. Len(a) + 1 = n + 2
  BY <1>1
<1> HIDE DEF g
<1>7. Replays(S, a, Applied(o, T))
  BY <1>1, <1>3, <1>4, <1>5, <1>6 DEF Replays
<1> QED BY <1>7 DEF a

LEMMA ReplaysTheNext ==
  ASSUME NEW S, NEW T, NEW log \in Seq(MapOperations), log # <<>>, Replays(S, log, T)
  PROVE  Replays(Applied(Head(log), S), Tail(log), T)
<1> DEFINE n == Len(log)
           t == Tail(log)
<1>1. /\ n \in Nat \ {0} /\ Len(t) = n - 1 /\ Head(log) = log[1]
      /\ \A i \in 1..(n - 1) : t[i] = log[i + 1]
  BY LenProperties, HeadTailProperties, EmptySeq
<1>2. PICK f \in [1..(n + 1) -> SUBSET MapPoints] :
        /\ f[1] = S /\ f[n + 1] = T
        /\ \A i \in 1..n : f[i + 1] = Applied(log[i], f[i])
  BY DEF Replays
<1> HIDE DEF n, t
<1> DEFINE g == [i \in 1..n |-> f[i + 1]]
<1>3. g \in [1..n -> SUBSET MapPoints]
  <2>1. \A i \in 1..n : i + 1 \in 1..(n + 1)
    BY <1>1
  <2> QED BY <2>1, <1>2
<1>4. g[1] = Applied(Head(log), S) /\ g[n] = T
  BY <1>1, <1>2
<1>5. ASSUME NEW i \in 1..(n - 1) PROVE g[i + 1] = Applied(t[i], g[i])
  <2>1. i \in 1..n /\ i + 1 \in 1..n /\ t[i] = log[i + 1]
    BY <1>1
  <2>2. g[i + 1] = f[(i + 1) + 1] /\ g[i] = f[i + 1]
    BY <2>1
  <2> QED BY <2>1, <2>2, <1>2
<1>6. Len(t) + 1 = n /\ Len(t) = n - 1
  BY <1>1
<1> HIDE DEF g
<1>7. Replays(Applied(Head(log), S), t, T)
  BY <1>3, <1>4, <1>5, <1>6 DEF Replays
<1> QED BY <1>7 DEF t

Building == {"lockSearch", "copy", "replay", "lockSwap", "swap"}

RebuildTypes ==
    /\ contents \in [Subtrees -> SUBSET MapPoints] /\ newTree \in SUBSET MapPoints
    /\ Rebuild_Ptr \in Subtrees \union {NoTree}
    /\ todo \in Seq(Tasks)
    /\ Rebuild_Logger \in Seq(MapOperations)

\* What the thread holds while it builds, and what the map's thread may wait for.
LockInv ==
    /\ tpc \in Building \union {"poll", "swapped", "crashed"}
    /\ tpc \in Building => Rebuild_Ptr # NoTree /\ rebuild_flag
    /\ tpc \in Building \union {"swapped"} => rebuild_ptr_lock
    /\ tpc = "swapped" => Rebuild_Ptr = NoTree
    /\ tpc \in {"lockSearch", "copy"} => working
    /\ tpc \in {"lockSwap", "swap"} /\ newTree # {} => working
    /\ waiting => todo # <<>> /\ Rebuild_Ptr \in {Head(todo).at, NoTree}

\* The counter counts the searches, or shuts them out.
SearchInv ==
    /\ IsFiniteSet(searching) /\ searching \subseteq searched
    /\ IF tpc \in {"copy", "swap", "crashed"} THEN search_counter = -1 /\ searching = {}
       ELSE search_counter = Cardinality(searching)
    /\ tpc = "swapped" => searching = {}

\* What the logger holds is what the new tree lacks.
ReplayInv ==
    /\ tpc \in {"lockSearch", "copy"} /\ startedClean => Rebuild_Logger = <<>>
    /\ tpc = "replay" /\ startedClean => Replays(newTree, Rebuild_Logger, contents[Rebuild_Ptr])
    /\ tpc \in {"lockSwap", "swap"} /\ startedClean /\ newTree # {} => newTree = contents[Rebuild_Ptr]

RebuildInv == RebuildTypes /\ LockInv /\ SearchInv /\ ReplayInv

LEMMA RebuildInvInit == RebuildInit => RebuildInv
<1> SUFFICES ASSUME RebuildInit PROVE RebuildInv
  OBVIOUS
<1>1. RebuildTypes
  <2>1. contents \in [Subtrees -> SUBSET MapPoints] /\ newTree \in SUBSET MapPoints
    BY DEF RebuildInit
  <2>2. todo \in Seq(Tasks) /\ Rebuild_Logger \in Seq(MapOperations)
    BY EmptySeq DEF RebuildInit
  <2> QED BY <2>1, <2>2 DEF RebuildTypes, RebuildInit
<1>2. LockInv
  BY DEF RebuildInit, LockInv, Building
<1>3. SearchInv
  BY FS_EmptySet DEF RebuildInit, SearchInv
<1>4. ReplayInv
  BY DEF RebuildInit, ReplayInv
<1> QED BY <1>1, <1>2, <1>3, <1>4 DEF RebuildInv

\* An operation begins, and a search comes or goes.
LEMMA BeginKeeps ==
  ASSUME RebuildInv, NEW tasks \in Seq(Tasks), Begin(tasks)
  PROVE  RebuildInv'
<1>1. UNCHANGED <<contents, waiting, threadVars, Rebuild_Ptr, Rebuild_Logger, search_counter, searching>>
      /\ todo = <<>> /\ todo' = tasks
  BY DEF Begin
<1>2. ~waiting
  BY <1>1 DEF RebuildInv, LockInv
<1>3. RebuildTypes'
  BY <1>1 DEF RebuildInv, RebuildTypes, threadVars
<1>4. LockInv'
  BY <1>1, <1>2 DEF RebuildInv, LockInv, threadVars
<1>5. SearchInv'
  BY <1>1, FS_EmptySet DEF Begin, RebuildInv, SearchInv, threadVars
<1>6. ReplayInv'
  BY <1>1 DEF RebuildInv, ReplayInv, threadVars
<1> QED BY <1>3, <1>4, <1>5, <1>6 DEF RebuildInv

LEMMA EverywhereIsTasks ==
  ASSUME NEW o \in MapOperations
  PROVE  Everywhere(o) \in Seq(Tasks)
<1>1. PICK n \in Nat : SubtreeOrder \in [1..n -> Subtrees]
  BY RebuildAssumption DEF Seq
<1>2. Everywhere(o) \in [1..n -> Tasks]
  BY <1>1 DEF Everywhere, Tasks
<1> QED BY <1>2 DEF Seq

LEMMA OperationKeeps ==
  ASSUME RebuildInv,
         (\E p \in MapPoints : Add_Point(p)) \/ (\E b \in DelBoxes : Delete_Box(b))
  PROVE  RebuildInv'
<1>1. ASSUME NEW p \in MapPoints, Add_Point(p) PROVE RebuildInv'
  <2> DEFINE o == [kind |-> "ADD_POINT", point |-> p]
             add == <<[at |-> Home[p], op |-> o]>>
             push == IF marked THEN Everywhere(PushDown) ELSE <<>>
  <2>1. o \in MapOperations /\ PushDown \in MapOperations
    BY DEF MapOperations
  <2>2. Begin(push \o add)
    BY <1>1 DEF Add_Point
  <2>3. add \in Seq(Tasks)
    BY <2>1, RebuildAssumption DEF Tasks
  <2>4. push \in Seq(Tasks)
    BY <2>1, EverywhereIsTasks, EmptySeq
  <2> HIDE DEF add, push
  <2>5. push \o add \in Seq(Tasks)
    BY <2>3, <2>4, ConcatProperties
  <2> QED BY <2>2, <2>5, BeginKeeps
<1>2. ASSUME NEW b \in DelBoxes, Delete_Box(b) PROVE RebuildInv'
  <2> DEFINE o == [kind |-> "DELETE_BOX", box |-> b]
  <2>1. o \in MapOperations
    BY DEF MapOperations
  <2>2. Begin(<<>>) \/ Begin(Everywhere(o))
    BY <1>2 DEF Delete_Box
  <2>3. <<>> \in Seq(Tasks) /\ Everywhere(o) \in Seq(Tasks)
    BY <2>1, EverywhereIsTasks, EmptySeq
  <2> QED BY <2>2, <2>3, BeginKeeps
<1> QED BY <1>1, <1>2

LEMMA SearchesKeep ==
  ASSUME RebuildInv, NEW i \in Searchers, EnterSearch(i) \/ LeaveSearch(i)
  PROVE  RebuildInv'
<1>1. UNCHANGED <<mapVars, threadVars, Rebuild_Ptr, Rebuild_Logger>>
  BY DEF EnterSearch, LeaveSearch
<1>2. RebuildTypes' /\ LockInv' /\ ReplayInv'
  BY <1>1 DEF RebuildInv, RebuildTypes, LockInv, ReplayInv, mapVars, threadVars
<1>3. IsFiniteSet(searching) /\ tpc' = tpc
  BY <1>1 DEF RebuildInv, SearchInv, threadVars
<1>4. CASE EnterSearch(i)
  <2>1. /\ Rebuild_Ptr # NoTree /\ search_counter # -1 /\ i \notin searching
        /\ search_counter' = search_counter + 1 /\ searching' = searching \union {i}
    <3>1. searching \subseteq searched
      BY DEF RebuildInv, SearchInv
    <3> QED BY <1>4, <3>1 DEF EnterSearch
  <2>2. tpc \notin {"copy", "swap", "crashed", "swapped"}
    BY <2>1 DEF RebuildInv, SearchInv, LockInv
  <2>3. search_counter = Cardinality(searching)
    BY <2>2 DEF RebuildInv, SearchInv
  <2>4. IsFiniteSet(searching') /\ Cardinality(searching') = Cardinality(searching) + 1
    BY <1>3, <2>1, FS_AddElement
  <2>5. searching' \subseteq searched'
    BY <1>4 DEF EnterSearch, RebuildInv, SearchInv
  <2>6. SearchInv'
    BY <1>3, <2>1, <2>2, <2>3, <2>4, <2>5 DEF SearchInv
  <2> QED BY <1>2, <2>6 DEF RebuildInv
<1>5. CASE LeaveSearch(i)
  <2>1. /\ i \in searching
        /\ search_counter' = search_counter - 1 /\ searching' = searching \ {i} /\ searched' = searched
    BY <1>5 DEF LeaveSearch
  <2>2. tpc \notin {"copy", "swap", "crashed", "swapped"}
    BY <2>1 DEF RebuildInv, SearchInv
  <2>3. search_counter = Cardinality(searching) /\ searching \subseteq searched
    BY <2>2 DEF RebuildInv, SearchInv
  <2>4. IsFiniteSet(searching') /\ Cardinality(searching') = Cardinality(searching) - 1
    BY <1>3, <2>1, FS_RemoveElement
  <2>6. SearchInv'
    BY <1>3, <2>1, <2>2, <2>3, <2>4 DEF SearchInv
  <2> QED BY <1>2, <2>6 DEF RebuildInv
<1> QED BY <1>4, <1>5

\* What the map's thread does next.
LEMMA NextTask ==
  ASSUME RebuildTypes, todo # <<>>
  PROVE  /\ Tail(todo) \in Seq(Tasks)
         /\ Head(todo).at \in Subtrees /\ Head(todo).op \in MapOperations
<1>1. todo \in Seq(Tasks)
  BY DEF RebuildTypes
<1>2. Head(todo) \in Tasks /\ Tail(todo) \in Seq(Tasks)
  BY <1>1, HeadTailProperties
<1> QED BY <1>2 DEF Tasks

LEMMA VisitKeeps ==
  ASSUME RebuildInv, Visit
  PROVE  RebuildInv'
<1> DEFINE s == Head(todo).at
           o == Head(todo).op
<1>1. /\ todo # <<>> /\ ~waiting
      /\ UNCHANGED <<threadVars, Rebuild_Logger, search_counter, searching, searched>>
  BY DEF Visit
<1>2. SearchInv'
  BY <1>1 DEF RebuildInv, SearchInv, threadVars
<1>3. CASE Rebuild_Ptr = s /\ waiting' = TRUE /\ UNCHANGED <<contents, todo, Rebuild_Ptr>>
  <2>1. RebuildTypes' /\ ReplayInv'
    BY <1>1, <1>3 DEF RebuildInv, RebuildTypes, ReplayInv, threadVars
  <2>2. LockInv'
    BY <1>1, <1>3 DEF RebuildInv, LockInv, threadVars
  <2> QED BY <1>2, <2>1, <2>2 DEF RebuildInv
<1>4. CASE /\ Rebuild_Ptr # s
           /\ contents' = [contents EXCEPT ![s] = Applied(o, @)]
           /\ todo' = Tail(todo)
           /\ \/ Rebuild_Ptr' = Rebuild_Ptr
              \/ o # PushDown /\ ~rebuild_ptr_lock /\ Rebuild_Ptr' = s
           /\ UNCHANGED waiting
  <2>1. todo' \in Seq(Tasks) /\ s \in Subtrees /\ o \in MapOperations
    BY <1>1, <1>4, NextTask DEF RebuildInv
  <2> HIDE DEF s, o
  <2>2. o \in MapOperations /\ contents \in [Subtrees -> SUBSET MapPoints]
    BY <1>1, <2>1 DEF RebuildInv, RebuildTypes
  <2>3. Applied(o, contents[s]) \in SUBSET MapPoints
    BY <2>1, <2>2, AppliedToPoints
  <2>4. contents' \in [Subtrees -> SUBSET MapPoints]
    BY <1>4, <2>2, <2>3
  <2>5. RebuildTypes'
    BY <1>1, <1>4, <2>1, <2>4 DEF RebuildInv, RebuildTypes, threadVars
  <2>6. LockInv'
    BY <1>1, <1>4 DEF RebuildInv, LockInv, threadVars
  <2>7. ReplayInv'
    <3>1. CASE ~rebuild_ptr_lock
      <4>1. tpc \notin {"lockSearch", "copy", "replay", "lockSwap", "swap"}
        BY <3>1 DEF RebuildInv, LockInv, Building
      <4> QED BY <4>1, <1>1 DEF ReplayInv, threadVars
    <3>2. CASE Rebuild_Ptr' = Rebuild_Ptr
      <4>1. tpc \in Building => contents'[Rebuild_Ptr] = contents[Rebuild_Ptr]
        BY <1>4, <2>2 DEF RebuildInv, LockInv, RebuildTypes
      <4> QED BY <1>1, <3>2, <4>1 DEF RebuildInv, ReplayInv, threadVars, Building
    <3> QED BY <1>4, <3>1, <3>2
  <2> QED BY <1>2, <2>5, <2>6, <2>7 DEF RebuildInv
<1> QED BY <1>3, <1>4 DEF Visit

LEMMA VisitHandedOverKeeps ==
  ASSUME RebuildInv, VisitHandedOver
  PROVE  RebuildInv'
<1> DEFINE s == Head(todo).at
           o == Head(todo).op
<1>1. /\ waiting /\ ~working /\ todo # <<>>
      /\ contents' = [contents EXCEPT ![s] = Applied(o, @)]
      /\ Rebuild_Logger' = IF rebuild_flag THEN Append(Rebuild_Logger, o) ELSE Rebuild_Logger
      /\ waiting' = FALSE
      /\ todo' = Tail(todo)
      /\ UNCHANGED <<threadVars, Rebuild_Ptr, search_counter, searching, searched>>
  BY DEF VisitHandedOver, RebuildInv, LockInv
<1>2. SearchInv'
  BY <1>1 DEF RebuildInv, SearchInv, threadVars
<1>3. LockInv'
  BY <1>1 DEF RebuildInv, LockInv, threadVars
<1>4. todo' \in Seq(Tasks) /\ s \in Subtrees /\ o \in MapOperations
  BY <1>1, NextTask DEF RebuildInv
<1>5. Rebuild_Ptr \in {s, NoTree}
  BY <1>1 DEF RebuildInv, LockInv
<1> HIDE DEF s, o
<1>6. /\ o \in MapOperations /\ contents \in [Subtrees -> SUBSET MapPoints]
      /\ Rebuild_Logger \in Seq(MapOperations)
  BY <1>1, <1>4 DEF RebuildInv, RebuildTypes
<1>7. Applied(o, contents[s]) \in SUBSET MapPoints /\ Append(Rebuild_Logger, o) \in Seq(MapOperations)
  BY <1>4, <1>6, AppliedToPoints, AppendProperties
<1>8. contents' \in [Subtrees -> SUBSET MapPoints] /\ contents'[s] = Applied(o, contents[s])
  BY <1>1, <1>4, <1>6, <1>7
<1>9. RebuildTypes'
  BY <1>1, <1>4, <1>7, <1>8 DEF RebuildInv, RebuildTypes, threadVars
<1>10. ReplayInv'
  <2>1. tpc \notin {"lockSearch", "copy"} /\ (tpc \in {"lockSwap", "swap"} => newTree = {})
    BY <1>1 DEF RebuildInv, LockInv
  <2>2. ASSUME tpc = "replay", startedClean
        PROVE  Replays(newTree, Rebuild_Logger', contents'[Rebuild_Ptr])
    <3>1. Rebuild_Ptr = s /\ rebuild_flag /\ Replays(newTree, Rebuild_Logger, contents[s])
      BY <2>2, <1>5 DEF RebuildInv, LockInv, Building, ReplayInv
    <3>2. Replays(newTree, Append(Rebuild_Logger, o), Applied(o, contents[s]))
      BY <1>6, <3>1, ReplaysOneMore
    <3> QED BY <1>1, <1>8, <3>1, <3>2
  <2> QED BY <1>1, <2>1, <2>2 DEF ReplayInv, threadVars
<1> QED BY <1>2, <1>3, <1>9, <1>10 DEF RebuildInv

LEMMA ThreadKeeps ==
  ASSUME RebuildInv, RebuildThread
  PROVE  RebuildInv'
<1>1. CASE StartRebuild
  <2>1. RebuildTypes'
    BY <1>1 DEF StartRebuild, RebuildInv, RebuildTypes, mapVars
  <2>2. LockInv'
    BY <1>1 DEF StartRebuild, RebuildInv, LockInv, Building, mapVars
  <2>3. SearchInv'
    BY <1>1 DEF StartRebuild, RebuildInv, SearchInv
  <2>4. ReplayInv'
    <3>1. tpc' = "lockSearch" /\ (startedClean' <=> Rebuild_Logger = <<>>) /\ Rebuild_Logger' = Rebuild_Logger
      BY <1>1 DEF StartRebuild
    <3> QED BY <3>1 DEF ReplayInv
  <2> QED BY <2>1, <2>2, <2>3, <2>4 DEF RebuildInv
<1>2. CASE LockSearch
  <2>1. RebuildTypes'
    BY <1>2 DEF LockSearch, RebuildInv, RebuildTypes, mapVars
  <2>2. LockInv'
    BY <1>2 DEF LockSearch, RebuildInv, LockInv, Building, mapVars
  <2>3. SearchInv'
    <3>1. searching = {}
      BY <1>2, FS_EmptySet DEF LockSearch, RebuildInv, SearchInv
    <3> QED BY <1>2, <3>1 DEF LockSearch, RebuildInv, SearchInv
  <2>4. ReplayInv'
    BY <1>2 DEF LockSearch, RebuildInv, ReplayInv, mapVars
  <2> QED BY <2>1, <2>2, <2>3, <2>4 DEF RebuildInv
<1>3. CASE Copy
  <2>0. /\ tpc = "copy" /\ newTree' = contents[Rebuild_Ptr] /\ search_counter' = 0
        /\ tpc' = IF newTree' = {} THEN "lockSwap" ELSE "replay"
        /\ UNCHANGED <<mapVars, rebuild_flag, rebuild_ptr_lock, startedClean, Rebuild_Ptr,
                   Rebuild_Logger, searching, searched>>
    BY <1>3 DEF Copy
  <2>1. newTree' \in SUBSET MapPoints
    BY <2>0 DEF RebuildInv, RebuildTypes, LockInv, Building
  <2>2. RebuildTypes'
    BY <2>0, <2>1 DEF RebuildInv, RebuildTypes, mapVars
  <2>3. LockInv'
    BY <2>0 DEF RebuildInv, LockInv, Building, mapVars
  <2>4. SearchInv'
    BY <2>0, FS_EmptySet DEF RebuildInv, SearchInv
  <2>5. ReplayInv'
    <3>1. Replays(newTree', <<>>, newTree')
      BY <2>1, ReplaysNothing
    <3>2. startedClean => Rebuild_Logger = <<>>
      BY <2>0 DEF RebuildInv, ReplayInv
    <3> QED BY <2>0, <3>1, <3>2 DEF ReplayInv, mapVars
  <2> QED BY <2>2, <2>3, <2>4, <2>5 DEF RebuildInv
<1>4. CASE Replay
  <2>0. /\ tpc = "replay"
        /\ UNCHANGED <<mapVars, rebuild_flag, rebuild_ptr_lock, startedClean, Rebuild_Ptr,
                   search_counter, searching, searched>>
        /\ Rebuild_Logger \in Seq(MapOperations) /\ newTree \in SUBSET MapPoints
    BY <1>4 DEF Replay, RebuildInv, RebuildTypes
  <2>1. CASE /\ Rebuild_Logger # <<>>
             /\ newTree' = Applied(Head(Rebuild_Logger), newTree)
             /\ Rebuild_Logger' = Tail(Rebuild_Logger)
             /\ UNCHANGED <<tpc, working>>
    <3>1. Head(Rebuild_Logger) \in MapOperations /\ Rebuild_Logger' \in Seq(MapOperations)
      BY <2>0, <2>1, HeadTailProperties
    <3>2. newTree' \in SUBSET MapPoints
      BY <2>0, <2>1, <3>1, AppliedToPoints
    <3>3. RebuildTypes'
      BY <2>0, <3>1, <3>2 DEF RebuildInv, RebuildTypes, mapVars
    <3>4. LockInv' /\ SearchInv'
      BY <2>0, <2>1 DEF RebuildInv, LockInv, SearchInv, Building, mapVars
    <3>5. startedClean => Replays(newTree', Rebuild_Logger', contents[Rebuild_Ptr])
      BY <2>0, <2>1, ReplaysTheNext DEF RebuildInv, ReplayInv
    <3>6. ReplayInv'
      BY <2>0, <2>1, <3>5 DEF ReplayInv, mapVars
    <3> QED BY <3>3, <3>4, <3>6 DEF RebuildInv
  <2>2. CASE /\ Rebuild_Logger = <<>>
             /\ working' = TRUE
             /\ tpc' = "lockSwap"
             /\ UNCHANGED <<newTree, Rebuild_Logger>>
    <3>1. RebuildTypes'
      BY <2>0, <2>2 DEF RebuildInv, RebuildTypes, mapVars
    <3>2. LockInv'
      BY <2>0, <2>2 DEF RebuildInv, LockInv, Building, mapVars
    <3>3. SearchInv'
      BY <2>0, <2>2 DEF RebuildInv, SearchInv
    <3>4. startedClean => newTree = contents[Rebuild_Ptr]
      BY <2>0, <2>2, ReplaysDone DEF RebuildInv, ReplayInv
    <3>5. ReplayInv'
      BY <2>0, <2>2, <3>4 DEF ReplayInv, mapVars
    <3> QED BY <3>1, <3>2, <3>3, <3>5 DEF RebuildInv
  <2> QED BY <1>4, <2>1, <2>2 DEF Replay
<1>5. CASE Swap
  <2>0. /\ tpc = "swap" /\ searching = {} /\ Rebuild_Ptr \in Subtrees
        /\ UNCHANGED <<marked, todo, waiting, mapOps, rebuild_flag, rebuild_ptr_lock, newTree,
                   startedClean, Rebuild_Logger, searching, searched>>
    BY <1>5 DEF Swap, RebuildInv, SearchInv, RebuildTypes, LockInv, Building
  <2>1. CASE /\ contents' = [contents EXCEPT ![Rebuild_Ptr] = newTree]
             /\ search_counter' = 0
             /\ Rebuild_Ptr' = NoTree
             /\ working' = FALSE
             /\ tpc' = "swapped"
    <3>1. RebuildTypes'
      BY <2>0, <2>1 DEF RebuildInv, RebuildTypes
    <3>2. LockInv'
      BY <2>0, <2>1 DEF RebuildInv, LockInv, Building
    <3>3. SearchInv'
      BY <2>0, <2>1, FS_EmptySet DEF RebuildInv, SearchInv
    <3>4. ReplayInv'
      BY <2>1 DEF ReplayInv
    <3> QED BY <3>1, <3>2, <3>3, <3>4 DEF RebuildInv
  <2>2. CASE /\ newTree = {}
             /\ tpc' = "crashed"
             /\ UNCHANGED <<contents, search_counter, Rebuild_Ptr, working>>
    BY <2>0, <2>2 DEF RebuildInv, RebuildTypes, LockInv, SearchInv, ReplayInv, Building
  <2> QED BY <1>5, <2>1, <2>2 DEF Swap
<1>6. CASE EndRebuild
  <2>1. RebuildTypes'
    BY <1>6 DEF EndRebuild, RebuildInv, RebuildTypes, mapVars
  <2>2. LockInv' /\ SearchInv' /\ ReplayInv'
    BY <1>6 DEF EndRebuild, RebuildInv, LockInv, SearchInv, ReplayInv, Building, mapVars
  <2> QED BY <2>1, <2>2 DEF RebuildInv
<1> QED BY <1>1, <1>2, <1>3, <1>4, <1>5, <1>6 DEF RebuildThread

LEMMA RebuildInvariance == RebuildSpec => []RebuildInv
<1>1. RebuildInv /\ [RebuildNext]_rebuildVars => RebuildInv'
  <2> SUFFICES ASSUME RebuildInv, [RebuildNext]_rebuildVars PROVE RebuildInv'
    OBVIOUS
  <2>1. CASE UNCHANGED rebuildVars
    BY <2>1 DEF rebuildVars, mapVars, threadVars, RebuildInv, RebuildTypes, LockInv, SearchInv, ReplayInv
  <2>2. CASE RebuildNext
    BY <2>2, OperationKeeps, SearchesKeep, VisitKeeps, VisitHandedOverKeeps, ThreadKeeps
       DEF RebuildNext, MapThread
  <2> QED BY <2>1, <2>2
<1> QED BY <1>1, RebuildInvInit, PTL DEF RebuildSpec

\* For every map, every order of its operations and every number of searches: no search
\* is inside the subtree while it is copied or exchanged (multi_thread_rebuild and the
\* counters of the searches).
THEOREM SearchesAreShutOut == RebuildSpec => []SearchIsShutOut
<1>1. RebuildInv => SearchIsShutOut
  BY DEF RebuildInv, SearchInv, SearchIsShutOut
<1> QED BY <1>1, RebuildInvariance, PTL

\* The swap at the end of a rebuild that found an empty logger and points to copy leaves
\* the points of the map as they were, whatever was logged meanwhile
\* (multi_thread_rebuild and run_operation).
THEOREM SwapKeepsTheMap == RebuildSpec => SwapIsInvisible
<1>1. RebuildInv /\ [RebuildNext]_rebuildVars =>
        (tpc = "swap" /\ tpc' = "swapped" /\ startedClean /\ newTree # {} => contents' = contents)
  <2> SUFFICES ASSUME RebuildInv, [RebuildNext]_rebuildVars,
                      tpc = "swap", tpc' = "swapped", startedClean, newTree # {}
               PROVE  contents' = contents
    OBVIOUS
  <2>1. newTree = contents[Rebuild_Ptr] /\ contents \in [Subtrees -> SUBSET MapPoints]
    BY DEF RebuildInv, ReplayInv, RebuildTypes
  <2>2. contents' = [contents EXCEPT ![Rebuild_Ptr] = newTree]
    BY DEF RebuildNext, Add_Point, Delete_Box, Begin, EnterSearch, LeaveSearch, MapThread, Visit,
           VisitHandedOver, RebuildThread, StartRebuild, LockSearch, Copy, Replay, Swap, EndRebuild,
           rebuildVars, threadVars
  <2> QED BY <2>1, <2>2
<1> QED BY <1>1, RebuildInvariance, PTL DEF RebuildSpec, SwapIsInvisible

-----------------------------------------------------------------------------
(* The back-up behaviour.                                                    *)

LEMMA CellsHaveWidth ==
  BackRes \in Nat \ {0} /\ Scale * Scale \in Nat
<1>1. Scale \in Nat \ {0} /\ Paces \in Nat \ {0}
  BY BackAssumption
<1>2. Scale * Scale \in Nat \ {0}
  BY <1>1
<1>3. Paces * (Scale * Scale) \in Nat \ {0}
  BY <1>1, <1>2
<1>4. BackRes = Paces * (Scale * Scale)
  BY <1>1 DEF BackRes
<1> QED BY <1>2, <1>3, <1>4

\* Straight back along the first axis the samples are one cell apart.
LEMMA SamplesAhead ==
  ASSUME NEW p \in Int \X Int, NEW k \in Nat
  PROVE  Sample(p, <<-Scale, 0>>, k) = <<p[1] - BackRes * k, p[2]>>
<1>1. Scale \in Nat /\ Paces \in Nat
  BY BackAssumption
<1>2. Paces * Scale * (-Scale) = -BackRes /\ Paces * Scale * 0 = 0
  BY <1>1 DEF BackRes
<1>3. BackRes \in Nat
  BY CellsHaveWidth
<1>4. k * (Paces * Scale * (-Scale)) = -(BackRes * k) /\ k * (Paces * Scale * 0) = 0
  <2>1. k * (-BackRes) = -(BackRes * k)
    BY <1>3
  <2>2. k * 0 = 0
    OBVIOUS
  <2> QED BY <1>2, <2>1, <2>2
<1> QED BY <1>3, <1>4 DEF Sample

\* Then each place up to the last sample is in the cell of a sample: of the last one
\* before it, or of the first one after it.
LEMMA SamplesSkipNoCell ==
  ASSUME NEW s \in Int, NEW x \in Int, x <= s,
         s - x <= (attempt_distance \div BackRes) * BackRes
  PROVE  \E k \in 0..(attempt_distance \div BackRes) : (s - BackRes * k) \div BackRes = x \div BackRes
<1> DEFINE r == BackRes
           K == attempt_distance \div r
           k == (s - x) \div r
           a == s - r * k
           b == s - r * (k + 1)
           p == a \div r
           q == x \div r
           u == b \div r
<1>1. r \in Nat \ {0} /\ attempt_distance \in Nat
  BY BackAssumption, CellsHaveWidth
<1> HIDE DEF r
<1>2. K \in Int
  BY <1>1, QuotientBounds
<1>3. s - x <= r * K
  BY <1>1, <1>2 DEF r
<1>4. k \in Int /\ r * k <= s - x /\ s - x < r * k + r
  BY <1>1, <1>2, QuotientBounds
<1>5. k \in 0..K
  <2>1. r * k < r * K + r /\ r * 0 < r * k + r
    BY <1>1, <1>2, <1>3, <1>4
  <2>2. k <= K /\ 0 <= k
    BY <1>1, <1>2, <1>4, <2>1, QuotientsAreOrdered
  <2> QED BY <1>4, <2>2
<1>6. a \in Int /\ b \in Int /\ b = a - r /\ x <= a /\ b < x
  BY <1>1, <1>2, <1>4
<1> HIDE DEF k, K, a, b
<1>7. /\ p \in Int /\ r * p <= a /\ a < r * p + r
      /\ q \in Int /\ r * q <= x /\ x < r * q + r
      /\ u \in Int /\ r * u <= b /\ b < r * u + r
  BY <1>1, <1>2, <1>6, QuotientBounds
<1>8. u <= q /\ q <= p /\ p = u + 1
  <2> HIDE DEF p, q, u
  <2>1. r * u < r * q + r /\ r * q < r * p + r
    BY <1>1, <1>2, <1>6, <1>7
  <2>2. r * p < r * (u + 1) + r /\ r * (u + 1) < r * p + r
    BY <1>1, <1>6, <1>7
  <2>3. u <= q /\ q <= p /\ p <= u + 1 /\ u + 1 <= p
    BY <1>1, <1>7, <2>1, <2>2, QuotientsAreOrdered
  <2> QED BY <1>7, <2>3
<1> HIDE DEF p, q, u
<1>9. CASE q = p
  BY <1>5, <1>9 DEF p, q, a, r, K
<1>10. CASE q = u
  <2>1. k < K \/ x = a
    <3> SUFFICES ASSUME k = K PROVE x = a
      BY <1>2, <1>5
    <3> QED BY <1>1, <1>2, <1>3, <1>4, <1>6 DEF a
  <2>2. CASE x = a
    BY <1>5, <2>2 DEF a, r, K
  <2>3. CASE k < K
    <3>1. k + 1 \in 0..K
      BY <1>2, <1>5, <2>3
    <3> QED BY <1>10, <3>1 DEF q, u, b, r, K
  <2> QED BY <2>1, <2>2, <2>3
<1> QED BY <1>7, <1>8, <1>9, <1>10

(* While the frames agree the robot stands on the line that was checked, and *)
(* its velocity is 0 unless a cycle of a move has driven it.                 *)
OnTheWayBack ==
    /\ heading = MapAxis /\ twist = <<-Scale, 0>>
    /\ isDirectionSafe(lethal, initial_pose_, twist)
    /\ phase = "moving" => place[2] = initial_pose_[2] /\ place[1] <= initial_pose_[1]

BackInv ==
    /\ place \in Int \X Int /\ initial_pose_ \in Int \X Int
    /\ heading \in Int \X Int /\ twist \in Int \X Int
    /\ phase \in {"idle", "asked", "checked", "moving"}
    /\ phase # "moving" => driven # "cycle"
    /\ phase \in {"checked", "moving"} /\ aligned => OnTheWayBack

LEMMA BackInvariance == BackSpec => []BackInv
<1>1. BackInit => BackInv
  BY BackAssumption DEF BackInit, BackInv
<1>2. BackInv /\ [BackNext]_backVars => BackInv'
  <2> SUFFICES ASSUME BackInv, [BackNext]_backVars PROVE BackInv'
    OBVIOUS
  <2>0. ASSUME UNCHANGED <<heading, twist, lethal, initial_pose_>>,
               OnTheWayBack, phase' = "moving" => phase = "moving" /\ UNCHANGED place
        PROVE  OnTheWayBack'
    BY <2>0 DEF OnTheWayBack, isDirectionSafe
  <2>1. CASE UNCHANGED backVars
    BY <2>0, <2>1 DEF backVars, BackInv
  <2>2. ASSUME NEW a \in Allowances, Goal(a) PROVE BackInv'
    BY <2>2 DEF Goal, BackInv
  <2>3. CASE onRunFails
    BY <2>3 DEF onRunFails, BackInv
  <2>4. ASSUME NEW costmap \in Costmaps, onRun(costmap) PROVE BackInv'
    <3> DEFINE back == <<-heading[1], -heading[2]>>
    <3>0. back \in Int \X Int
      BY DEF BackInv
    <3>1. UNCHANGED <<place, heading, driven>> /\ phase = "asked" /\ initial_pose_' = place /\ lethal' = costmap
      BY <2>4 DEF onRun
    <3>2. CASE isDirectionSafe(costmap, place, back)
      <4>1. phase' = "checked" /\ twist' = back /\ aligned' = (heading = MapAxis)
        BY <2>4, <3>2 DEF onRun
      <4>2. aligned' => OnTheWayBack'
        <5>1. heading = MapAxis => back = <<-Scale, 0>>
          <6> SUFFICES ASSUME heading = MapAxis PROVE back = <<-Scale, 0>>
            OBVIOUS
          <6>1. heading[1] = Scale /\ heading[2] = 0
            BY DEF MapAxis
          <6>2. -heading[2] = 0
            <7>1. \A i \in Int : -i = 0 - i
              OBVIOUS
            <7>2. -heading[2] = 0 - heading[2]
              BY <7>1 DEF BackInv
            <7> QED BY <6>1, <7>2
          <6> QED BY <6>1, <6>2
        <5> HIDE DEF back
        <5> QED BY <3>1, <3>2, <4>1, <5>1 DEF OnTheWayBack, isDirectionSafe
      <4> HIDE DEF back
      <4> QED BY <3>0, <3>1, <4>1, <4>2 DEF BackInv
    <3>3. CASE ~isDirectionSafe(costmap, place, back)
      <4>1. phase' = "idle" /\ twist' = twist
        BY <2>4, <3>3 DEF onRun
      <4> QED BY <3>1, <4>1 DEF BackInv
    <3> QED BY <3>2, <3>3
  <2>5. CASE onRunStarts
    <3>1. ASSUME aligned' PROVE OnTheWayBack'
      <4>1. /\ OnTheWayBack /\ place = initial_pose_ /\ place \in Int \X Int
            /\ UNCHANGED <<heading, twist, lethal>> /\ initial_pose_' = place /\ place' = place
        BY <2>5, <3>1 DEF onRunStarts, BackInv
      <4> QED BY <4>1 DEF OnTheWayBack, isDirectionSafe
    <3> QED BY <2>5, <3>1 DEF onRunStarts, BackInv
  <2>6. ASSUME NEW poseKnown \in BOOLEAN, NEW free \in BOOLEAN, onCycleUpdate(poseKnown, free)
        PROVE  BackInv'
    <3>1. UNCHANGED <<place, heading, twist, initial_pose_, lethal, aligned>> /\ phase = "moving"
      BY <2>6 DEF onCycleUpdate
    <3>2. (phase' = "idle" /\ driven' # "cycle") \/ phase' = "moving"
      BY <2>6 DEF onCycleUpdate, Ends
    <3> QED BY <2>0, <3>1, <3>2 DEF BackInv
  <2>7. CASE RobotMoves
    <3>1. place' \in Int \X Int /\ UNCHANGED <<phase, heading, twist, initial_pose_, lethal, aligned, driven>>
      BY <2>7 DEF RobotMoves, BackInv
    <3>2. ASSUME OnTheWayBack, phase = "moving"
          PROVE  place'[2] = place[2] /\ place'[1] <= place[1]
      <4>1. place' = <<place[1] + (-Scale) * Scale - 0 * 0, place[2] + (-Scale) * 0 + 0 * Scale>>
        BY <2>7, <3>2 DEF RobotMoves, OnTheWayBack, MapAxis
      <4>2. Scale \in Nat /\ (-Scale) * Scale = -(Scale * Scale) /\ Scale * Scale \in Nat
        BY BackAssumption, CellsHaveWidth
      <4>3. place[1] \in Int /\ place[2] \in Int
        BY DEF BackInv
      <4> QED BY <4>1, <4>2, <4>3
    <3>3. OnTheWayBack => OnTheWayBack'
      <4> SUFFICES ASSUME OnTheWayBack PROVE OnTheWayBack'
        OBVIOUS
      <4>1. place \in Int \X Int /\ initial_pose_ \in Int \X Int /\ phase = "moving"
        BY <2>7 DEF BackInv, RobotMoves
      <4>2. place'[2] = initial_pose_[2] /\ place'[1] <= initial_pose_[1]
        BY <3>1, <3>2, <4>1 DEF OnTheWayBack
      <4> QED BY <3>1, <4>2 DEF OnTheWayBack, isDirectionSafe
    <3> QED BY <3>1, <3>3 DEF BackInv
  <2>8. CASE RobotTurns
    BY <2>8, BackAssumption DEF RobotTurns, BackInv
  <2>9. CASE RobotIsElsewhere
    BY <2>0, <2>9, BackAssumption DEF RobotIsElsewhere, BackInv
  <2>10. CASE BackClock
    BY <2>0, <2>10 DEF BackClock, BackInv
  <2>11. CASE BackAgain
    BY <2>11, BackAssumption DEF BackAgain, BackInv
  <2> QED BY <2>1, <2>2, <2>3, <2>4, <2>5, <2>6, <2>7, <2>8, <2>9, <2>10, <2>11 DEF BackNext
<1> QED BY <1>1, <1>2, PTL DEF BackSpec

\* For every resolution, costmap, distance and set of headings: a robot whose base
\* frame has the axes of the map from the check of the way back on, and which the second
\* lookup finds where the first did, is in a free cell up to the last sample; and a
\* back-up that has ended does not keep the velocity of a cycle, unless its pose was
\* lost (onRun, isDirectionSafe and onCycleUpdate of BackUpFreeSpace).
THEOREM BackUpCorrect == BackSpec => [](AlignedMoveIsThroughFreeCells /\ EndOfMoveStops)
<1>1. BackInv => AlignedMoveIsThroughFreeCells /\ EndOfMoveStops
  <2> DEFINE last == (attempt_distance \div BackRes) * BackRes
             cells == 0..(BackCells - 1)
             d == initial_pose_[1] - place[1]
  <2> SUFFICES ASSUME BackInv, phase = "moving", aligned, Apart(initial_pose_, place) <= last * last
               PROVE  CellAt(place) \in (cells \X cells) \ lethal
    BY DEF BackInv, EndOfMoveStops, AlignedMoveIsThroughFreeCells
  <2>1. /\ OnTheWayBack /\ place \in Int \X Int /\ initial_pose_ \in Int \X Int
        /\ place[2] = initial_pose_[2] /\ place[1] <= initial_pose_[1]
    BY DEF BackInv, OnTheWayBack
  <2>2. BackRes \in Nat \ {0} /\ attempt_distance \div BackRes \in Nat /\ last \in Nat
    <3>1. BackRes \in Nat \ {0} /\ attempt_distance \in Nat
      BY CellsHaveWidth, BackAssumption
    <3>2. attempt_distance \div BackRes \in Nat
      BY <3>1
    <3> QED BY <3>1, <3>2
  <2>3. d <= last
    <3>1. d \in Nat /\ Apart(initial_pose_, place) = d * d
      BY <2>1 DEF Apart
    <3> HIDE DEF d, last
    <3>2. d * d <= last * last
      BY <3>1
    <3>3. d > last => d * d > last * last
      <4> SUFFICES ASSUME d > last PROVE d * d > last * last
        OBVIOUS
      <4>1. d * d = last * last + (d - last) * (d + last)
        BY <2>2, <3>1
      <4>2. (d - last) * (d + last) > 0
        BY <2>2, <3>1
      <4> QED BY <2>2, <3>1, <4>1, <4>2
    <3> QED BY <2>2, <3>1, <3>2, <3>3
  <2>4. PICK k \in 0..(attempt_distance \div BackRes) :
          (initial_pose_[1] - BackRes * k) \div BackRes = place[1] \div BackRes
    BY <2>1, <2>3, SamplesSkipNoCell
  <2> DEFINE sample == Sample(initial_pose_, <<-Scale, 0>>, k)
  <2>5. sample = <<initial_pose_[1] - BackRes * k, place[2]>>
    <3>1. k \in Nat
      BY <2>2, <2>4
    <3> QED BY <2>1, <3>1, SamplesAhead
  <2>6. CellAt(sample) = CellAt(place)
    BY <2>4, <2>5 DEF CellAt
  <2>7. /\ \A i \in {1, 2} : 0 <= sample[i] /\ CellAt(sample)[i] < BackCells
        /\ CellAt(sample) \notin lethal
    BY <2>1, <2>4 DEF OnTheWayBack, isDirectionSafe
  <2>8. \A i \in {1, 2} : sample[i] \in Nat /\ CellAt(sample)[i] = sample[i] \div BackRes
    <3>1. sample[1] \in Int /\ sample[2] \in Int
      BY <2>1, <2>2, <2>4, <2>5
    <3> HIDE DEF sample
    <3> QED BY <2>7, <3>1 DEF CellAt
  <2>9. \A i \in {1, 2} : CellAt(sample)[i] \in cells
    <3> HIDE DEF sample
    <3>1. \A i \in {1, 2} : CellAt(sample)[i] \in Nat
      BY <2>2, <2>8
    <3> QED BY <2>7, <3>1, BackAssumption
  <2>10. CellAt(place) = <<CellAt(sample)[1], CellAt(sample)[2]>>
    <3> HIDE DEF sample
    <3> QED BY <2>6 DEF CellAt
  <2> HIDE DEF sample
  <2> QED BY <2>6, <2>7, <2>9, <2>10
<1> QED BY <1>1, BackInvariance, PTL

-----------------------------------------------------------------------------
(* RecoveryNode.                                                             *)

\* In an activation the failures of the first child are one for every retry, and one
\* more while the second child is at work; outside of one nothing is counted.
RecoveryInv ==
    /\ num_attempts_ \in Nat /\ num_attempts_ < MaxTries
    /\ retry_count_ \in Nat /\ current_child_idx_ \in {0, 1} /\ tries \in Nat
    /\ nodeStatus \in {"IDLE", "RUNNING", "SUCCESS", "FAILURE"}
    /\ inTick => nodeStatus = "RUNNING"
    /\ nodeStatus # "RUNNING" => retry_count_ = 0 /\ current_child_idx_ = 0
    /\ nodeStatus = "RUNNING" => tries = retry_count_ + current_child_idx_
    /\ current_child_idx_ = 1 => tries < MaxTries
    /\ FailsAfterAllAttempts

LEMMA RecoveryInvStep == RecoveryInv /\ [RecoveryNext]_recoveryVars => RecoveryInv'
<1> SUFFICES ASSUME RecoveryInv, [RecoveryNext]_recoveryVars PROVE RecoveryInv'
  OBVIOUS
<1> USE DEF RecoveryInv, FailsAfterAllAttempts
<1>1. ASSUME NEW n \in Attempts, TickRecovery(n) PROVE RecoveryInv'
  BY <1>1, RecoveryAssumption DEF TickRecovery
<1>2. CASE ChildRuns
  BY <1>2 DEF ChildRuns, Looping, Returns
<1>3. CASE FirstSucceeds
  BY <1>3 DEF FirstSucceeds, Looping, Returns, Reset
<1>4. CASE FirstFails
  <2>1. tries = retry_count_ /\ retry_count_ <= num_attempts_ /\ nodeStatus = "RUNNING" /\ inTick
    BY <1>4 DEF FirstFails, Looping
  <2>2. MaxTries \in Nat /\ tries < MaxTries
    BY <2>1, RecoveryAssumption
  <2>3. tries' = tries + 1 /\ num_attempts_' = num_attempts_
    BY <1>4, <2>2 DEF FirstFails
  <2>4. CASE retry_count_ < num_attempts_
    BY <1>4, <2>1, <2>2, <2>3, <2>4 DEF FirstFails
  <2>5. CASE retry_count_ = num_attempts_
    <3>1. /\ retry_count_' = 0 /\ current_child_idx_' = 0
          /\ nodeStatus' = "FAILURE" /\ inTick' = FALSE /\ cause' = "exhausted"
      BY <1>4, <2>5 DEF FirstFails, Returns, Reset
    <3>2. tries' > num_attempts_' /\ tries' \in Nat
      BY <2>1, <2>3, <2>5
    <3> QED BY <2>3, <3>1, <3>2
  <2> QED BY <2>1, <2>4, <2>5
<1>5. CASE SecondSucceeds
  BY <1>5 DEF SecondSucceeds, Looping
<1>6. CASE SecondFails
  BY <1>6 DEF SecondFails, Looping, Returns, Reset
<1>7. CASE TooManyRetries
  BY <1>7 DEF TooManyRetries, Looping, Returns, Reset
<1>8. CASE HaltRecovery
  BY <1>8 DEF HaltRecovery, Reset
<1>9. CASE UNCHANGED recoveryVars
  BY <1>9 DEF recoveryVars
<1> QED BY <1>1, <1>2, <1>3, <1>4, <1>5, <1>6, <1>7, <1>8, <1>9 DEF RecoveryNext, ChildEnds

\* For every value of the port in every tick: an activation of RecoveryNode that fails
\* for want of attempts has made them all (RecoveryNode::tick).
THEOREM RecoveryCorrect == RecoverySpec => []FailsAfterAllAttempts
<1>1. RecoveryInit => RecoveryInv
  BY RecoveryAssumption DEF RecoveryInit, RecoveryInv, FailsAfterAllAttempts
<1>2. RecoveryInv => FailsAfterAllAttempts
  BY DEF RecoveryInv
<1> QED BY <1>1, <1>2, RecoveryInvStep, PTL DEF RecoverySpec

-----------------------------------------------------------------------------
(* RosServiceNode.                                                           *)

\* While a node is RUNNING it waits for its last request; a response that was kept
\* ends its activation.
SrvInv ==
    /\ requests \in Nat
    /\ srvStatus = "RUNNING" => future_response_ = requests /\ ~response_received_
    /\ ResponseIsOfItsRequest

LEMMA SrvInvStep == SrvInv /\ [SrvNext]_srvVars => SrvInv'
<1> SUFFICES ASSUME SrvInv, [SrvNext]_srvVars PROVE SrvInv'
  OBVIOUS
<1>1. CASE TickFails
  BY <1>1 DEF TickFails, SrvInv, ResponseIsOfItsRequest
<1>2. CASE TickSends
  BY <1>2 DEF TickSends, SrvInv, ResponseIsOfItsRequest
<1>3. CASE TickWaits
  <2>1. requests' = requests /\ srvStatus = "RUNNING" /\ future_response_ = requests /\ ~response_received_
    BY <1>3 DEF TickWaits, SrvInv
  <2>2. CASE future_response_ \notin completed'
    <3>1. UNCHANGED <<response_received_, response_, future_response_, delivered>>
      BY <1>3, <2>1, <2>2 DEF TickWaits
    <3> QED BY <2>1, <3>1 DEF SrvInv, ResponseIsOfItsRequest
  <2>3. CASE future_response_ \in completed'
    <3>1. delivered' = future_response_ /\ srvStatus' # "RUNNING"
      BY <1>3, <2>1, <2>3 DEF TickWaits
    <3> QED BY <2>1, <3>1 DEF SrvInv, ResponseIsOfItsRequest
  <2> QED BY <2>2, <2>3
<1>4. CASE HaltService
  BY <1>4 DEF HaltService, SrvInv, ResponseIsOfItsRequest
<1>5. ASSUME \/ \E r \in 1..MaxRequests : ServiceAnswers(r)
             \/ \E name \in ServiceNames : OtherNodeSpins(name) \/ PortChanges(name)
             \/ ServiceTimeout
             \/ UNCHANGED srvVars
      PROVE  SrvInv'
  <2>1. UNCHANGED srvNode
    BY <1>5 DEF ServiceAnswers, OtherNodeSpins, PortChanges, ServiceTimeout, srvVars, srvNode
  <2> QED BY <2>1 DEF srvNode, SrvInv, ResponseIsOfItsRequest
<1> QED BY <1>1, <1>2, <1>3, <1>4, <1>5 DEF SrvNext

\* For every set of services and every order in which responses arrive and are taken:
\* a response is given to the activation that asked for it (RosServiceNode::tick).
THEOREM ServiceCorrect == SrvSpec => []ResponseIsOfItsRequest
<1>1. SrvInit => SrvInv
  BY DEF SrvInit, SrvInv, ResponseIsOfItsRequest
<1>2. SrvInv => ResponseIsOfItsRequest
  BY DEF SrvInv
<1> QED BY <1>1, <1>2, SrvInvStep, PTL DEF SrvSpec

-----------------------------------------------------------------------------
(* RosTopicSubNode.                                                          *)

MessagesOf(t, b) == {<<t, k>> : k \in 1..b}
SubMessages(b) == {<<>>} \union UNION {MessagesOf(t, b) : t \in SubTopics}
Instances(b) == [conns : SUBSET SubNodes, queued : SubMessages(b), last : SubMessages(b)]

SubTypes ==
    /\ posted \in Nat /\ moved \subseteq SubNodes
    /\ life \in [SubNodes -> {"new", "up", "gone"}]
    /\ topicPort \in [SubNodes -> SubTopics]
    /\ sub \in [SubNodes -> SubTopics \union {"none"}]
    /\ inst \in [SubTopics -> Instances(posted)]
    /\ last_msg_ \in [SubNodes -> SubMessages(posted)]
    /\ heard \in [SubNodes -> SubMessages(posted)]
    /\ handled \in [SubNodes -> SubMessages(posted)]
    /\ newest \in [SubTopics -> SubMessages(posted)]
    /\ turn \in [SubNodes -> BOOLEAN]

\* What an instance holds: the message that waits, or else the last one, is the
\* newest of its topic.
InstInv(t) ==
    /\ inst[t].queued # <<>> => inst[t].queued \in MessagesOf(t, posted)
    /\ newest[t] = IF inst[t].queued # <<>> THEN inst[t].queued ELSE inst[t].last
    /\ Holders(sub, t) = {} => inst[t] = NoInstance

\* No message that was read is still waiting.
IsRead(i, m) == \A t \in SubTopics : i[t].queued # <<>> => i[t].queued # m

ReadInv ==
    /\ \A n \in SubNodes : IsRead(inst, last_msg_[n]) /\ IsRead(inst, handled[n])
    /\ \A t \in SubTopics : IsRead(inst, inst[t].last)

\* A node that has never changed its topic is connected to the instance it holds and
\* to no other, and still has to process what that has received last, or has done so.
NodeInv(n) ==
    /\ life[n] \in {"new", "gone"} => sub[n] = "none"
    /\ sub[n] = "none" /\ life[n] # "gone" =>
          n \notin moved /\ handled[n] = <<>> /\ last_msg_[n] = <<>>
    /\ n \notin moved =>
          /\ \A t \in SubTopics : n \in inst[t].conns <=> sub[n] = t
          /\ sub[n] # "none" /\ inst[sub[n]].last = <<>> => handled[n] = <<>>
          /\ sub[n] # "none" =>
                last_msg_[n] = IF handled[n] = inst[sub[n]].last /\ n \notin Latching THEN <<>>
                               ELSE inst[sub[n]].last

SubInv ==
    /\ SubTypes /\ ReadInv
    /\ \A t \in SubTopics : InstInv(t)
    /\ \A n \in SubNodes : NodeInv(n)

LEMMA MessagesGrow ==
  ASSUME NEW b \in Nat
  PROVE  /\ SubMessages(b) \subseteq SubMessages(b + 1) /\ <<>> \in SubMessages(b)
         /\ \A t \in SubTopics : /\ MessagesOf(t, b) \subseteq MessagesOf(t, b + 1)
                                 /\ MessagesOf(t, b) \subseteq SubMessages(b)
                                 /\ <<t, b + 1>> \in MessagesOf(t, b + 1)
                                 /\ <<t, b + 1>> \notin SubMessages(b)
                                 /\ <<t, b + 1>> # <<>>
<1>1. \A t \in SubTopics : MessagesOf(t, b) \subseteq MessagesOf(t, b + 1)
  BY DEF MessagesOf
<1>2. \A t \in SubTopics : MessagesOf(t, b) \subseteq SubMessages(b)
  BY DEF SubMessages
<1>3. SubMessages(b) \subseteq SubMessages(b + 1) /\ <<>> \in SubMessages(b)
  BY <1>1 DEF SubMessages
<1>4. ASSUME NEW t \in SubTopics
      PROVE  /\ <<t, b + 1>> \in MessagesOf(t, b + 1) /\ <<t, b + 1>> # <<>>
             /\ <<t, b + 1>> \notin SubMessages(b)
  <2>1. <<t, b + 1>> \in MessagesOf(t, b + 1) /\ <<t, b + 1>> # <<>>
    BY DEF MessagesOf
  <2>2. ASSUME NEW u \in SubTopics PROVE <<t, b + 1>> \notin MessagesOf(u, b)
    BY DEF MessagesOf
  <2> QED BY <2>1, <2>2 DEF SubMessages
<1> QED BY <1>1, <1>2, <1>3, <1>4

\* A message is of one topic.
LEMMA TopicsDiffer ==
  ASSUME NEW t, NEW u, t # u, NEW b, NEW m \in MessagesOf(t, b)
  PROVE  m \notin MessagesOf(u, b)
BY DEF MessagesOf

LEMMA SubInvInit == SubInit => SubInv
<1> SUFFICES ASSUME SubInit PROVE SubInv
  OBVIOUS
<1>1. posted = 0 /\ <<>> \in SubMessages(posted)
  BY MessagesGrow DEF SubInit
<1>2. NoInstance \in Instances(posted) /\ NoInstance.queued = <<>> /\ NoInstance.last = <<>> /\ NoInstance.conns = {}
  BY <1>1 DEF NoInstance, Instances
<1>3. SubTypes
  BY <1>1, <1>2 DEF SubInit, SubTypes
<1>4. \A t \in SubTopics : inst[t] = NoInstance /\ newest[t] = <<>>
  BY DEF SubInit
<1>5. ReadInv /\ \A t \in SubTopics : InstInv(t)
  BY <1>2, <1>4 DEF ReadInv, IsRead, InstInv
<1>6. \A n \in SubNodes : NodeInv(n)
  <2>1. \A t \in SubTopics : t # "none"
    BY SubAssumption
  <2> QED BY <1>2, <1>4, <2>1 DEF SubInit, NodeInv
<1> QED BY <1>3, <1>5, <1>6 DEF SubInv

\* A message arrives: it is new to everybody.
LEMMA PublishKeeps ==
  ASSUME SubInv, NEW t \in SubTopics, PublishOn(t)
  PROVE  SubInv'
<1> DEFINE m == <<t, posted + 1>>
<1>1. /\ posted \in Nat /\ posted' = posted + 1
      /\ UNCHANGED <<life, topicPort, sub, last_msg_, heard, handled, turn, moved>>
  BY DEF PublishOn, SubInv, SubTypes
<1>2. /\ SubMessages(posted) \subseteq SubMessages(posted')
      /\ \A u \in SubTopics : MessagesOf(u, posted) \subseteq MessagesOf(u, posted')
      /\ m \in MessagesOf(t, posted') /\ m \notin SubMessages(posted) /\ m # <<>>
      /\ m \in SubMessages(posted')
  <2>1. posted' \in Nat
    BY <1>1
  <2> QED BY <1>1, <2>1, MessagesGrow
<1>3. \A i \in Instances(posted) : i \in Instances(posted') /\ [i EXCEPT !.queued = m] \in Instances(posted')
  BY <1>2 DEF Instances
<1>4. inst \in [SubTopics -> Instances(posted)] /\ newest \in [SubTopics -> SubMessages(posted)]
  BY DEF SubInv, SubTypes
<1>5. CASE UNCHANGED <<inst, newest>>
  <2> HIDE DEF m
  <2>1. SubTypes'
    <3>1. inst \in [SubTopics -> Instances(posted')] /\ newest \in [SubTopics -> SubMessages(posted')]
      BY <1>2, <1>3, <1>4
    <3>2. /\ last_msg_ \in [SubNodes -> SubMessages(posted')] /\ heard \in [SubNodes -> SubMessages(posted')]
          /\ handled \in [SubNodes -> SubMessages(posted')]
      BY <1>2 DEF SubInv, SubTypes
    <3> QED BY <1>1, <1>5, <3>1, <3>2 DEF SubInv, SubTypes
  <2>2. \A u \in SubTopics : InstInv(u)'
    BY <1>1, <1>2, <1>5 DEF SubInv, InstInv, Holders
  <2>3. ReadInv' /\ (\A n \in SubNodes : NodeInv(n)')
    BY <1>1, <1>5 DEF SubInv, ReadInv, IsRead, NodeInv
  <2> QED BY <2>1, <2>2, <2>3 DEF SubInv
<1>6. CASE /\ Holders(sub, t) # {}
           /\ inst' = [inst EXCEPT ![t].queued = m]
           /\ newest' = [newest EXCEPT ![t] = m]
  <2> HIDE DEF m
  <2>1. /\ inst'[t] = [inst[t] EXCEPT !.queued = m] /\ newest'[t] = m
        /\ \A u \in SubTopics : u # t => inst'[u] = inst[u] /\ newest'[u] = newest[u]
    BY <1>4, <1>6
  <2>2. /\ inst'[t].queued = m /\ inst'[t].last = inst[t].last /\ inst'[t].conns = inst[t].conns
    BY <2>1, <1>4 DEF Instances
  <2>3. inst' \in [SubTopics -> Instances(posted')] /\ newest' \in [SubTopics -> SubMessages(posted')]
    <3>1. \A u \in SubTopics : inst'[u] \in Instances(posted')
      BY <2>1, <1>3, <1>4
    <3>2. \A u \in SubTopics : newest'[u] \in SubMessages(posted')
      BY <2>1, <1>2, <1>4
    <3> QED BY <3>1, <3>2, <1>4, <1>6
  <2>4. SubTypes'
    BY <1>1, <1>2, <2>3 DEF SubInv, SubTypes
  <2>5. \A u \in SubTopics : InstInv(u)'
    <3> SUFFICES ASSUME NEW u \in SubTopics PROVE InstInv(u)'
      OBVIOUS
    <3>1. CASE u = t
      BY <3>1, <1>1, <1>2, <1>6, <2>1, <2>2 DEF InstInv
    <3>2. CASE u # t
      BY <3>2, <1>1, <1>2, <2>1 DEF InstInv, SubInv
    <3> QED BY <3>1, <3>2
  <2>6. ASSUME NEW x \in SubMessages(posted), IsRead(inst, x) PROVE IsRead(inst', x)
    BY <2>6, <1>2, <2>1, <2>2 DEF IsRead
  <2>7. ReadInv'
    <3>1. \A n \in SubNodes : IsRead(inst', last_msg_[n]) /\ IsRead(inst', handled[n])
      BY <2>6 DEF SubInv, SubTypes, ReadInv
    <3>2. \A u \in SubTopics : inst'[u].last = inst[u].last /\ inst[u].last \in SubMessages(posted)
      BY <2>1, <2>2, <1>4 DEF Instances
    <3>3. \A u \in SubTopics : IsRead(inst', inst'[u].last)
      BY <2>6, <3>2 DEF SubInv, ReadInv
    <3> QED BY <1>1, <3>1, <3>3 DEF ReadInv
  <2>8. \A n \in SubNodes : NodeInv(n)'
    <3>1. \A u \in SubTopics : inst'[u].conns = inst[u].conns /\ inst'[u].last = inst[u].last
      BY <2>1, <2>2
    <3>2. \A n \in SubNodes : sub[n] # "none" => sub[n] \in SubTopics
      BY DEF SubInv, SubTypes
    <3> QED BY <3>1, <3>2, <1>1 DEF SubInv, NodeInv
  <2> QED BY <2>4, <2>5, <2>7, <2>8 DEF SubInv
<1> QED BY <1>1, <1>5, <1>6 DEF PublishOn

LEMMA TopicChangeKeeps ==
  ASSUME SubInv, NEW n \in SubNodes, TopicChanges(n)
  PROVE  SubInv'
<1>1. UNCHANGED <<life, sub, last_msg_, inst, posted, newest, heard, handled, turn, moved>>
      /\ topicPort' \in [SubNodes -> SubTopics]
  BY DEF TopicChanges, SubInv, SubTypes
<1>2. SubTypes'
  BY <1>1 DEF SubInv, SubTypes
<1> QED BY <1>1, <1>2 DEF SubInv, ReadInv, IsRead, InstInv, NodeInv

\* What was read stays read when no message arrives.
LEMMA ReadStays ==
  ASSUME \A t \in SubTopics : inst'[t].queued \in {<<>>, inst[t].queued},
         NEW m, IsRead(inst, m)
  PROVE  IsRead(inst', m)
BY DEF IsRead

\* A new node finds what its instance had received.
LEMMA ConstructKeeps ==
  ASSUME SubInv, NEW n \in SubNodes, Construct(n)
  PROVE  SubInv'
<1> DEFINE t == topicPort[n]
<1>1. /\ life[n] = "new" /\ life' = [life EXCEPT ![n] = "up"]
      /\ UNCHANGED <<topicPort, posted, newest, heard, handled, turn, moved>>
  BY DEF Construct
<1>2. /\ life \in [SubNodes -> {"new", "up", "gone"}] /\ t \in SubTopics /\ t # "none"
      /\ inst \in [SubTopics -> Instances(posted)]
      /\ sub \in [SubNodes -> SubTopics \union {"none"}]
      /\ last_msg_ \in [SubNodes -> SubMessages(posted)]
  BY SubAssumption DEF SubInv, SubTypes
<1>3. /\ sub[n] = "none" /\ n \notin moved /\ handled[n] = <<>> /\ last_msg_[n] = <<>>
      /\ \A u \in SubTopics : n \notin inst[u].conns
  <2>1. NodeInv(n) /\ \A u \in SubTopics : u # "none"
    BY SubAssumption DEF SubInv
  <2> QED BY <2>1, <1>1 DEF NodeInv
<1>4. \A m \in SubNodes : life'[m] = IF m = n THEN "up" ELSE life[m]
  BY <1>1, <1>2
<1>5. life' \in [SubNodes -> {"new", "up", "gone"}]
  BY <1>1, <1>2
<1>6. CASE UNCHANGED <<sub, inst, last_msg_>>
  <2>1. SubTypes'
    BY <1>1, <1>5, <1>6 DEF SubInv, SubTypes
  <2>2. ReadInv' /\ (\A u \in SubTopics : InstInv(u)')
    BY <1>1, <1>6 DEF SubInv, ReadInv, IsRead, InstInv, Holders
  <2>3. \A m \in SubNodes : NodeInv(m)'
    BY <1>1, <1>3, <1>4, <1>6 DEF SubInv, NodeInv
  <2> QED BY <2>1, <2>2, <2>3 DEF SubInv
<1>7. CASE /\ sub' = [sub EXCEPT ![n] = t]
           /\ NowIs(createSubscriber(inst, last_msg_, n, t))
  <2>1. /\ inst' = [inst EXCEPT ![t].conns = @ \union {n}]
        /\ last_msg_' = IF inst[t].last = <<>> THEN last_msg_ ELSE [last_msg_ EXCEPT ![n] = inst[t].last]
    BY <1>7 DEF NowIs, createSubscriber
  <2> HIDE DEF t
  <2>2. /\ inst'[t] = [inst[t] EXCEPT !.conns = @ \union {n}] /\ inst[t] \in Instances(posted)
        /\ \A u \in SubTopics : u # t => inst'[u] = inst[u]
    BY <1>2, <2>1
  <2>3. /\ inst'[t].conns = inst[t].conns \union {n}
        /\ inst'[t].last = inst[t].last /\ inst'[t].queued = inst[t].queued
        /\ inst'[t] \in Instances(posted) /\ inst[t].last \in SubMessages(posted)
    BY <2>2 DEF Instances
  <2>4. \A m \in SubNodes : sub'[m] = IF m = n THEN t ELSE sub[m]
    BY <1>2, <1>7
  <2>5. \A m \in SubNodes : last_msg_'[m] = IF m = n THEN inst[t].last ELSE last_msg_[m]
    BY <1>2, <1>3, <2>1
  <2>6. SubTypes'
    <3>1. inst' \in [SubTopics -> Instances(posted)]
      BY <1>2, <2>1, <2>2, <2>3
    <3>2. last_msg_' \in [SubNodes -> SubMessages(posted)] /\ sub' \in [SubNodes -> SubTopics \union {"none"}]
      BY <1>2, <1>7, <2>1, <2>3
    <3> QED BY <1>1, <1>5, <3>1, <3>2 DEF SubInv, SubTypes
  <2>7. \A u \in SubTopics : inst'[u].queued = inst[u].queued /\ inst'[u].last = inst[u].last
    BY <2>2, <2>3
  <2>8. ReadInv'
    <3>1. \A u \in SubTopics : inst'[u].queued \in {<<>>, inst[u].queued}
      BY <2>7
    <3>2. \A m \in SubNodes : IsRead(inst', last_msg_'[m]) /\ IsRead(inst', handled[m])
      BY <2>5, <1>2, <3>1, ReadStays DEF SubInv, ReadInv
    <3>3. \A u \in SubTopics : IsRead(inst', inst[u].last) /\ inst'[u].last = inst[u].last
      BY <2>7, <3>1, ReadStays DEF SubInv, ReadInv
    <3> QED BY <1>1, <3>2, <3>3 DEF ReadInv
  <2>9. \A u \in SubTopics : InstInv(u)'
    <3> SUFFICES ASSUME NEW u \in SubTopics PROVE InstInv(u)'
      OBVIOUS
    <3>1. Holders(sub', u) = {} => u # t /\ Holders(sub, u) = {}
      <4>1. n \in Holders(sub', t) /\ u # "none"
        BY <2>4, SubAssumption DEF Holders
      <4>2. \A m \in Holders(sub, u) : m \in Holders(sub', u)
        BY <4>1, <1>3, <2>4 DEF Holders
      <4> QED BY <4>1, <4>2
    <3>2. Holders(sub', u) = {} => inst'[u] = NoInstance
      BY <3>1, <2>2 DEF SubInv, InstInv
    <3> QED BY <1>1, <2>7, <3>2 DEF SubInv, InstInv
  <2>10. \A m \in SubNodes : NodeInv(m)'
    <3> SUFFICES ASSUME NEW m \in SubNodes PROVE NodeInv(m)'
      OBVIOUS
    <3>1. CASE m = n
      <4>1. \A u \in SubTopics : n \in inst'[u].conns <=> t = u
        BY <1>3, <2>2, <2>3
      <4> QED BY <3>1, <4>1, <1>1, <1>2, <1>3, <1>4, <2>4, <2>5, <2>3 DEF NodeInv
    <3>2. CASE m # n
      <4>1. \A u \in SubTopics : m \in inst'[u].conns <=> m \in inst[u].conns
        BY <3>2, <2>2, <2>3
      <4>2. sub'[m] = sub[m] /\ last_msg_'[m] = last_msg_[m] /\ life'[m] = life[m]
        BY <3>2, <1>4, <2>4, <2>5
      <4>3. sub[m] # "none" => inst'[sub[m]].last = inst[sub[m]].last
        BY <1>2, <2>7
      <4> QED BY <4>1, <4>2, <4>3, <1>1 DEF SubInv, NodeInv
    <3> QED BY <3>1, <3>2
  <2> QED BY <2>6, <2>8, <2>9, <2>10 DEF SubInv
<1> QED BY <1>6, <1>7 DEF Construct

\* The last node that goes takes the instance with it.
LEMMA DestructKeeps ==
  ASSUME SubInv, NEW n \in SubNodes, Destruct(n)
  PROVE  SubInv'
<1>1. /\ life[n] = "up" /\ life' = [life EXCEPT ![n] = "gone"]
      /\ sub' = [sub EXCEPT ![n] = "none"]
      /\ inst' = Freed([u \in SubTopics |->
                           IF sub[n] = u THEN [inst[u] EXCEPT !.conns = @ \ {n}] ELSE inst[u]],
                        sub')
      /\ newest' = [u \in SubTopics |-> IF Holders(sub', u) = {} THEN <<>> ELSE newest[u]]
      /\ UNCHANGED <<topicPort, last_msg_, posted, heard, handled, turn, moved>>
  BY DEF Destruct
<1>2. /\ life \in [SubNodes -> {"new", "up", "gone"}]
      /\ inst \in [SubTopics -> Instances(posted)]
      /\ newest \in [SubTopics -> SubMessages(posted)]
      /\ sub \in [SubNodes -> SubTopics \union {"none"}]
      /\ posted \in Nat /\ <<>> \in SubMessages(posted) /\ "none" \notin SubTopics
  BY SubAssumption, MessagesGrow DEF SubInv, SubTypes
<1>3. \A m \in SubNodes : /\ life'[m] = IF m = n THEN "gone" ELSE life[m]
                          /\ sub'[m] = IF m = n THEN "none" ELSE sub[m]
  BY <1>1, <1>2
<1>4. \A u \in SubTopics :
        inst'[u] = IF Holders(sub', u) = {} THEN NoInstance
                   ELSE IF sub[n] = u THEN [inst[u] EXCEPT !.conns = @ \ {n}] ELSE inst[u]
  BY <1>1 DEF Freed
<1>5. NoInstance \in Instances(posted) /\ NoInstance.queued = <<>> /\ NoInstance.last = <<>> /\ NoInstance.conns = {}
  BY <1>2 DEF NoInstance, Instances
<1>6. ASSUME NEW u \in SubTopics
      PROVE  /\ inst'[u] \in Instances(posted)
             /\ inst'[u].queued = IF Holders(sub', u) = {} THEN <<>> ELSE inst[u].queued
             /\ inst'[u].last = IF Holders(sub', u) = {} THEN <<>> ELSE inst[u].last
             /\ inst'[u].conns = IF Holders(sub', u) = {} THEN {}
                                 ELSE IF sub[n] = u THEN inst[u].conns \ {n} ELSE inst[u].conns
  <2>1. inst[u] \in Instances(posted)
    BY <1>2
  <2>2. [inst[u] EXCEPT !.conns = @ \ {n}] \in Instances(posted)
    BY <2>1 DEF Instances
  <2>3. CASE Holders(sub', u) = {}
    BY <2>3, <1>4, <1>5
  <2>4. CASE Holders(sub', u) # {} /\ sub[n] = u
    BY <2>1, <2>2, <2>4, <1>4 DEF Instances
  <2>5. CASE Holders(sub', u) # {} /\ sub[n] # u
    BY <2>1, <2>5, <1>4
  <2> QED BY <2>3, <2>4, <2>5
<1>7. SubTypes'
  <2>1. inst' \in [SubTopics -> Instances(posted)]
    BY <1>1, <1>6 DEF Freed
  <2>2. newest' \in [SubTopics -> SubMessages(posted)]
    BY <1>1, <1>2
  <2>3. life' \in [SubNodes -> {"new", "up", "gone"}] /\ sub' \in [SubNodes -> SubTopics \union {"none"}]
    BY <1>1, <1>2
  <2> QED BY <1>1, <2>1, <2>2, <2>3 DEF SubInv, SubTypes
<1>8. ReadInv'
  <2>1. \A u \in SubTopics : inst'[u].queued \in {<<>>, inst[u].queued}
    BY <1>6
  <2>2. IsRead(inst', <<>>)
    BY DEF IsRead
  <2>3. \A m \in SubNodes : IsRead(inst', last_msg_[m]) /\ IsRead(inst', handled[m])
    BY <2>1, ReadStays DEF SubInv, ReadInv
  <2>4. \A u \in SubTopics : IsRead(inst', inst[u].last)
    BY <2>1, ReadStays DEF SubInv, ReadInv
  <2>5. \A u \in SubTopics : inst'[u].last \in {<<>>, inst[u].last}
    BY <1>6
  <2> QED BY <1>1, <2>2, <2>3, <2>4, <2>5 DEF ReadInv
<1>9. \A u \in SubTopics : InstInv(u)'
  BY <1>1, <1>4, <1>6 DEF SubInv, InstInv
<1>10. \A m \in SubNodes : NodeInv(m)'
  <2> SUFFICES ASSUME NEW m \in SubNodes PROVE NodeInv(m)'
    OBVIOUS
  <2>1. NodeInv(m)
    BY DEF SubInv
  <2>2. CASE m = n
    <3>1. n \notin moved => \A u \in SubTopics : n \notin inst'[u].conns
      BY <2>1, <2>2, <1>6 DEF NodeInv
    <3> QED BY <2>2, <3>1, <1>1, <1>2, <1>3 DEF NodeInv
  <2>3. CASE m # n
    <3>1. sub'[m] = sub[m] /\ life'[m] = life[m]
      BY <2>3, <1>3
    <3>2. \A u \in SubTopics : sub[m] = u => Holders(sub', u) # {}
      BY <3>1 DEF Holders
    <3>3. ASSUME m \notin moved, NEW u \in SubTopics PROVE m \in inst'[u].conns <=> sub[m] = u
      BY <3>3, <2>1, <2>3, <3>2, <1>6 DEF NodeInv
    <3>4. sub[m] # "none" => inst'[sub[m]].last = inst[sub[m]].last
      BY <1>2, <1>6, <3>2
    <3> QED BY <2>1, <3>1, <3>3, <3>4, <1>1 DEF NodeInv
  <2> QED BY <2>2, <2>3
<1> QED BY <1>7, <1>8, <1>9, <1>10 DEF SubInv

\* What a tick of n on the topic t comes to.
TickOutcome(n, t) ==
    /\ life[n] = "up" /\ t \in SubTopics /\ UNCHANGED <<life, topicPort, posted>>
    /\ \A m \in SubNodes : sub'[m] = IF m = n THEN t ELSE sub[m]
    /\ sub' \in [SubNodes -> SubTopics \union {"none"}]
    /\ inst' \in [SubTopics -> Instances(posted)]
    /\ \A u \in SubTopics : u # t =>
          inst'[u] = IF Holders(sub', u) = {} THEN NoInstance ELSE inst[u]
    /\ inst'[t].conns = IF sub[n] = t THEN inst[t].conns ELSE inst[t].conns \union {n}
    /\ inst'[t].queued = <<>>
    /\ inst'[t].last = IF inst[t].queued = <<>> THEN inst[t].last ELSE inst[t].queued
    /\ last_msg_' \in [SubNodes -> SubMessages(posted)]
    /\ \A m \in SubNodes : m # n =>
          last_msg_'[m] = IF inst[t].queued # <<>> /\ m \in inst[t].conns
                          THEN inst[t].queued ELSE last_msg_[m]
    /\ last_msg_'[n] = IF n \in Latching THEN heard'[n] ELSE <<>>
    /\ heard' \in [SubNodes -> SubMessages(posted)]
    /\ heard'[n] = IF inst[t].queued # <<>> /\ n \in inst'[t].conns THEN inst[t].queued
                   ELSE IF sub[n] = t \/ inst[t].last = <<>> THEN last_msg_[n]
                   ELSE inst[t].last
    /\ handled' \in [SubNodes -> SubMessages(posted)]
    /\ \A m \in SubNodes : m # n => handled'[m] = handled[m]
    /\ handled'[n] = IF heard'[n] = <<>> THEN handled[n] ELSE heard'[n]

LEMMA TickSubSteps ==
  ASSUME SubInv, NEW n \in SubNodes, TickSub(n)
  PROVE  TickOutcome(n, topicPort[n])
<1> DEFINE t == topicPort[n]
           stays == sub[n] = t
           left == Freed(inst, sub')
           taken == IF stays THEN [inst |-> inst, msgs |-> last_msg_]
                              ELSE createSubscriber(left, last_msg_, n, t)
           now == Spun(taken, t)
<1>1. /\ life[n] = "up" /\ sub' = [sub EXCEPT ![n] = t]
      /\ inst' = now.inst
      /\ heard' = [heard EXCEPT ![n] = now.msgs[n]]
      /\ handled' = [handled EXCEPT ![n] = IF now.msgs[n] = <<>> THEN @ ELSE now.msgs[n]]
      /\ last_msg_' = IF n \in Latching THEN now.msgs ELSE [now.msgs EXCEPT ![n] = <<>>]
      /\ UNCHANGED <<life, topicPort, posted>>
  BY DEF TickSub
<1>2. /\ t \in SubTopics /\ posted \in Nat /\ <<>> \in SubMessages(posted)
      /\ sub \in [SubNodes -> SubTopics \union {"none"}]
      /\ inst \in [SubTopics -> Instances(posted)]
      /\ last_msg_ \in [SubNodes -> SubMessages(posted)]
      /\ heard \in [SubNodes -> SubMessages(posted)]
      /\ handled \in [SubNodes -> SubMessages(posted)]
  BY MessagesGrow DEF SubInv, SubTypes
<1>3. \A m \in SubNodes : sub'[m] = IF m = n THEN t ELSE sub[m]
  BY <1>1, <1>2
<1>4. \A i \in Instances(posted) : i.conns \in SUBSET SubNodes /\ i.queued \in SubMessages(posted)
                                   /\ i.last \in SubMessages(posted)
  BY DEF Instances
<1>5. NoInstance \in Instances(posted)
  BY <1>2 DEF NoInstance, Instances
\* What the node leaves behind.
<1>6. /\ left \in [SubTopics -> Instances(posted)] /\ left[t] = inst[t]
      /\ \A u \in SubTopics : u # t => left[u] = IF Holders(sub', u) = {} THEN NoInstance ELSE inst[u]
  <2>1. n \in Holders(sub', t)
    BY <1>3 DEF Holders
  <2>2. \A u \in SubTopics : left[u] = IF Holders(sub', u) = {} THEN NoInstance ELSE inst[u]
    BY DEF Freed
  <2>3. left = [u \in SubTopics |-> left[u]]
    BY DEF Freed
  <2> HIDE DEF left
  <2>4. \A u \in SubTopics : left[u] \in Instances(posted)
    BY <2>2, <1>2, <1>5
  <2>5. left \in [SubTopics -> Instances(posted)]
    BY <2>3, <2>4
  <2> QED BY <2>1, <2>2, <2>5, <1>2
<1> HIDE DEF left
\* Its instance, with the node connected to it.
<1>7. /\ taken.inst \in [SubTopics -> Instances(posted)]
      /\ \A u \in SubTopics : u # t =>
            taken.inst[u] = IF Holders(sub', u) = {} THEN NoInstance ELSE inst[u]
      /\ taken.inst[t].conns = IF stays THEN inst[t].conns ELSE inst[t].conns \union {n}
      /\ taken.inst[t].queued = inst[t].queued /\ taken.inst[t].last = inst[t].last
      /\ taken.msgs \in [SubNodes -> SubMessages(posted)]
      /\ \A m \in SubNodes : m # n => taken.msgs[m] = last_msg_[m]
      /\ taken.msgs[n] = IF stays \/ inst[t].last = <<>> THEN last_msg_[n] ELSE inst[t].last
  <2>1. CASE stays
    <3>1. taken.inst = inst /\ taken.msgs = last_msg_
      BY <2>1
    <3>2. \A u \in SubTopics : u # t => (Holders(sub', u) = {} => inst[u] = NoInstance)
      <4>1. sub' = sub
        BY <1>1, <1>2, <2>1
      <4> QED BY <4>1 DEF SubInv, InstInv
    <3> HIDE DEF taken
    <3> QED BY <2>1, <3>1, <3>2, <1>2
  <2>2. CASE ~stays
    <3>1. /\ taken.inst = [left EXCEPT ![t].conns = @ \union {n}]
          /\ taken.msgs = IF left[t].last = <<>> THEN last_msg_ ELSE [last_msg_ EXCEPT ![n] = left[t].last]
      BY <2>2 DEF createSubscriber
    <3> HIDE DEF taken
    <3>2. /\ taken.inst[t] = [inst[t] EXCEPT !.conns = @ \union {n}] /\ inst[t] \in Instances(posted)
          /\ \A u \in SubTopics : u # t => taken.inst[u] = left[u]
      BY <3>1, <1>2, <1>6
    <3>3. /\ taken.inst[t].conns = inst[t].conns \union {n}
          /\ taken.inst[t].last = inst[t].last /\ taken.inst[t].queued = inst[t].queued
          /\ taken.inst[t] \in Instances(posted) /\ inst[t].last \in SubMessages(posted)
      BY <3>2 DEF Instances
    <3>4. taken.inst \in [SubTopics -> Instances(posted)]
      BY <3>1, <3>2, <3>3, <1>6
    <3>5. /\ taken.msgs \in [SubNodes -> SubMessages(posted)]
          /\ \A m \in SubNodes : m # n => taken.msgs[m] = last_msg_[m]
          /\ taken.msgs[n] = IF inst[t].last = <<>> THEN last_msg_[n] ELSE inst[t].last
      BY <3>1, <3>3, <1>2, <1>6
    <3> QED BY <2>2, <3>2, <3>3, <3>4, <3>5, <1>6
  <2> QED BY <2>1, <2>2
<1> HIDE DEF taken
\* The message that waits is taken for everybody who is connected.
<1>8. /\ inst' \in [SubTopics -> Instances(posted)]
      /\ \A u \in SubTopics : u # t => inst'[u] = taken.inst[u]
      /\ inst'[t].conns = taken.inst[t].conns /\ inst'[t].queued = <<>>
      /\ inst'[t].last = IF inst[t].queued = <<>> THEN inst[t].last ELSE inst[t].queued
      /\ now.msgs \in [SubNodes -> SubMessages(posted)]
      /\ \A m \in SubNodes :
            now.msgs[m] = IF inst[t].queued # <<>> /\ m \in taken.inst[t].conns
                          THEN inst[t].queued ELSE taken.msgs[m]
  <2>1. CASE inst[t].queued = <<>>
    <3>1. now = taken
      BY <2>1, <1>7 DEF Spun
    <3> HIDE DEF now
    <3> QED BY <2>1, <3>1, <1>1, <1>7
  <2>2. CASE inst[t].queued # <<>>
    <3>1. /\ now.inst = [taken.inst EXCEPT ![t].queued = <<>>, ![t].last = inst[t].queued]
          /\ now.msgs = [m \in SubNodes |-> IF m \in taken.inst[t].conns THEN inst[t].queued ELSE taken.msgs[m]]
      BY <2>2, <1>7 DEF Spun
    <3> HIDE DEF now
    <3>2. taken.inst[t] \in Instances(posted) /\ inst[t].queued \in SubMessages(posted)
      BY <1>2, <1>4, <1>7
    <3>3. /\ inst'[t] = [taken.inst[t] EXCEPT !.queued = <<>>, !.last = inst[t].queued]
          /\ \A u \in SubTopics : u # t => inst'[u] = taken.inst[u]
      BY <1>1, <1>2, <1>7, <3>1
    <3>4. /\ inst'[t] \in Instances(posted) /\ inst'[t].queued = <<>> /\ inst'[t].last = inst[t].queued
          /\ inst'[t].conns = taken.inst[t].conns
      BY <3>2, <3>3, <1>2 DEF Instances
    <3>5. inst' \in [SubTopics -> Instances(posted)]
      <4>1. \A u \in SubTopics : inst'[u] \in Instances(posted)
        BY <3>3, <3>4, <1>7
      <4>2. inst' = [u \in SubTopics |-> inst'[u]]
        BY <1>1, <1>7, <3>1
      <4> QED BY <4>1, <4>2
    <3>6. now.msgs \in [SubNodes -> SubMessages(posted)]
      BY <3>1, <3>2, <1>7
    <3> QED BY <2>2, <3>1, <3>3, <3>4, <3>5, <3>6
  <2> QED BY <2>1, <2>2
<1> HIDE DEF now
<1>9. /\ last_msg_' \in [SubNodes -> SubMessages(posted)]
      /\ last_msg_'[n] = IF n \in Latching THEN now.msgs[n] ELSE <<>>
      /\ \A m \in SubNodes : m # n => last_msg_'[m] = now.msgs[m]
  BY <1>1, <1>2, <1>8
<1>10. /\ heard' \in [SubNodes -> SubMessages(posted)] /\ heard'[n] = now.msgs[n]
       /\ handled' \in [SubNodes -> SubMessages(posted)]
       /\ \A m \in SubNodes : m # n => handled'[m] = handled[m]
       /\ handled'[n] = IF heard'[n] = <<>> THEN handled[n] ELSE heard'[n]
  BY <1>1, <1>2, <1>8
<1>11. sub' \in [SubNodes -> SubTopics \union {"none"}]
  BY <1>1, <1>2
<1>12. \A m \in SubNodes : m # n => (m \in taken.inst[t].conns <=> m \in inst[t].conns)
  BY <1>7
<1>13. \A m \in SubNodes : m # n =>
               last_msg_'[m] = IF inst[t].queued # <<>> /\ m \in inst[t].conns
                               THEN inst[t].queued ELSE last_msg_[m]
  BY <1>7, <1>8, <1>9, <1>12
<1>14. heard'[n] = IF inst[t].queued # <<>> /\ n \in inst'[t].conns THEN inst[t].queued
                   ELSE IF sub[n] = t \/ inst[t].last = <<>> THEN last_msg_[n]
                   ELSE inst[t].last
  BY <1>7, <1>8, <1>10
<1>15. life[n] = "up" /\ t \in SubTopics /\ UNCHANGED <<life, topicPort, posted>>
  BY <1>1, <1>2
<1>16. /\ \A u \in SubTopics : u # t =>
               inst'[u] = IF Holders(sub', u) = {} THEN NoInstance ELSE inst[u]
       /\ inst'[t].conns = IF sub[n] = t THEN inst[t].conns ELSE inst[t].conns \union {n}
  BY <1>7, <1>8
<1> HIDE DEF stays, t
<1>17. TickOutcome(n, t)
  BY <1>3, <1>8, <1>9, <1>10, <1>11, <1>13, <1>14, <1>15, <1>16 DEF TickOutcome
<1> QED BY <1>17 DEF t

\* A tick moves the newest message to every node that listens.
LEMMA TickSubKeeps ==
  ASSUME SubInv, NEW n \in SubNodes, TickSub(n)
  PROVE  SubInv'
<1> DEFINE t == topicPort[n]
<1>0. t = topicPort[n] /\ TickOutcome(n, t)
  BY TickSubSteps
<1> HIDE DEF t
<1>1. /\ life[n] = "up" /\ t \in SubTopics /\ UNCHANGED <<life, topicPort, posted>>
      /\ \A m \in SubNodes : sub'[m] = IF m = n THEN t ELSE sub[m]
      /\ sub' \in [SubNodes -> SubTopics \union {"none"}]
      /\ inst' \in [SubTopics -> Instances(posted)]
      /\ last_msg_' \in [SubNodes -> SubMessages(posted)]
      /\ heard' \in [SubNodes -> SubMessages(posted)]
      /\ handled' \in [SubNodes -> SubMessages(posted)]
  BY <1>0 DEF TickOutcome
<1>2. \A u \in SubTopics : u # t =>
         inst'[u] = IF Holders(sub', u) = {} THEN NoInstance ELSE inst[u]
  BY <1>0 DEF TickOutcome
<1>3. /\ inst'[t].conns = IF sub[n] = t THEN inst[t].conns ELSE inst[t].conns \union {n}
      /\ inst'[t].queued = <<>>
      /\ inst'[t].last = IF inst[t].queued = <<>> THEN inst[t].last ELSE inst[t].queued
  BY <1>0 DEF TickOutcome
<1>4. /\ last_msg_'[n] = IF n \in Latching THEN heard'[n] ELSE <<>>
      /\ \A m \in SubNodes : m # n =>
            last_msg_'[m] = IF inst[t].queued # <<>> /\ m \in inst[t].conns
                            THEN inst[t].queued ELSE last_msg_[m]
  BY <1>0 DEF TickOutcome
<1>5. /\ heard'[n] = IF inst[t].queued # <<>> /\ n \in inst'[t].conns THEN inst[t].queued
                     ELSE IF sub[n] = t \/ inst[t].last = <<>> THEN last_msg_[n]
                     ELSE inst[t].last
      /\ \A m \in SubNodes : m # n => handled'[m] = handled[m]
      /\ handled'[n] = IF heard'[n] = <<>> THEN handled[n] ELSE heard'[n]
  BY <1>0 DEF TickOutcome
<1>6. /\ moved' = IF sub[n] = t \/ sub[n] = "none" THEN moved ELSE moved \union {n}
      /\ newest' = [u \in SubTopics |-> IF Holders(sub', u) = {} THEN <<>> ELSE newest[u]]
      /\ turn' = [turn EXCEPT ![n] = ~@]
  BY <1>0 DEF TickSub
<1>7. /\ posted \in Nat /\ <<>> \in SubMessages(posted) /\ "none" \notin SubTopics
      /\ moved \subseteq SubNodes /\ inst \in [SubTopics -> Instances(posted)]
      /\ newest \in [SubTopics -> SubMessages(posted)]
      /\ sub \in [SubNodes -> SubTopics \union {"none"}]
  BY SubAssumption, MessagesGrow DEF SubInv, SubTypes
<1>8. NoInstance.queued = <<>> /\ NoInstance.last = <<>> /\ NoInstance.conns = {}
  BY DEF NoInstance
<1>9. n \in Holders(sub', t) /\ \A u \in SubTopics : u # t => Holders(sub', u) \subseteq Holders(sub, u)
  BY <1>1 DEF Holders
<1>10. SubTypes'
  <2>1. newest' \in [SubTopics -> SubMessages(posted)]
    BY <1>6, <1>7
  <2>2. turn' \in [SubNodes -> BOOLEAN]
    <3>1. turn \in [SubNodes -> BOOLEAN]
      BY DEF SubInv, SubTypes
    <3>2. (~turn[n]) \in BOOLEAN
      OBVIOUS
    <3> QED BY <3>1, <3>2, <1>6
  <2>3. moved' \subseteq SubNodes
    BY <1>6, <1>7
  <2> QED BY <1>1, <2>1, <2>2, <2>3 DEF SubInv, SubTypes
\* Nothing new waits anywhere.
<1>11. \A u \in SubTopics : inst'[u].queued \in {<<>>, inst[u].queued}
  BY <1>2, <1>3, <1>8
<1>12. IsRead(inst', <<>>)
  BY DEF IsRead
\* The message that was taken waits nowhere else.
<1>13. inst[t].queued # <<>> => IsRead(inst', inst[t].queued)
  <2> SUFFICES ASSUME inst[t].queued # <<>>, NEW u \in SubTopics, inst'[u].queued # <<>>
               PROVE  inst'[u].queued # inst[t].queued
    BY DEF IsRead
  <2>1. u # t /\ inst'[u].queued = inst[u].queued
    BY <1>3, <1>11
  <2>2. inst[u].queued \in MessagesOf(u, posted) /\ inst[t].queued \in MessagesOf(t, posted)
    BY <2>1, <1>1 DEF SubInv, InstInv
  <2> QED BY <2>1, <2>2, TopicsDiffer
<1>14. \A u \in SubTopics : IsRead(inst', inst[u].last)
  BY <1>11, ReadStays DEF SubInv, ReadInv
<1>15. \A m \in SubNodes : IsRead(inst', last_msg_[m]) /\ IsRead(inst', handled[m])
  BY <1>11, ReadStays DEF SubInv, ReadInv
<1>16. ReadInv'
  <2>1. IsRead(inst', heard'[n])
    BY <1>1, <1>5, <1>13, <1>14, <1>15
  <2>2. \A m \in SubNodes : IsRead(inst', handled'[m])
    BY <2>1, <1>5, <1>15
  <2>3. \A m \in SubNodes : IsRead(inst', last_msg_'[m])
    BY <2>1, <1>4, <1>12, <1>13, <1>15
  <2>4. \A u \in SubTopics : IsRead(inst', inst'[u].last)
    BY <1>2, <1>3, <1>8, <1>12, <1>13, <1>14
  <2> QED BY <2>2, <2>3, <2>4 DEF ReadInv
<1>17. \A u \in SubTopics : InstInv(u)'
  <2> SUFFICES ASSUME NEW u \in SubTopics PROVE InstInv(u)'
    OBVIOUS
  <2>1. InstInv(u)
    BY DEF SubInv
  <2>2. CASE u = t
    <3>1. Holders(sub', t) # {}
      BY <1>9
    <3>2. newest'[t] = newest[t]
      BY <3>1, <1>1, <1>6
    <3> QED BY <2>1, <2>2, <3>1, <3>2, <1>3 DEF InstInv
  <2>3. CASE u # t
    <3>1. newest'[u] = IF Holders(sub', u) = {} THEN <<>> ELSE newest[u]
      BY <1>6
    <3> QED BY <2>1, <2>3, <3>1, <1>1, <1>2, <1>8, <1>9 DEF InstInv
  <2> QED BY <2>2, <2>3
<1>18. \A m \in SubNodes : NodeInv(m)'
  <2> SUFFICES ASSUME NEW m \in SubNodes PROVE NodeInv(m)'
    OBVIOUS
  <2>1. NodeInv(m) /\ InstInv(t) /\ life'[m] = life[m]
    BY <1>1 DEF SubInv
  <2>2. CASE m # n
    <3>1. sub'[m] = sub[m] /\ handled'[m] = handled[m] /\ (m \in moved' <=> m \in moved)
      BY <2>2, <1>1, <1>5, <1>6
    <3>2. \A u \in SubTopics : sub[m] = u => Holders(sub', u) # {}
      BY <3>1 DEF Holders
    <3>3. m \in inst'[t].conns <=> m \in inst[t].conns
      BY <2>2, <1>3
    <3>4. ASSUME m \notin moved, NEW u \in SubTopics PROVE m \in inst'[u].conns <=> sub[m] = u
      <4>1. m \in inst[u].conns <=> sub[m] = u
        BY <2>1, <3>4 DEF NodeInv
      <4>2. CASE u = t
        BY <4>1, <4>2, <3>3
      <4>3. CASE u # t
        BY <4>1, <4>3, <3>2, <1>2, <1>8
      <4> QED BY <4>2, <4>3
    <3>5. ASSUME sub[m] = "none", life[m] # "gone" PROVE last_msg_'[m] = <<>>
      BY <2>1, <2>2, <3>5, <1>1, <1>4, <1>7 DEF NodeInv
    <3>6. ASSUME m \notin moved, sub[m] # "none", inst'[sub[m]].last = <<>>
          PROVE  handled[m] = <<>>
      <4>1. sub[m] \in SubTopics /\ inst[sub[m]].last = <<>>
        BY <3>2, <3>6, <1>1, <1>2, <1>3, <1>7
      <4> QED BY <2>1, <3>6, <4>1 DEF NodeInv
    <3>7. ASSUME m \notin moved, sub[m] # "none"
          PROVE  last_msg_'[m] = IF handled[m] = inst'[sub[m]].last /\ m \notin Latching THEN <<>>
                                    ELSE inst'[sub[m]].last
      <4>1. /\ sub[m] \in SubTopics /\ (m \in inst[t].conns <=> sub[m] = t)
            /\ last_msg_[m] = IF handled[m] = inst[sub[m]].last /\ m \notin Latching THEN <<>>
                                   ELSE inst[sub[m]].last
        BY <2>1, <3>7, <1>1, <1>7 DEF NodeInv
      <4>2. CASE sub[m] = t /\ inst[t].queued # <<>>
        <5>1. handled[m] # inst[t].queued
          BY <4>2, <1>1 DEF SubInv, ReadInv, IsRead
        <5> QED BY <4>1, <4>2, <5>1, <2>2, <1>3, <1>4
      <4>3. CASE sub[m] = t /\ inst[t].queued = <<>>
        BY <4>1, <4>3, <2>2, <1>3, <1>4
      <4>4. CASE sub[m] # t
        BY <4>1, <4>4, <2>2, <3>2, <1>2, <1>4
      <4> QED BY <4>2, <4>3, <4>4
    <3> QED BY <2>1, <3>1, <3>4, <3>5, <3>6, <3>7 DEF NodeInv
  <2>3. CASE m = n
    <3>1. sub'[n] = t /\ t # "none" /\ life'[n] = "up"
      BY <1>1, <1>7
    <3>2. ASSUME n \notin moved'
          PROVE  /\ \A u \in SubTopics : n \in inst'[u].conns <=> t = u
                 /\ handled'[n] = inst'[t].last
                 /\ n \in Latching => heard'[n] = inst'[t].last
      <4>1. n \notin moved /\ (sub[n] = t \/ sub[n] = "none")
        BY <3>2, <1>6
      <4>2. \A u \in SubTopics : n \in inst[u].conns <=> sub[n] = u
        BY <2>1, <2>3, <4>1 DEF NodeInv
      <4>3. \A u \in SubTopics : n \in inst'[u].conns <=> t = u
        <5> SUFFICES ASSUME NEW u \in SubTopics PROVE n \in inst'[u].conns <=> t = u
          OBVIOUS
        <5>1. CASE u = t
          BY <5>1, <4>1, <4>2, <1>3
        <5>2. CASE u # t
          BY <5>2, <4>1, <4>2, <1>2, <1>7, <1>8
        <5> QED BY <5>1, <5>2
      <4>4. CASE inst[t].queued # <<>>
        BY <4>3, <4>4, <1>1, <1>3, <1>5
      <4>5. CASE inst[t].queued = <<>> /\ sub[n] = t
        <5>1. /\ last_msg_[n] = IF handled[n] = inst[t].last /\ n \notin Latching THEN <<>>
                              ELSE inst[t].last
              /\ inst[t].last = <<>> => handled[n] = <<>>
          BY <2>1, <2>3, <3>1, <4>1, <4>5 DEF NodeInv
        <5> QED BY <4>3, <4>5, <5>1, <1>1, <1>3, <1>5
      <4>6. CASE inst[t].queued = <<>> /\ sub[n] = "none"
        <5>1. handled[n] = <<>> /\ last_msg_[n] = <<>>
          BY <2>1, <2>3, <4>6, <1>1 DEF NodeInv
        <5> QED BY <4>3, <4>6, <5>1, <3>1, <1>1, <1>3, <1>5
      <4> QED BY <4>1, <4>3, <4>4, <4>5, <4>6
    <3> QED BY <2>3, <3>1, <3>2, <1>4 DEF NodeInv
  <2> QED BY <2>2, <2>3
<1> QED BY <1>10, <1>16, <1>17, <1>18 DEF SubInv
\* What onTick gets is the newest message, unless it has had that before.
LEMMA TickSubIsServed ==
  ASSUME SubInv, NEW n \in SubNodes, TickSub(n)
  PROVE  HandlesTheNewestOnce
<1> DEFINE t == topicPort[n]
<1>0. t = topicPort[n] /\ TickOutcome(n, t)
  BY TickSubSteps
<1> HIDE DEF t
<1>1. /\ life[n] = "up" /\ t \in SubTopics /\ sub'[n] = t
      /\ inst'[t].conns = IF sub[n] = t THEN inst[t].conns ELSE inst[t].conns \union {n}
  BY <1>0 DEF TickOutcome
<1>2. heard'[n] = IF inst[t].queued # <<>> /\ n \in inst'[t].conns THEN inst[t].queued
                  ELSE IF sub[n] = t \/ inst[t].last = <<>> THEN last_msg_[n]
                  ELSE inst[t].last
  BY <1>0 DEF TickOutcome
<1>3. /\ moved' = IF sub[n] = t \/ sub[n] = "none" THEN moved ELSE moved \union {n}
      /\ turn' = [turn EXCEPT ![n] = ~@]
  BY <1>0 DEF TickSub
<1>4. \A m \in SubNodes : m # n => turn'[m] = turn[m]
  BY <1>3 DEF SubInv, SubTypes
<1>5. newest[t] = IF inst[t].queued # <<>> THEN inst[t].queued ELSE inst[t].last
  BY <1>1 DEF SubInv, InstInv
<1>6. inst[t].queued # <<>> => handled[n] # inst[t].queued
  BY <1>1 DEF SubInv, ReadInv, IsRead
<1>7. ASSUME n \notin moved'
      PROVE  heard'[n] = IF handled[n] = newest[t] /\ n \notin Latching THEN <<>> ELSE newest[t]
  <2>1. n \notin moved /\ (sub[n] = t \/ sub[n] = "none") /\ NodeInv(n)
    BY <1>3, <1>7 DEF SubInv
  <2>2. n \in inst'[t].conns
    BY <2>1, <1>1 DEF NodeInv
  <2>3. CASE inst[t].queued # <<>>
    BY <2>2, <2>3, <1>2, <1>5, <1>6
  <2>4. CASE inst[t].queued = <<>> /\ sub[n] = t
    <3>1. last_msg_[n] = IF handled[n] = inst[t].last /\ n \notin Latching THEN <<>> ELSE inst[t].last
      BY <2>1, <2>4, <1>1, SubAssumption DEF NodeInv
    <3> QED BY <2>4, <3>1, <1>2, <1>5
  <2>5. CASE inst[t].queued = <<>> /\ sub[n] = "none"
    <3>1. handled[n] = <<>> /\ last_msg_[n] = <<>> /\ t # "none"
      BY <2>1, <2>5, <1>1, SubAssumption DEF NodeInv
    <3> QED BY <2>5, <3>1, <1>2, <1>5
  <2> QED BY <2>1, <2>3, <2>4, <2>5
<1> QED BY <1>1, <1>4, <1>7 DEF HandlesTheNewestOnce

\* SubInv is inductive.
LEMMA SubInvariance == SubSpec => []SubInv
<1>1. SubInv /\ [SubNext]_subVars => SubInv'
  <2> SUFFICES ASSUME SubInv, [SubNext]_subVars PROVE SubInv'
    OBVIOUS
  <2>1. CASE UNCHANGED subVars
    BY <2>1 DEF subVars, SubInv, SubTypes, ReadInv, IsRead, InstInv, NodeInv, Holders
  <2>2. ASSUME NEW n \in SubNodes, Construct(n) \/ Destruct(n) \/ TickSub(n) \/ TopicChanges(n)
        PROVE  SubInv'
    BY <2>2, ConstructKeeps, DestructKeeps, TickSubKeeps, TopicChangeKeeps
  <2>3. ASSUME NEW t \in SubTopics, PublishOn(t) PROVE SubInv'
    BY <2>3, PublishKeeps
  <2> QED BY <2>1, <2>2, <2>3 DEF SubNext
<1> QED BY <1>1, SubInvInit, PTL DEF SubSpec

\* For every set of nodes and topics, and every order of messages, ticks and changes of
\* the port: the conditions that share a subscription get each newest message once, or in every tick
\* if they latch it, and no broadcast reaches one that is gone, unless it had left its topic (RosTopicSubNode,
\* createSubscriber and the SubscriberInstance's broadcaster).
THEOREM TopicsCorrect == SubSpec => SubscribersAreServed
<1>1. SubInv => NobodyWritesToTheDead
  <2> SUFFICES ASSUME SubInv, NEW t \in SubTopics, NEW n \in inst[t].conns, life[n] = "gone"
               PROVE  n \in moved
    BY DEF NobodyWritesToTheDead
  <2>1. n \in SubNodes /\ t # "none"
    BY SubAssumption DEF SubInv, SubTypes, Instances
  <2> QED BY <2>1 DEF SubInv, NodeInv
<1>2. SubInv /\ [SubNext]_subVars => [HandlesTheNewestOnce]_subVars
  <2> SUFFICES ASSUME SubInv, SubNext PROVE HandlesTheNewestOnce
    OBVIOUS
  <2>1. ASSUME turn' = turn PROVE HandlesTheNewestOnce
    BY <2>1 DEF HandlesTheNewestOnce
  <2>2. ASSUME NEW n \in SubNodes, TickSub(n) PROVE HandlesTheNewestOnce
    BY <2>2, TickSubIsServed
  <2>3. ASSUME NEW n \in SubNodes, Construct(n) \/ Destruct(n) \/ TopicChanges(n)
        PROVE  turn' = turn
    BY <2>3 DEF Construct, Destruct, TopicChanges
  <2>4. ASSUME NEW t \in SubTopics, PublishOn(t) PROVE turn' = turn
    BY <2>4 DEF PublishOn
  <2> QED BY <2>1, <2>2, <2>3, <2>4 DEF SubNext
<1> QED BY <1>1, <1>2, SubInvariance, PTL DEF SubSpec, SubscribersAreServed

-----------------------------------------------------------------------------
(* RateController and the delay after a success.                             *)

(***************************************************************************)
(* The types of the variables, and the part of the state that the rate     *)
(* depends on: while RateController is active its timer started at its     *)
(* activation or at the last success, and a child that is RUNNING was      *)
(* started when a success was allowed again.                               *)
(***************************************************************************)
GateTypes ==
    /\ time \in Nat
    /\ rate \in [status : Outcomes \union {"IDLE"}, child : Outcomes \union {"IDLE"},
                 start : Nat, first : {FALSE}]
    /\ after \in [status : Outcomes \union {"IDLE"}, child : {"IDLE", "RUNNING"}, last : Nat]
    /\ begun \in Nat /\ passes \in Nat /\ wins \in Nat

TimerInv ==
    /\ begun <= time /\ rate.start <= time
    /\ rate.status # "IDLE" =>
          /\ begun <= rate.start
          /\ passes * Period <= Period + (rate.start - begun)
          /\ rate.child = "RUNNING" => passes = 0 \/ time - rate.start >= Period
    /\ PassesAreRated

RateInv == GateTypes /\ TimerInv

(* One success more adds one period. *)
LEMMA OneMore == \A n, p \in Nat : (n + 1) * p = n * p + p /\ 0 * p = 0 /\ 1 * p = p
  BY SMT

LEMMA PeriodNat == Period \in Nat /\ Period > 0
  BY GateAssumption, SMT

LEMMA RateInvInit == GateInit => RateInv
  <1> SUFFICES ASSUME GateInit PROVE RateInv
    OBVIOUS
  <1>1. GateTypes
    BY DEF GateInit, GateTypes, Outcomes
  <1>2. passes * Period = 0
    BY OneMore, PeriodNat DEF GateInit
  <1>3. TimerInv
    BY <1>2, PeriodNat, SMT DEF GateInit, TimerInv, PassesAreRated
  <1> QED
    BY <1>1, <1>3 DEF RateInv

(* A tick of RateController, whatever its child returns. *)
LEMMA TickRateKeeps ==
  ASSUME RateInv, NEW o \in Outcomes, TickRate(o)
  PROVE  RateInv'
  <1> DEFINE r == Activated(rate)
             due == r.first \/ r.child = "RUNNING" \/ time - r.start >= Period
             fresh == rate.status = "IDLE"
             before == IF fresh THEN 0 ELSE passes
  <1>0. /\ rate' = IF due THEN Ended(r, o) ELSE [r EXCEPT !.status = "RUNNING"]
        /\ begun' = IF fresh THEN time ELSE begun
        /\ passes' = before + (IF due /\ o = "SUCCESS" THEN 1 ELSE 0)
        /\ UNCHANGED <<time, after, wins>>
    BY DEF TickRate
  <1>1. /\ time \in Nat /\ begun \in Nat /\ passes \in Nat /\ before \in Nat
        /\ begun <= time /\ rate.start <= time /\ rate.start \in Nat
    BY SMT DEF RateInv, GateTypes, TimerInv
  <1>2. r \in [status : Outcomes \union {"IDLE"}, child : Outcomes \union {"IDLE"},
               start : Nat, first : BOOLEAN]
    BY <1>1 DEF RateInv, GateTypes, Activated
  <1>3. /\ fresh => r.start = time /\ r.first = TRUE
        /\ ~fresh => r = rate /\ r.first = FALSE
        /\ r.child = rate.child
    BY DEF RateInv, GateTypes, Activated
  <1> HIDE DEF r
  <1>4. /\ due => /\ rate'.start = IF o = "SUCCESS" THEN time ELSE r.start
                  /\ rate'.child = o /\ rate'.status = o /\ rate'.first = FALSE
        /\ ~due => /\ rate'.start = r.start /\ rate'.child = r.child
                   /\ rate'.status = "RUNNING" /\ rate'.first = r.first
    BY <1>0, <1>2 DEF Ended
  <1>5. fresh => due
    BY <1>3
  <1>6. GateTypes'
    <2>1. rate' \in [status : Outcomes \union {"IDLE"}, child : Outcomes \union {"IDLE"},
                     start : Nat, first : {FALSE}]
      <3>1. CASE due
        BY <3>1, <1>0, <1>1, <1>2 DEF Ended
      <3>2. CASE ~due
        BY <3>2, <1>0, <1>1, <1>2, <1>3, <1>5 DEF Outcomes
      <3> QED
        BY <3>1, <3>2
    <2>2. passes' \in Nat /\ begun' \in Nat
      BY <1>0, <1>1
    <2> QED
      BY <2>1, <2>2, <1>0 DEF RateInv, GateTypes
  <1>7. (before + 1) * Period = before * Period + Period /\ before * Period \in Nat
    BY OneMore, PeriodNat, <1>1, SMT
  <1>8. \* what the new success may count on
        due => before * Period <= time - begun'
    <2>1. CASE fresh
      <3>1. before * Period = 0
        BY <2>1, OneMore, PeriodNat
      <3> QED
        BY <2>1, <3>1, <1>0, <1>1, SMT
    <2>2. CASE ~fresh
      <3>1. /\ begun' = begun /\ before = passes /\ r.start = rate.start
            /\ begun <= rate.start
            /\ passes * Period <= Period + (rate.start - begun)
            /\ rate.child = "RUNNING" => passes = 0 \/ time - rate.start >= Period
        BY <2>2, <1>0, <1>3 DEF RateInv, TimerInv
      <3>2. passes = 0 => passes * Period = 0
        BY OneMore, PeriodNat
      <3>3. due => passes = 0 \/ time - rate.start >= Period
        BY <3>1, <1>3, <2>2
      <3> QED
        BY <3>1, <3>2, <3>3, <1>1, <1>7, PeriodNat, SMT
    <2> QED
      BY <2>1, <2>2
  <1>9. TimerInv'
    <2>1. CASE due /\ o = "SUCCESS"
      <3>1. passes' = before + 1 /\ rate'.start = time /\ rate'.child # "RUNNING" /\ time' = time
        BY <2>1, <1>0, <1>4
      <3>2. begun' <= time /\ begun' \in Nat
        BY <1>0, <1>1
      <3>3. passes' * Period <= Period + (time - begun')
        <4>1. passes' * Period = before * Period + Period
          BY <3>1, <1>7
        <4>2. before * Period <= time - begun'
          BY <2>1, <1>8
        <4>3. \A y, p, t, b \in Nat : y <= t - b => y + p <= p + (t - b)
          BY SMT
        <4>4. before * Period \in Nat /\ Period \in Nat /\ time \in Nat /\ begun' \in Nat
          BY <1>7, <1>1, <3>2, PeriodNat
        <4> HIDE DEF before, due
        <4>5. before * Period + Period <= Period + (time - begun')
          BY <4>2, <4>3, <4>4, Zenon
        <4> QED
          BY <4>1, <4>5, Zenon
      <3> QED
        BY <3>1, <3>2, <3>3, <1>1, SMT DEF TimerInv, PassesAreRated
    <2>2. CASE due /\ o # "SUCCESS"
      <3>1. /\ passes' = before /\ rate'.start = r.start /\ rate'.child = o /\ time' = time
        BY <2>2, <1>0, <1>1, <1>4
      <3>2. CASE fresh
        <4>1. before = 0 /\ begun' = time /\ r.start = time /\ before * Period = 0
          BY <3>2, <1>0, <1>3, OneMore, PeriodNat
        <4> QED
          BY <4>1, <3>1, <1>1, PeriodNat, SMT DEF TimerInv, PassesAreRated
      <3>3. CASE ~fresh
        <4>1. /\ before = passes /\ begun' = begun /\ r.start = rate.start /\ rate.status # "IDLE"
          BY <3>3, <1>0, <1>3
        <4>2. passes = 0 \/ time - rate.start >= Period
          BY <4>1, <1>3, <2>2, <3>3 DEF RateInv, TimerInv
        <4> QED
          BY <4>1, <4>2, <3>1, <1>1, PeriodNat, SMT DEF RateInv, TimerInv, PassesAreRated
      <3> QED
        BY <3>2, <3>3
    <2>3. CASE ~due
      <3>1. /\ passes' = passes /\ begun' = begun /\ rate'.start = rate.start /\ time' = time
            /\ rate'.child # "RUNNING" /\ rate.status # "IDLE"
        BY <2>3, <1>0, <1>1, <1>3, <1>4, <1>5
      <3> QED
        BY <3>1, <1>1, SMT DEF RateInv, TimerInv, PassesAreRated
    <2> QED
      BY <2>1, <2>2, <2>3
  <1> QED
    BY <1>6, <1>9 DEF RateInv

LEMMA RateInvStep == RateInv /\ [GateNext]_gateVars => RateInv'
  <1> SUFFICES ASSUME RateInv, [GateNext]_gateVars PROVE RateInv'
    OBVIOUS
  <1>1. ASSUME NEW o \in Outcomes, TickRate(o) PROVE RateInv'
    BY <1>1, TickRateKeeps
  <1>2. ASSUME NEW o \in Outcomes, NEW timeout \in Timeouts, TickAfter(timeout, o) PROVE RateInv'
    <2>1. GateTypes'
      <3> DEFINE due == time - after.last >= timeout
      <3>1. /\ after' = after \/ after' = [status |-> o,
                                         child |-> IF o = "RUNNING" THEN "RUNNING" ELSE "IDLE",
                                         last |-> IF o = "SUCCESS" THEN time ELSE after.last]
            /\ wins' = wins \/ wins' = wins + 1
            /\ UNCHANGED <<time, rate, begun, passes>>
        <4>1. CASE due
          BY <1>2, <4>1 DEF TickAfter, RateInv, GateTypes
        <4>2. CASE ~due
          BY <1>2, <4>2 DEF TickAfter, RateInv, GateTypes
        <4> QED
          BY <4>1, <4>2
      <3>2. time \in Nat /\ after.last \in Nat /\ wins \in Nat
        BY DEF RateInv, GateTypes
      <3>3. after' \in [status : Outcomes \union {"IDLE"}, child : {"IDLE", "RUNNING"}, last : Nat]
        BY <3>1, <3>2 DEF RateInv, GateTypes
      <3>4. wins' \in Nat
        BY <3>1, <3>2
      <3> QED
        BY <3>1, <3>3, <3>4 DEF RateInv, GateTypes
    <2> QED
      BY <1>2, <2>1 DEF RateInv, TimerInv, PassesAreRated, TickAfter
  <1>3. CASE ResetRate
    <2>1. /\ rate'.start = rate.start /\ rate'.status = "IDLE"
          /\ rate' \in [status : Outcomes \union {"IDLE"}, child : Outcomes \union {"IDLE"},
                        start : Nat, first : {FALSE}]
      BY <1>3 DEF RateInv, GateTypes, ResetRate, Outcomes
    <2> QED
      BY <1>3, <2>1 DEF RateInv, GateTypes, TimerInv, PassesAreRated, ResetRate
  <1>4. CASE ResetAfter
    <2>1. GateTypes'
      BY <1>4 DEF RateInv, GateTypes, ResetAfter, Outcomes
    <2> QED
      BY <1>4, <2>1 DEF RateInv, TimerInv, PassesAreRated, ResetAfter
  <1>5. CASE GateTime
    <2>0. time' = time + 1 /\ time' \in Nat /\ UNCHANGED <<rate, after, begun, passes, wins>>
      BY <1>5 DEF RateInv, GateTypes, GateTime
    <2>1. GateTypes' /\ time' = time + 1
      BY <2>0 DEF RateInv, GateTypes
    <2>2. TimerInv'
      BY <1>5, <2>1, PeriodNat, SMT DEF RateInv, GateTypes, TimerInv, PassesAreRated, GateTime
    <2> QED
      BY <2>1, <2>2 DEF RateInv
  <1>6. CASE UNCHANGED gateVars
    BY <1>6 DEF gateVars, RateInv, GateTypes, TimerInv, PassesAreRated
  <1> QED
    BY <1>1, <1>2, <1>3, <1>4, <1>5, <1>6 DEF GateNext

(* For every period, and however its child runs, fails or is halted, an      *)
(* active RateController lets its child succeed once and once more for every *)
(* period that has passed (RateController::tick).                            *)
THEOREM RateCorrect == GateSpec => []PassesAreRated
  <1>1. RateInv => PassesAreRated
    BY DEF RateInv, TimerInv
  <1> QED
    BY RateInvInit, RateInvStep, <1>1, PTL DEF GateSpec

(* The shortest of the timeouts is one of them: the choice in                *)
(* SuccessesAreSpaced is defined.                                            *)
Shortest == CHOOSE t \in Timeouts : \A u \in Timeouts : t <= u

LEMMA ShortestIsATimeout ==
  Shortest \in Timeouts /\ (\A u \in Timeouts : Shortest <= u) /\ Shortest \in Nat
  <1>1. Timeouts \subseteq Nat /\ Timeouts # {}
    BY GateAssumption
  <1>2. \E x \in Timeouts : \A y \in Timeouts : ~(<<y, x>> \in OpToRel(<, Nat))
    BY <1>1, WFMin, NatLessThanWellFounded
  <1>3. PICK x \in Timeouts : \A y \in Timeouts : ~(<<y, x>> \in OpToRel(<, Nat))
    BY <1>2
  <1>4. \A y \in Timeouts : x <= y
    <2> SUFFICES ASSUME NEW y \in Timeouts PROVE x <= y
      OBVIOUS
    <2>1. x \in Nat /\ y \in Nat
      BY <1>1
    <2>2. ~(y < x)
      BY <1>3, <2>1 DEF OpToRel
    <2> QED
      BY <2>1, <2>2, SMT
  <1> QED
    BY <1>1, <1>4 DEF Shortest

(* Each success of TickAfterTimeout's child pays for one timeout.            *)
SpacedInv ==
    /\ time \in Nat /\ after.last \in Nat /\ wins \in Nat
    /\ after.last <= time
    /\ wins * Shortest <= after.last

LEMMA SpacedStep == SpacedInv /\ GateTypes /\ [GateNext]_gateVars => SpacedInv'
  <1> SUFFICES ASSUME SpacedInv, GateTypes, [GateNext]_gateVars PROVE SpacedInv'
    OBVIOUS
  <1>1. ASSUME NEW o \in Outcomes, TickRate(o) PROVE SpacedInv'
    BY <1>1 DEF TickRate, SpacedInv
  <1>2. ASSUME NEW o \in Outcomes, NEW timeout \in Timeouts, TickAfter(timeout, o) PROVE SpacedInv'
    <2> DEFINE due == time - after.last >= timeout
    <2>1. timeout \in Nat /\ Shortest <= timeout /\ Shortest \in Nat
      BY ShortestIsATimeout, GateAssumption
    <2>2. CASE due /\ o = "SUCCESS"
      <3>1. after'.last = time /\ wins' = wins + 1 /\ time' = time
        BY <1>2, <2>2 DEF TickAfter
      <3>2. wins' * Shortest = wins * Shortest + Shortest /\ wins * Shortest \in Nat
        BY <3>1, <2>1, OneMore, SMT DEF SpacedInv
      <3> QED
        BY <3>1, <3>2, <2>1, <2>2, SMT DEF SpacedInv
    <2>3. CASE ~(due /\ o = "SUCCESS")
      <3>1. after'.last = after.last /\ wins' = wins /\ time' = time
        BY <1>2, <2>3 DEF TickAfter, SpacedInv
      <3> QED
        BY <3>1 DEF SpacedInv
    <2> QED
      BY <2>2, <2>3
  <1>3. CASE ResetRate
    BY <1>3 DEF ResetRate, SpacedInv
  <1>4. CASE ResetAfter
    BY <1>4 DEF ResetAfter, SpacedInv, GateTypes
  <1>5. CASE GateTime
    <2>1. time' = time + 1 /\ after' = after /\ wins' = wins
      BY <1>5 DEF GateTime
    <2> QED
      BY <2>1, SMT DEF SpacedInv
  <1>6. CASE UNCHANGED gateVars
    BY <1>6 DEF gateVars, SpacedInv
  <1> QED
    BY <1>1, <1>2, <1>3, <1>4, <1>5, <1>6 DEF GateNext

(* For every set of timeouts, and through every halt and reset, the child of *)
(* TickAfterTimeout succeeds at most once in the shortest of the timeouts    *)
(* its port has had (TickAfterTimeout::tick).                                *)
THEOREM SpacingCorrect == GateSpec => []SuccessesAreSpaced
  <1>1. GateInit => SpacedInv
    <2> SUFFICES ASSUME GateInit PROVE SpacedInv
      OBVIOUS
    <2>1. wins * Shortest = 0
      BY ShortestIsATimeout, OneMore DEF GateInit
    <2> QED
      BY <2>1 DEF GateInit, SpacedInv
  <1>2. SpacedInv => SuccessesAreSpaced
    <2> SUFFICES ASSUME SpacedInv PROVE SuccessesAreSpaced
      OBVIOUS
    <2>1. wins * Shortest \in Nat
      BY ShortestIsATimeout, SMT DEF SpacedInv
    <2>2. wins * Shortest <= time
      BY <2>1, SMT DEF SpacedInv
    <2> QED
      BY <2>2 DEF SuccessesAreSpaced, Shortest
  <1>3. RateInv => GateTypes
    BY DEF RateInv
  <1> QED
    BY RateInvInit, RateInvStep, SpacedStep, <1>1, <1>2, <1>3, PTL DEF GateSpec

-----------------------------------------------------------------------------
(* The rays of a cloud.                                                      *)

Scans == [0 .. ranges_size - 1 -> Int]

\* The first k points have been folded into the scan.
FoldedTo(scan, cloud, k) ==
  /\ scan = [n \in 0 .. k |-> scan[n]]
  /\ \A n \in 0 .. k :
       scan[n] = IF n = 0 THEN EmptyScan ELSE WithPoint(scan[n - 1], cloud[n])

\* The scans that ScanOf goes through exist, and it returns the last of them.
LEMMA ScanIsFolded ==
  ASSUME NEW cloud \in Clouds
  PROVE  \E scan : FoldedTo(scan, cloud, Len(cloud)) /\ ScanOf(cloud) = scan[Len(cloud)]
<1> DEFINE N == Len(cloud)
           Next(scan, n) == IF n = 0 THEN EmptyScan ELSE WithPoint(scan[n - 1], cloud[n])
           B == {k \in 0 .. N : ~\E scan : FoldedTo(scan, cloud, k)}
<1>1. N \in Nat
  BY LaserScanAssumption
<1>2. B = {}
  <2> SUFFICES ASSUME B # {} PROVE FALSE
    OBVIOUS
  <2>1. B \in SUBSET Nat
    OBVIOUS
  <2>2. PICK h \in B : \A k \in B : h <= k
    BY <2>1, LeastNat
  <2>3. h \in 0 .. N /\ ~\E scan : FoldedTo(scan, cloud, h)
    BY <2>2
  <2>4. CASE h = 0
    <3> DEFINE s == [n \in 0 .. 0 |-> EmptyScan]
    <3>1. FoldedTo(s, cloud, 0)
      BY DEF FoldedTo
    <3> QED BY <3>1, <2>3, <2>4
  <2>5. CASE h # 0
    <3>1. h - 1 \in 0 .. N /\ h - 1 \notin B
      BY <2>2, <2>3, <2>5, <1>1
    <3>2. PICK r : FoldedTo(r, cloud, h - 1)
      BY <3>1
    <3> DEFINE s == [n \in 0 .. h |-> IF n = h THEN WithPoint(r[h - 1], cloud[h]) ELSE r[n]]
    <3>3. \A n \in 0 .. h : s[n] = IF n = h THEN WithPoint(r[h - 1], cloud[h]) ELSE r[n]
      OBVIOUS
    <3>4. s = [n \in 0 .. h |-> s[n]]
      OBVIOUS
    <3> HIDE DEF s, B
    <3>5. ASSUME NEW n \in 0 .. h PROVE s[n] = IF n = 0 THEN EmptyScan ELSE WithPoint(s[n - 1], cloud[n])
      <4>1. CASE n = h
        <5>1. h - 1 \in 0 .. h /\ h - 1 # h
          BY <2>3, <2>5, <1>1
        <5>2. s[h - 1] = r[h - 1] /\ s[h] = WithPoint(r[h - 1], cloud[h])
          BY <3>3, <3>5, <4>1, <5>1
        <5> QED BY <4>1, <5>2, <2>5
      <4>2. CASE n # h
        <5>1. n \in 0 .. h - 1 /\ s[n] = r[n]
          BY <3>3, <3>5, <4>2, <2>3, <1>1
        <5>2. r[n] = IF n = 0 THEN EmptyScan ELSE WithPoint(r[n - 1], cloud[n])
          BY <3>2, <5>1 DEF FoldedTo
        <5>3. n # 0 => s[n - 1] = r[n - 1]
          <6>1. n # 0 => n - 1 \in 0 .. h /\ n - 1 # h
            BY <3>5, <2>3, <1>1
          <6> QED BY <6>1, <3>3
        <5> QED BY <5>1, <5>2, <5>3
      <4> QED BY <4>1, <4>2
    <3>6. FoldedTo(s, cloud, h)
      BY <3>4, <3>5 DEF FoldedTo
    <3> QED BY <3>6, <2>3
  <2> QED BY <2>4, <2>5
<1>3. N \in 0 .. N /\ N \notin B
  BY <1>1, <1>2
<1>4. PICK r : FoldedTo(r, cloud, N)
  BY <1>3
<1>5. r = [n \in 0 .. N |-> IF n = 0 THEN EmptyScan ELSE WithPoint(r[n - 1], cloud[n])]
  BY <1>4 DEF FoldedTo
<1> DEFINE f == CHOOSE s : s = [n \in 0 .. N |-> IF n = 0 THEN EmptyScan ELSE WithPoint(s[n - 1], cloud[n])]
<1>6. f = [n \in 0 .. N |-> IF n = 0 THEN EmptyScan ELSE WithPoint(f[n - 1], cloud[n])]
  BY <1>5
<1>7. ScanOf(cloud) = f[N]
  BY DEF ScanOf
<1> HIDE DEF f, N
<1>8. FoldedTo(f, cloud, N)
  BY <1>6 DEF FoldedTo
<1> QED BY <1>7, <1>8 DEF N


\* The ranges of the first n points that belong to ray i.
InSector(cloud, n, i) ==
  {p.range : p \in {q \in {cloud[j] : j \in 1 .. n} : /\ Accepted(q)
                      /\ q.angle >= i * angle_increment_ /\ q.angle < (i + 1) * angle_increment_}}

\* x is the least of a set of numbers: then it is what Min returns.
Least(x, S) == x \in S /\ \A y \in S : x <= y

LEMMA MinIsLeast ==
  ASSUME NEW S \in SUBSET Int, NEW x, Least(x, S)
  PROVE  Min(S) = x
<1>1. Min(S) \in S /\ \A y \in S : Min(S) <= y
  BY DEF Min, Least
<1> DEFINE least == Min(S)
<1>2. least \in Int /\ x \in Int /\ least <= x /\ x <= least
  BY <1>1 DEF Least
<1> HIDE DEF least
<1>3. least = x
  BY <1>2
<1> QED BY <1>3 DEF least

\* A point that lies within the limits belongs to the ray of its index and to no other,
\* and the scan has it unless the point ends an opening angle that the rays fill.
LEMMA OneSector ==
  ASSUME NEW a \in 0 .. angle_max_
  PROVE  /\ a \div angle_increment_ \in Nat
         /\ a \div angle_increment_ \in 0 .. ranges_size - 1
              <=> ~(a = angle_max_ /\ angle_max_ % angle_increment_ = 0)
         /\ \A i \in 0 .. ranges_size - 1 :
              (a >= i * angle_increment_ /\ a < (i + 1) * angle_increment_)
                <=> i = a \div angle_increment_
<1> DEFINE w == angle_increment_
           k == a \div w
           t == angle_max_ + w - 1
           z == t \div w
           m == angle_max_ \div w
<1>1. w \in Nat \ {0} /\ angle_max_ \in Nat \ {0} /\ a \in 0 .. angle_max_ /\ a \in Int /\ t \in Int
  BY LaserScanAssumption
<1>2. k \in Int /\ w * k <= a /\ a < w * k + w
  BY <1>1, QuotientBounds
<1>3. z \in Int /\ w * z <= t /\ t < w * z + w
  BY <1>1, QuotientBounds
<1>4. z = ranges_size
  BY DEF ranges_size
<1> HIDE DEF k, z, t, w
<1>5. k >= 0
  <2>1. k <= -1 => w * k <= -w
    BY <1>1, <1>2
  <2> QED BY <2>1, <1>1, <1>2
<1>6. k <= z - 1 <=> ~(a = angle_max_ /\ angle_max_ % w = 0)
  <2>0. t = angle_max_ + w - 1
    BY DEF t
  <2>1. m \in Int /\ angle_max_ % w = angle_max_ - w * m /\ angle_max_ % w \in 0 .. (w - 1)
    <3>1. m \in Int /\ angle_max_ % w = angle_max_ - w * m
      BY <1>1, Remainder
    <3>2. angle_max_ % w \in 0 .. (w - 1)
      BY <1>1
    <3> QED BY <3>1, <3>2
  <2> HIDE DEF m
  <2>2. ASSUME k >= z PROVE a = angle_max_ /\ angle_max_ % w = 0
    <3>1. w * k >= w * z /\ w * k \in Int /\ w * z \in Int
      BY <2>2, <1>1, <1>2, <1>3
    <3>2. angle_max_ < w * z + 1
      BY <2>0, <3>1, <1>1, <1>3
    <3>3. w * z <= a /\ angle_max_ = w * z /\ a = angle_max_
      BY <3>1, <3>2, <1>1, <1>2
    <3>4. angle_max_ % w = w * (z - m) /\ w * (z - m) \in Int
      BY <2>1, <3>1, <3>3, <1>1, <1>3
    <3>5. z - m <= 0 => w * (z - m) <= 0
      BY <2>1, <1>1, <1>3
    <3>6. z - m >= 1 => w * (z - m) >= w
      BY <2>1, <1>1, <1>3
    <3> QED BY <2>1, <3>3, <3>4, <3>5, <3>6, <1>1, <1>3
  <2>3. ASSUME a = angle_max_, angle_max_ % w = 0 PROVE k >= z
    <3>1. angle_max_ = w * m /\ w * m \in Int
      BY <2>1, <2>3, <1>1
    <3>2. w * m < w * k + w /\ w * z < w * m + w
      BY <2>0, <2>3, <3>1, <1>1, <1>2, <1>3
    <3>3. m <= k /\ z <= m
      BY <2>1, <3>2, <1>1, <1>2, <1>3, QuotientsAreOrdered
    <3> QED BY <2>1, <3>3, <1>2, <1>3
  <2> QED BY <2>2, <2>3, <1>2, <1>3
<1>7. ASSUME NEW i \in Int PROVE (a >= i * w /\ a < (i + 1) * w) <=> i = k
  <2>1. i * w \in Int /\ k * w \in Int /\ (i + 1) * w = i * w + w /\ w * k = k * w
    BY <1>1, <1>2
  <2>2. i - k >= 1 => (i - k) * w >= w
    BY <1>1, <1>2
  <2>3. k - i >= 1 => (k - i) * w >= w
    BY <1>1, <1>2
  <2>4. (i - k) * w = i * w - k * w /\ (k - i) * w = k * w - i * w
    BY <1>1, <1>2
  <2> HIDE DEF w
  <2>5. CASE i = k
    BY <2>5, <2>1, <1>1, <1>2
  <2>6. CASE i - k >= 1
    BY <2>6, <2>1, <2>2, <2>4, <1>1, <1>2
  <2>7. CASE k - i >= 1
    BY <2>7, <2>1, <2>3, <2>4, <1>1, <1>2
  <2> QED BY <2>5, <2>6, <2>7, <1>2
<1>8. k \in Nat /\ (k \in 0 .. ranges_size - 1 <=> ~(a = angle_max_ /\ angle_max_ % w = 0))
  BY <1>2, <1>3, <1>4, <1>5, <1>6
<1>9. \A i \in 0 .. ranges_size - 1 : i \in Int
  OBVIOUS
<1> QED BY <1>7, <1>8, <1>9 DEF k, w


\* One more point: the rays stay the nearest of their points.
LEMMA OneMorePoint ==
  ASSUME NEW cloud \in Clouds, NEW n \in 1 .. Len(cloud), NEW s \in Scans,
         \A i \in 0 .. ranges_size - 1 : Least(s[i], InSector(cloud, n - 1, i) \union {Infinity})
  PROVE  /\ WithPoint(s, cloud[n]) \in Scans
         /\ \A i \in 0 .. ranges_size - 1 :
              Least(WithPoint(s, cloud[n])[i], InSector(cloud, n, i) \union {Infinity})
<1> DEFINE p == cloud[n]
           t == WithPoint(s, p)
           k == Index(p)
           R == 0 .. ranges_size - 1
           Mine(i) == Accepted(p) /\ p.angle >= i * angle_increment_
                                  /\ p.angle < (i + 1) * angle_increment_
           A(i) == InSector(cloud, n - 1, i) \union {Infinity}
           B(i) == InSector(cloud, n, i) \union {Infinity}
<1>1. p \in ScanPoint /\ p.range \in Int /\ p.angle \in Int
  <2>1. cloud \in Seq(ScanPoint)
    BY LaserScanAssumption
  <2>2. p \in ScanPoint
    BY <2>1
  <2> QED BY <2>2 DEF ScanPoint
<1>2. \A i : B(i) = A(i) \union (IF Mine(i) THEN {p.range} ELSE {})
  <2>1. {cloud[j] : j \in 1 .. n} = {cloud[j] : j \in 1 .. n - 1} \union {p}
    <3>1. 1 .. n = (1 .. n - 1) \union {n}
      OBVIOUS
    <3> QED BY <3>1
  <2> QED BY <2>1 DEF InSector
<1>3. Accepted(p) => p.angle \in 0 .. angle_max_
  BY <1>1, LaserScanAssumption DEF Accepted
<1>4. Accepted(p) => k \in Nat /\ \A i \in R : Mine(i) <=> i = k
  BY <1>3, OneSector DEF Index
<1>0. ranges_size \in Int
  <2>1. angle_max_ + angle_increment_ - 1 \in Int /\ angle_increment_ \in Nat \ {0}
    BY LaserScanAssumption
  <2> QED BY <2>1, QuotientBounds DEF ranges_size
<1> HIDE DEF p, k, A, B
<1>5. CASE ~(Accepted(p) /\ k < ranges_size)
  <2>1. t = s
    BY <1>5 DEF WithPoint, k
  <2>2. \A i \in R : B(i) = A(i)
    <3>1. Accepted(p) => \A i \in R : i # k
      BY <1>0, <1>4, <1>5
    <3> QED BY <1>2, <1>4, <3>1
  <2> QED BY <2>1, <2>2 DEF A, B, p
<1>6. CASE Accepted(p) /\ k < ranges_size
  <2> DEFINE x == Min({s[k], p.range})
  <2>0. k \in R /\ s[k] \in Int /\ p.range \in Int
    <3>1. k \in R
      BY <1>0, <1>4, <1>6
    <3> QED BY <1>1, <3>1 DEF Scans
  <2>1. x \in Int /\ x \in {s[k], p.range} /\ x <= s[k] /\ x <= p.range
    <3>1. CASE s[k] <= p.range
      <4>1. Least(s[k], {s[k], p.range})
        BY <3>1, <2>0 DEF Least
      <4>2. x = s[k]
        BY <4>1, <2>0, MinIsLeast
      <4> HIDE DEF x
      <4> QED BY <4>2, <3>1, <2>0
    <3>2. CASE ~(s[k] <= p.range)
      <4>1. Least(p.range, {s[k], p.range})
        BY <3>2, <2>0 DEF Least
      <4>2. x = p.range
        BY <4>1, <2>0, MinIsLeast
      <4> HIDE DEF x
      <4> QED BY <4>2, <3>2, <2>0
    <3> QED BY <3>1, <3>2
  <2>2. t = [s EXCEPT ![k] = x]
    BY <1>6 DEF WithPoint, k
  <2> HIDE DEF x, t
  <2>3. t \in Scans /\ t[k] = x /\ \A i \in R : i # k => t[i] = s[i]
    BY <2>0, <2>1, <2>2 DEF Scans
  <2>4. Least(s[k], A(k)) /\ B(k) = A(k) \union {p.range}
    BY <2>0, <1>2, <1>4, <1>6 DEF A
  <2>5. \A y \in A(k) : y \in Int
    <3>1. \A q \in {cloud[j] : j \in 1 .. n - 1} : q.range \in Int
      <4>1. cloud \in Seq(ScanPoint)
        BY LaserScanAssumption
      <4>2. \A j \in 1 .. n - 1 : cloud[j] \in ScanPoint
        BY <4>1
      <4> QED BY <4>2 DEF ScanPoint
    <3> QED BY <3>1, LaserScanAssumption DEF A, InSector, Infinity
  <2>6. Least(x, B(k))
    BY <2>0, <2>1, <2>4, <2>5 DEF Least
  <2>7. ASSUME NEW i \in R, i # k PROVE Least(t[i], B(i))
    <3>1. t[i] = s[i] /\ B(i) = A(i) /\ Least(s[i], A(i))
      BY <2>3, <2>7, <1>2, <1>4, <1>6 DEF A
    <3> QED BY <3>1
  <2>8. \A i \in R : Least(t[i], B(i))
    BY <2>3, <2>6, <2>7
  <2> QED BY <2>3, <2>8 DEF B, t, p
<1> QED BY <1>5, <1>6

\* Each ray of the scan of a cloud is the nearest of its points.
LEMMA ScanIsNearest ==
  ASSUME NEW cloud \in Clouds
  PROVE  /\ ScanOf(cloud) \in Scans
         /\ \A i \in 0 .. ranges_size - 1 :
              Least(ScanOf(cloud)[i], InSector(cloud, Len(cloud), i) \union {Infinity})
<1> DEFINE N == Len(cloud)
           R == 0 .. ranges_size - 1
           Good(s, n) == s \in Scans /\ \A i \in R : Least(s[i], InSector(cloud, n, i) \union {Infinity})
<1>1. PICK scan : FoldedTo(scan, cloud, N) /\ ScanOf(cloud) = scan[N]
  BY ScanIsFolded
<1>2. N \in Nat
  BY LaserScanAssumption
<1> HIDE DEF N
<1>3. Good(EmptyScan, 0)
  <2>1. Infinity \in Int
    BY LaserScanAssumption DEF Infinity
  <2>2. \A i : InSector(cloud, 0, i) = {}
    BY DEF InSector
  <2>3. EmptyScan \in Scans /\ \A i \in R : EmptyScan[i] = Infinity
    BY <2>1 DEF EmptyScan, Scans
  <2> QED BY <2>1, <2>2, <2>3 DEF Least
<1>4. ASSUME NEW n \in 1 .. N, Good(scan[n - 1], n - 1) PROVE Good(scan[n], n)
  <2>1. n \in 0 .. N /\ n # 0
    BY <1>2
  <2>2. scan[n] = WithPoint(scan[n - 1], cloud[n])
    BY <2>1, <1>1 DEF FoldedTo
  <2> QED BY <2>2, <1>4, OneMorePoint DEF N
<1> DEFINE B == {n \in 0 .. N : ~Good(scan[n], n)}
<1>5. B = {}
  <2> SUFFICES ASSUME B # {} PROVE FALSE
    OBVIOUS
  <2>1. B \in SUBSET Nat
    OBVIOUS
  <2>2. PICK h \in B : \A k \in B : h <= k
    BY <2>1, LeastNat
  <2>3. h \in 0 .. N /\ ~Good(scan[h], h)
    BY <2>2
  <2>4. h # 0
    <3>0. 0 \in 0 .. N
      BY <1>2
    <3>1. scan[0] = EmptyScan
      BY <3>0, <1>1 DEF FoldedTo
    <3> QED BY <3>1, <2>3, <1>3
  <2>5. h - 1 \in 0 .. N /\ h - 1 \notin B /\ h \in 1 .. N
    <3>1. h - 1 \in 0 .. N /\ h \in 1 .. N /\ ~(h <= h - 1)
      BY <2>3, <2>4, <1>2
    <3>2. h - 1 \in B => h <= h - 1
      BY <2>2
    <3> QED BY <3>1, <3>2
  <2>6. Good(scan[h - 1], h - 1)
    BY <2>5
  <2> HIDE DEF Good
  <2> QED BY <2>5, <2>6, <2>3, <1>4
<1>6. N \in 0 .. N /\ N \notin B
  BY <1>2, <1>5
<1>7. Good(scan[N], N)
  BY <1>6
<1> QED BY <1>1, <1>7 DEF N

\* What the theorem says is inductive: only the callback changes the cloud and the scan.
RaysInv == RaysHoldTheNearestPoint /\ OnlyTheLastAngleHasNoRay

\* What the property says, of a scan and a cloud.
IsScanOf(s, c) ==
  LET points == {c[i] : i \in DOMAIN c}
  IN  \A i \in DOMAIN s :
        LET inSector == {p.range : p \in {q \in points : Accepted(q)
               /\ q.angle >= i * angle_increment_ /\ q.angle < (i + 1) * angle_increment_}}
        IN  s[i] = Min(inSector \cup {Infinity})

LEMMA NearestOfCloud ==
  ASSUME NEW c, NEW s \in Scans,
         \A i \in 0 .. ranges_size - 1 : Least(s[i], InSector(c, Len(c), i) \union {Infinity}),
         c \in Seq(ScanPoint)
  PROVE  IsScanOf(s, c)
<1>1. DOMAIN c = 1 .. Len(c) /\ \A j \in DOMAIN c : c[j] \in ScanPoint
  OBVIOUS
<1>2. ASSUME NEW i \in 0 .. ranges_size - 1
      PROVE  s[i] = Min(InSector(c, Len(c), i) \union {Infinity})
  <2> DEFINE S == InSector(c, Len(c), i) \union {Infinity}
  <2>1. S \in SUBSET Int
    <3>1. \A q \in {c[j] : j \in 1 .. Len(c)} : q.range \in Int
      BY <1>1 DEF ScanPoint
    <3>2. Infinity \in Int
      BY LaserScanAssumption DEF Infinity
    <3>3. \A y \in S : y \in Int
      BY <3>1, <3>2 DEF InSector
    <3> QED BY <3>3
  <2>2. Least(s[i], S)
    OBVIOUS
  <2> HIDE DEF S
  <2>3. Min(S) = s[i]
    BY <2>1, <2>2, MinIsLeast
  <2> QED BY <2>3 DEF S
<1>3. DOMAIN s = 0 .. ranges_size - 1
  BY DEF Scans
<1> QED BY <1>1, <1>2, <1>3 DEF InSector, IsScanOf

(* For every cloud, opening angle and increment, each ray of the published   *)
(* scan is the nearest point of its sector, whatever the order of the points; *)
(* and the points whose index is past the last ray are exactly those at      *)
(* angle_max_ when the increment divides the opening angle, as the node's    *)
(* defaults have it (PointCloudToLaserScanNode::cloudCallback).              *)
THEOREM RaysCorrect == LaserSpec => [](RaysHoldTheNearestPoint /\ OnlyTheLastAngleHasNoRay)
<1>1. LaserInit => RaysInv
  <2> SUFFICES ASSUME LaserInit PROVE RaysInv
    OBVIOUS
  <2>1. cloud_in = <<>> /\ ranges = EmptyScan /\ DOMAIN cloud_in = {}
    BY DEF LaserInit
  <2>2. Infinity \in Int
    BY LaserScanAssumption DEF Infinity
  <2>3. Min({} \union {Infinity}) = Infinity
    <3>1. Least(Infinity, {} \union {Infinity}) /\ {} \union {Infinity} \in SUBSET Int
      BY <2>2 DEF Least
    <3> QED BY <3>1, MinIsLeast
  <2>4. \A i \in DOMAIN ranges : ranges[i] = Infinity
    BY <2>1 DEF EmptyScan
  <2> QED BY <2>1, <2>3, <2>4 DEF RaysInv, RaysHoldTheNearestPoint, OnlyTheLastAngleHasNoRay
<1>2. RaysInv /\ [LaserNext]_laserVars => RaysInv'
  <2> SUFFICES ASSUME RaysInv, [LaserNext]_laserVars PROVE RaysInv'
    OBVIOUS
  <2>1. CASE UNCHANGED scanIO
    BY <2>1 DEF scanIO, RaysInv, RaysHoldTheNearestPoint, OnlyTheLastAngleHasNoRay
  <2>2. ASSUME NEW cloud \in Clouds, cloudCallback(cloud) PROVE RaysInv'
    <3>1. cloud_in' = cloud /\ ranges' = ScanOf(cloud)
      BY <2>2 DEF cloudCallback
    <3>2. cloud \in Seq(ScanPoint)
      BY LaserScanAssumption
    <3>3. PICK s : s = ScanOf(cloud)
      OBVIOUS
    <3>4. /\ s \in Scans
          /\ \A i \in 0 .. ranges_size - 1 :
               Least(s[i], InSector(cloud, Len(cloud), i) \union {Infinity})
      BY <3>3, ScanIsNearest
    <3>5. IsScanOf(s, cloud)
      BY <3>2, <3>4, NearestOfCloud
    <3>6. RaysHoldTheNearestPoint'
      BY <3>1, <3>3, <3>5 DEF RaysHoldTheNearestPoint, IsScanOf
    <3>7. OnlyTheLastAngleHasNoRay'
      <4> SUFFICES ASSUME NEW i \in DOMAIN cloud, Accepted(cloud[i])
                   PROVE  Index(cloud[i]) \in DOMAIN s
                            <=> ~(cloud[i].angle = angle_max_ /\ angle_max_ % angle_increment_ = 0)
        BY <3>1, <3>3 DEF OnlyTheLastAngleHasNoRay
      <4>1. cloud[i] \in ScanPoint
        BY <3>2
      <4>2. cloud[i].angle \in 0 .. angle_max_
        BY <4>1, LaserScanAssumption DEF ScanPoint, Accepted
      <4>3. DOMAIN s = 0 .. ranges_size - 1
        BY <3>4 DEF Scans
      <4> QED BY <4>2, <4>3, OneSector DEF Index
    <3> QED BY <3>6, <3>7 DEF RaysInv
  <2>3. UNCHANGED scanIO \/ \E cloud \in Clouds : cloudCallback(cloud)
    BY DEF LaserNext, GraphChange, ContextShutdown, Unload, JoinThread, CheckLoop,
           FollowListeners, WaitForGraphChange, laserVars
  <2> QED BY <2>1, <2>2, <2>3
<1>3. RaysInv => RaysHoldTheNearestPoint /\ OnlyTheLastAngleHasNoRay
  BY DEF RaysInv
<1> QED BY <1>1, <1>2, <1>3, PTL DEF LaserSpec

-----------------------------------------------------------------------------
(* The checksum of the serial packets: one step of the division, eight of    *)
(* them, and the entry of the table that stands for eight.                   *)

Register == SUBSET (0 .. 15)

Bit(n, power) == (n \div power) % 2 = 1

LEMMA BitsOfNumber ==
  ASSUME NEW n \in Nat
  PROVE  /\ Bits(n) \in Register
         /\ 0 \in Bits(n) <=> Bit(n, 1)
         /\ 1 \in Bits(n) <=> Bit(n, 2)
         /\ 2 \in Bits(n) <=> Bit(n, 4)
         /\ 3 \in Bits(n) <=> Bit(n, 8)
         /\ 4 \in Bits(n) <=> Bit(n, 16)
         /\ 5 \in Bits(n) <=> Bit(n, 32)
         /\ 6 \in Bits(n) <=> Bit(n, 64)
         /\ 7 \in Bits(n) <=> Bit(n, 128)
         /\ 8 \in Bits(n) <=> Bit(n, 256)
         /\ 9 \in Bits(n) <=> Bit(n, 512)
         /\ 10 \in Bits(n) <=> Bit(n, 1024)
         /\ 11 \in Bits(n) <=> Bit(n, 2048)
         /\ 12 \in Bits(n) <=> Bit(n, 4096)
         /\ 13 \in Bits(n) <=> Bit(n, 8192)
         /\ 14 \in Bits(n) <=> Bit(n, 16384)
         /\ 15 \in Bits(n) <=> Bit(n, 32768)
BY DEF Bits, Bit, Register

\* A register is known by its sixteen bits.
LEMMA SixteenBits ==
  \A k \in 0 .. 15 : \/ k = 0 \/ k = 1 \/ k = 2 \/ k = 3 \/ k = 4 \/ k = 5 \/ k = 6 \/ k = 7
                     \/ k = 8 \/ k = 9 \/ k = 10 \/ k = 11 \/ k = 12 \/ k = 13 \/ k = 14 \/ k = 15
OBVIOUS

\* The bits of the polynomial.
LEMMA PolynomialBits == Polynomial = {3, 10, 15}
<1>1. \A k \in 0 .. 15 : k \in Bits(\h8408) <=> k \in {3, 10, 15}
  BY SixteenBits, BitsOfNumber DEF Bit
<1>2. Bits(\h8408) \in Register
  BY BitsOfNumber
<1> HIDE DEF Register
<1> QED BY <1>1, <1>2 DEF Polynomial, Register

LEMMA ShiftedBits ==
  ASSUME NEW r \in Register, NEW n \in Nat
  PROVE  /\ ShiftRight(r, n) \in Register
         /\ \A k : k \in ShiftRight(r, n) <=> k \in 0 .. 15 /\ k + n \in r
BY DEF ShiftRight, Register

LEMMA XorBits ==
  ASSUME NEW a, NEW b
  PROVE  \A k : k \in Xor(a, b) <=> ~(k \in a <=> k \in b)
BY DEF Xor

\* One step of the division, bit by bit.
LEMMA DividedBits ==
  ASSUME NEW r \in Register
  PROVE  /\ DividedByBit(r) \in Register
         /\ \A k \in 0 .. 15 :
              k \in DividedByBit(r) <=> ~(k + 1 \in r <=> 0 \in r /\ k \in {3, 10, 15})
<1> DEFINE p == IF 0 \in r THEN Polynomial ELSE {}
<1>1. ShiftRight(r, 1) \in Register /\ \A k : k \in ShiftRight(r, 1) <=> k \in 0 .. 15 /\ k + 1 \in r
  BY ShiftedBits
<1>2. p \subseteq 0 .. 15 /\ \A k : k \in p <=> 0 \in r /\ k \in {3, 10, 15}
  BY PolynomialBits
<1>3. DividedByBit(r) = Xor(ShiftRight(r, 1), p)
  BY DEF DividedByBit
<1> HIDE DEF p
<1>4. \A k : k \in DividedByBit(r) <=> ~(k \in ShiftRight(r, 1) <=> k \in p)
  BY <1>3, XorBits
<1>5. DividedByBit(r) \in Register
  BY <1>1, <1>2, <1>3 DEF Xor, Register
<1> QED BY <1>1, <1>2, <1>4, <1>5

\* Two registers are divided as one.
LEMMA DivisionIsLinear ==
  ASSUME NEW a \in Register, NEW b \in Register
  PROVE  /\ Xor(a, b) \in Register
         /\ DividedByBit(Xor(a, b)) = Xor(DividedByBit(a), DividedByBit(b))
<1>1. Xor(a, b) \in Register
  BY DEF Xor, Register
<1>2. ASSUME NEW k \in 0 .. 15
      PROVE  k \in DividedByBit(Xor(a, b)) <=> k \in Xor(DividedByBit(a), DividedByBit(b))
  BY <1>1, DividedBits, XorBits
<1>3. DividedByBit(Xor(a, b)) \in Register /\ Xor(DividedByBit(a), DividedByBit(b)) \in Register
  BY <1>1, DividedBits DEF Xor, Register
<1> QED BY <1>1, <1>2, <1>3 DEF Register

\* Nothing but zero is divided to zero.
LEMMA DivisionKeepsDamage ==
  ASSUME NEW r \in Register, r # {}
  PROVE  DividedByBit(r) # {}
<1>1. CASE 0 \in r
  BY <1>1, DividedBits DEF Register
<1>2. CASE 0 \notin r
  <2>1. PICK k \in r : k \in 1 .. 15
    <3>1. PICK k : k \in r
      OBVIOUS
    <3> QED BY <1>2, <3>1 DEF Register
  <2>2. k - 1 \in 0 .. 15 /\ (k - 1) + 1 \in r
    BY <2>1
  <2> QED BY <1>2, <2>2, DividedBits
<1> QED BY <1>1, <1>2

EightSteps(r) ==
  DividedByBit(DividedByBit(DividedByBit(DividedByBit(
    DividedByBit(DividedByBit(DividedByBit(DividedByBit(r))))))))

\* What eight steps make of the register r, bit by bit.
DividedByEight(r, q) ==
  /\ 0 \in q <=> ((8 \in r <=> 0 \in r) <=> 4 \in r)
  /\ 1 \in q <=> ((9 \in r <=> 1 \in r) <=> 5 \in r)
  /\ 2 \in q <=> ((10 \in r <=> 2 \in r) <=> 6 \in r)
  /\ 3 \in q <=> ~((11 \in r <=> 0 \in r) <=> (3 \in r <=> 7 \in r))
  /\ 4 \in q <=> ~(12 \in r <=> 1 \in r)
  /\ 5 \in q <=> ~(13 \in r <=> 2 \in r)
  /\ 6 \in q <=> ~(14 \in r <=> 3 \in r)
  /\ 7 \in q <=> ((15 \in r <=> 0 \in r) <=> 4 \in r)
  /\ 8 \in q <=> ((0 \in r <=> 1 \in r) <=> 5 \in r)
  /\ 9 \in q <=> ((1 \in r <=> 2 \in r) <=> 6 \in r)
  /\ 10 \in q <=> ((2 \in r <=> 3 \in r) <=> 7 \in r)
  /\ 11 \in q <=> 3 \in r
  /\ 12 \in q <=> ~(0 \in r <=> 4 \in r)
  /\ 13 \in q <=> ~(1 \in r <=> 5 \in r)
  /\ 14 \in q <=> ~(2 \in r <=> 6 \in r)
  /\ 15 \in q <=> ~(3 \in r <=> 7 \in r)

\* What one step makes of it.
DividedByOne(r, q) ==
  /\ 0 \in q <=> 1 \in r
  /\ 1 \in q <=> 2 \in r
  /\ 2 \in q <=> 3 \in r
  /\ 3 \in q <=> ~(4 \in r <=> 0 \in r)
  /\ 4 \in q <=> 5 \in r
  /\ 5 \in q <=> 6 \in r
  /\ 6 \in q <=> 7 \in r
  /\ 7 \in q <=> 8 \in r
  /\ 8 \in q <=> 9 \in r
  /\ 9 \in q <=> 10 \in r
  /\ 10 \in q <=> ~(11 \in r <=> 0 \in r)
  /\ 11 \in q <=> 12 \in r
  /\ 12 \in q <=> 13 \in r
  /\ 13 \in q <=> 14 \in r
  /\ 14 \in q <=> 15 \in r
  /\ 15 \in q <=> 0 \in r

LEMMA DividedOnce ==
  ASSUME NEW r \in Register
  PROVE  DividedByBit(r) \in Register /\ DividedByOne(r, DividedByBit(r))
<1>1. 16 \notin r
  BY DEF Register
<1> HIDE DEF Register
<1> QED BY <1>1, DividedBits DEF DividedByOne

LEMMA DividedEightTimes ==
  ASSUME NEW r \in Register
  PROVE  EightSteps(r) \in Register /\ DividedByEight(r, EightSteps(r))
<1> DEFINE r1 == DividedByBit(r)
           r2 == DividedByBit(r1)
           r3 == DividedByBit(r2)
           r4 == DividedByBit(r3)
           r5 == DividedByBit(r4)
           r6 == DividedByBit(r5)
           r7 == DividedByBit(r6)
           r8 == DividedByBit(r7)
<1>0. EightSteps(r) = r8
  BY DEF EightSteps
<1> HIDE DEF r1, r2, r3, r4, r5, r6, r7, r8, Register
<1>1. r1 \in Register /\ DividedByOne(r, r1)
  BY DividedOnce DEF r1
<1>2. r2 \in Register /\ DividedByOne(r1, r2)
  BY <1>1, DividedOnce DEF r2
<1>3. r3 \in Register /\ DividedByOne(r2, r3)
  BY <1>2, DividedOnce DEF r3
<1>4. r4 \in Register /\ DividedByOne(r3, r4)
  BY <1>3, DividedOnce DEF r4
<1>5. r5 \in Register /\ DividedByOne(r4, r5)
  BY <1>4, DividedOnce DEF r5
<1>6. r6 \in Register /\ DividedByOne(r5, r6)
  BY <1>5, DividedOnce DEF r6
<1>7. r7 \in Register /\ DividedByOne(r6, r7)
  BY <1>6, DividedOnce DEF r7
<1>8. r8 \in Register /\ DividedByOne(r7, r8)
  BY <1>7, DividedOnce DEF r8
<1>9. DividedByEight(r, r8)
  BY <1>1, <1>2, <1>3, <1>4, <1>5, <1>6, <1>7, <1>8 DEF DividedByOne, DividedByEight
<1> QED BY <1>0, <1>8, <1>9

\* Every entry of the table is what eight steps make of its index.
LEMMA TableOfEightSteps ==
  ASSUME NEW row \in 0 .. 15, NEW column \in 0 .. 15
  PROVE  LET i == 16 * row + column
         IN  W_CRC_TABLE[i + 1] \in Nat /\ DividedByEight(Bits(i), Bits(W_CRC_TABLE[i + 1]))
<1> DEFINE i == 16 * row + column
           v == W_CRC_TABLE[i + 1]
<1>1. /\ i \in Nat
      /\ \/ column = 0 \/ column = 1 \/ column = 2 \/ column = 3
         \/ column = 4 \/ column = 5 \/ column = 6 \/ column = 7
         \/ column = 8 \/ column = 9 \/ column = 10 \/ column = 11
         \/ column = 12 \/ column = 13 \/ column = 14 \/ column = 15
  OBVIOUS
<1>2. CASE row = 0
  BY <1>1, <1>2, BitsOfNumber DEF W_CRC_TABLE, DividedByEight, Bit
<1>3. CASE row = 1
  BY <1>1, <1>3, BitsOfNumber DEF W_CRC_TABLE, DividedByEight, Bit
<1>4. CASE row = 2
  BY <1>1, <1>4, BitsOfNumber DEF W_CRC_TABLE, DividedByEight, Bit
<1>5. CASE row = 3
  BY <1>1, <1>5, BitsOfNumber DEF W_CRC_TABLE, DividedByEight, Bit
<1>6. CASE row = 4
  BY <1>1, <1>6, BitsOfNumber DEF W_CRC_TABLE, DividedByEight, Bit
<1>7. CASE row = 5
  BY <1>1, <1>7, BitsOfNumber DEF W_CRC_TABLE, DividedByEight, Bit
<1>8. CASE row = 6
  BY <1>1, <1>8, BitsOfNumber DEF W_CRC_TABLE, DividedByEight, Bit
<1>9. CASE row = 7
  BY <1>1, <1>9, BitsOfNumber DEF W_CRC_TABLE, DividedByEight, Bit
<1>10. CASE row = 8
  BY <1>1, <1>10, BitsOfNumber DEF W_CRC_TABLE, DividedByEight, Bit
<1>11. CASE row = 9
  BY <1>1, <1>11, BitsOfNumber DEF W_CRC_TABLE, DividedByEight, Bit
<1>12. CASE row = 10
  BY <1>1, <1>12, BitsOfNumber DEF W_CRC_TABLE, DividedByEight, Bit
<1>13. CASE row = 11
  BY <1>1, <1>13, BitsOfNumber DEF W_CRC_TABLE, DividedByEight, Bit
<1>14. CASE row = 12
  BY <1>1, <1>14, BitsOfNumber DEF W_CRC_TABLE, DividedByEight, Bit
<1>15. CASE row = 13
  BY <1>1, <1>15, BitsOfNumber DEF W_CRC_TABLE, DividedByEight, Bit
<1>16. CASE row = 14
  BY <1>1, <1>16, BitsOfNumber DEF W_CRC_TABLE, DividedByEight, Bit
<1>17. CASE row = 15
  BY <1>1, <1>17, BitsOfNumber DEF W_CRC_TABLE, DividedByEight, Bit
<1> QED
  BY SixteenBits, <1>2, <1>3, <1>4, <1>5, <1>6, <1>7, <1>8, <1>9, <1>10, <1>11, <1>12, <1>13, <1>14, <1>15, <1>16, <1>17

\* The number of a byte has its bits.
LEMMA NumberOfByte ==
  ASSUME NEW b \in Byte
  PROVE  Number(b) \in 0 .. 255 /\ Bits(Number(b)) = b
<1> DEFINE n == Number(b)
           v0 == IF 0 \in b THEN 1 ELSE 0
           v1 == IF 1 \in b THEN 2 ELSE 0
           v2 == IF 2 \in b THEN 4 ELSE 0
           v3 == IF 3 \in b THEN 8 ELSE 0
           v4 == IF 4 \in b THEN 16 ELSE 0
           v5 == IF 5 \in b THEN 32 ELSE 0
           v6 == IF 6 \in b THEN 64 ELSE 0
           v7 == IF 7 \in b THEN 128 ELSE 0
<1>1. n = v0 + v1 + v2 + v3 + v4 + v5 + v6 + v7
  BY DEF Number
<1>2. /\ v0 \in {0, 1} /\ v1 \in {0, 2} /\ v2 \in {0, 4} /\ v3 \in {0, 8}
      /\ v4 \in {0, 16} /\ v5 \in {0, 32} /\ v6 \in {0, 64} /\ v7 \in {0, 128}
  OBVIOUS
<1>3. /\ 0 \in b <=> v0 = 1
      /\ 1 \in b <=> v1 = 2
      /\ 2 \in b <=> v2 = 4
      /\ 3 \in b <=> v3 = 8
      /\ 4 \in b <=> v4 = 16
      /\ 5 \in b <=> v5 = 32
      /\ 6 \in b <=> v6 = 64
      /\ 7 \in b <=> v7 = 128
  OBVIOUS
<1> HIDE DEF n, v0, v1, v2, v3, v4, v5, v6, v7
<1>4. n \in 0 .. 255
  BY <1>1, <1>2
<1>5. Bit(n, 1) <=> v0 = 1
  BY <1>1, <1>2 DEF Bit
<1>6. Bit(n, 2) <=> v1 = 2
  BY <1>1, <1>2 DEF Bit
<1>7. Bit(n, 4) <=> v2 = 4
  BY <1>1, <1>2 DEF Bit
<1>8. Bit(n, 8) <=> v3 = 8
  BY <1>1, <1>2 DEF Bit
<1>9. Bit(n, 16) <=> v4 = 16
  BY <1>1, <1>2 DEF Bit
<1>10. Bit(n, 32) <=> v5 = 32
  BY <1>1, <1>2 DEF Bit
<1>11. Bit(n, 64) <=> v6 = 64
  BY <1>1, <1>2 DEF Bit
<1>12. Bit(n, 128) <=> v7 = 128
  BY <1>1, <1>2 DEF Bit
<1>13. /\ ~Bit(n, 256) /\ ~Bit(n, 512) /\ ~Bit(n, 1024) /\ ~Bit(n, 2048)
       /\ ~Bit(n, 4096) /\ ~Bit(n, 8192) /\ ~Bit(n, 16384) /\ ~Bit(n, 32768)
  BY <1>4 DEF Bit
<1>14. Bits(n) \in Register /\ \A k \in 0 .. 15 : k \in Bits(n) <=> k \in b
  <2>1. \A k \in 8 .. 15 : k \notin b
    BY DEF Byte
  <2>2. n \in Nat
    BY <1>4
  <2>3. ASSUME NEW k \in 0 .. 15 PROVE k \in Bits(n) <=> k \in b
    <3>1. CASE k < 8
      BY <1>3, <1>5, <1>6, <1>7, <1>8, <1>9, <1>10, <1>11, <1>12, <2>2, <3>1, BitsOfNumber, SixteenBits
    <3>2. CASE k >= 8
      BY <1>13, <2>1, <2>2, <3>2, BitsOfNumber, SixteenBits
    <3> QED BY <3>1, <3>2
  <2> QED BY <2>2, <2>3, BitsOfNumber
<1>15. Bits(n) = b
  <2>1. b \subseteq 0 .. 15
    BY DEF Byte
  <2> QED BY <1>14, <2>1 DEF Register
<1> QED BY <1>4, <1>15 DEF n

LEMMA EightBitsDetermine ==
  ASSUME NEW r \in Register, NEW p \in Register, NEW q \in Register,
         DividedByEight(r, p), DividedByEight(r, q)
  PROVE  p = q
<1>1. \A k \in 0 .. 15 : k \in p <=> k \in q
  BY SixteenBits DEF DividedByEight
<1> QED BY <1>1 DEF Register

\* The table takes a byte in one step where the division takes eight.
LEMMA StepIsEight ==
  ASSUME NEW w \in Register, NEW b \in Byte
  PROVE  Step(w, b) \in Register /\ Step(w, b) = EightSteps(Xor(w, b))
<1> DEFINE x == Xor(w, b)
           i == Number(LowByte(x))
           e == Bits(W_CRC_TABLE[i + 1])
<1>1. x \in Register /\ LowByte(x) \in Byte
  BY DEF Xor, LowByte, Register, Byte
<1>2. i \in 0 .. 255 /\ Bits(i) = LowByte(x)
  BY <1>1, NumberOfByte
<1>3. e \in Register /\ DividedByEight(Bits(i), e)
  <2> DEFINE row == i \div 16
             column == i % 16
  <2>1. row \in 0 .. 15 /\ column \in 0 .. 15 /\ 16 * row + column = i
    BY <1>2
  <2> HIDE DEF row, column, i
  <2> QED BY <2>1, TableOfEightSteps, BitsOfNumber
<1>4. Step(w, b) = Xor(ShiftRight(w, 8), e)
  BY DEF Step
<1> HIDE DEF i, e
<1>5. ShiftRight(w, 8) \in Register /\ \A k : k \in ShiftRight(w, 8) <=> k \in 0 .. 15 /\ k + 8 \in x
  <2>1. \A k \in 0 .. 15 : k + 8 \in w <=> k + 8 \in x
    BY XorBits DEF Byte
  <2> QED BY <2>1, ShiftedBits
<1>6. \A k : k \in Step(w, b) <=> ~(k \in ShiftRight(w, 8) <=> k \in e)
  BY <1>4, XorBits
<1>7. Step(w, b) \in Register
  BY <1>3, <1>4, <1>5 DEF Xor, Register
<1>8. DividedByEight(x, Step(w, b))
  <2>1. \A k \in 0 .. 7 : k \in Bits(i) <=> k \in x
    BY <1>2 DEF LowByte
  <2>2. /\ 0 \in Bits(i) <=> 0 \in x
        /\ 1 \in Bits(i) <=> 1 \in x
        /\ 2 \in Bits(i) <=> 2 \in x
        /\ 3 \in Bits(i) <=> 3 \in x
        /\ 4 \in Bits(i) <=> 4 \in x
        /\ 5 \in Bits(i) <=> 5 \in x
        /\ 6 \in Bits(i) <=> 6 \in x
        /\ 7 \in Bits(i) <=> 7 \in x
    BY <2>1
  <2>3. \A k \in Bits(i) : k < 8
    BY <1>2 DEF LowByte
  <2>4. \A k \in x : k < 16
    BY <1>1 DEF Register
  <2> QED BY <1>3, <1>5, <1>6, <2>2, <2>3, <2>4 DEF DividedByEight
<1> QED BY <1>1, <1>7, <1>8, DividedEightTimes, EightBitsDetermine

-----------------------------------------------------------------------------
(* The checksum of a message.                                                *)

\* Counting: what holds of 0, and of the next number, holds up to N.
LEMMA CountedUp ==
  ASSUME NEW N \in Nat, NEW T, 0 \in T, \A n \in 1 .. N : n - 1 \in T => n \in T
  PROVE  \A n \in 0 .. N : n \in T
<1> DEFINE missed == {n \in 0 .. N : n \notin T}
<1> SUFFICES ASSUME missed # {} PROVE FALSE
  OBVIOUS
<1>1. missed \in SUBSET Nat
  OBVIOUS
<1> HIDE DEF missed
<1>2. PICK h \in missed : \A k \in missed : h <= k
  BY <1>1, LeastNat
<1>3. h \in 1 .. N /\ h \notin T /\ h - 1 \in 0 .. N /\ ~(h <= h - 1)
  BY <1>2 DEF missed
<1>4. h - 1 \in T
  BY <1>2, <1>3 DEF missed
<1> QED BY <1>3, <1>4

\* r starts with a and F leads from each of its values to the next.
Leads(r, N, a, F) == r = [n \in 0 .. N |-> IF n = 0 THEN a ELSE F[<<r[n - 1], n>>]]

LEMMA StepsExist ==
  ASSUME NEW N \in Nat, NEW S, NEW a \in S, NEW F \in [S \X (1 .. N) -> S]
  PROVE  \E r \in [0 .. N -> S] : Leads(r, N, a, F)
<1> DEFINE T == {k \in 0 .. N : \E r \in [0 .. k -> S] : Leads(r, k, a, F)}
<1>1. 0 \in T
  <2>1. [n \in 0 .. 0 |-> a] \in [0 .. 0 -> S] /\ Leads([n \in 0 .. 0 |-> a], 0, a, F)
    BY DEF Leads
  <2> QED BY <2>1
<1>2. ASSUME NEW k \in 1 .. N, k - 1 \in T PROVE k \in T
  <2>1. PICK r \in [0 .. k - 1 -> S] : Leads(r, k - 1, a, F)
    BY <1>2
  <2> DEFINE s == [n \in 0 .. k |-> IF n = k THEN F[<<r[k - 1], k>>] ELSE r[n]]
  <2>2. F[<<r[k - 1], k>>] \in S
    BY <2>1
  <2>3. s \in [0 .. k -> S]
    BY <2>1, <2>2
  <2>4. /\ s[k] = F[<<r[k - 1], k>>] /\ k - 1 # k
        /\ \A n \in 0 .. k : n # k => s[n] = r[n] /\ n \in 0 .. k - 1
    OBVIOUS
  <2> HIDE DEF s, T
  <2>5. ASSUME NEW n \in 0 .. k PROVE s[n] = IF n = 0 THEN a ELSE F[<<s[n - 1], n>>]
    <3>1. CASE n = k
      BY <2>4, <3>1
    <3>2. CASE n # k
      <4>1. r[n] = IF n = 0 THEN a ELSE F[<<r[n - 1], n>>]
        BY <2>1, <2>4, <3>2 DEF Leads
      <4>2. n # 0 => n - 1 \in 0 .. k /\ n - 1 # k
        BY <3>2
      <4> QED BY <2>4, <3>2, <4>1, <4>2
    <3> QED BY <3>1, <3>2
  <2>6. Leads(s, k, a, F)
    BY <2>3, <2>5 DEF Leads
  <2> QED BY <2>3, <2>6 DEF T
<1> HIDE DEF T
<1>3. N \in T
  BY <1>1, <1>2, CountedUp
<1> QED BY <1>3 DEF T

\* The eight steps of a byte are the last of those that DividedBy goes through.
LEMMA ByteIsDivided ==
  ASSUME NEW w \in Register, NEW b \in Byte
  PROVE  DividedBy(w, b) = EightSteps(Xor(w, b))
<1> DEFINE F == [p \in Register \X (1 .. 8) |-> DividedByBit(p[1])]
           x == Xor(w, b)
           f == CHOOSE r : r = [n \in 0 .. 8 |-> IF n = 0 THEN x ELSE DividedByBit(r[n - 1])]
<1>1. x \in Register /\ F \in [Register \X (1 .. 8) -> Register]
  BY DividedBits DEF Xor, Register, Byte
<1> HIDE DEF x
<1>2. PICK r \in [0 .. 8 -> Register] : Leads(r, 8, x, F)
  <2> HIDE DEF F
  <2> QED BY <1>1, StepsExist
<1>3. r = [n \in 0 .. 8 |-> IF n = 0 THEN x ELSE DividedByBit(r[n - 1])]
  <2>1. ASSUME NEW n \in 0 .. 8 PROVE r[n] = IF n = 0 THEN x ELSE DividedByBit(r[n - 1])
    <3>1. r[n] = IF n = 0 THEN x ELSE F[<<r[n - 1], n>>]
      BY <1>2 DEF Leads
    <3>2. n # 0 => <<r[n - 1], n>> \in Register \X (1 .. 8)
      OBVIOUS
    <3> QED BY <3>1, <3>2
  <2> QED BY <2>1
<1>4. f = [n \in 0 .. 8 |-> IF n = 0 THEN x ELSE DividedByBit(f[n - 1])]
  BY <1>3
<1>5. DividedBy(w, b) = f[8]
  BY DEF DividedBy, x
<1> HIDE DEF f
<1>6. /\ f[0] = x /\ f[1] = DividedByBit(f[0]) /\ f[2] = DividedByBit(f[1])
      /\ f[3] = DividedByBit(f[2]) /\ f[4] = DividedByBit(f[3]) /\ f[5] = DividedByBit(f[4])
      /\ f[6] = DividedByBit(f[5]) /\ f[7] = DividedByBit(f[6]) /\ f[8] = DividedByBit(f[7])
  BY <1>4
<1> QED BY <1>5, <1>6 DEF EightSteps, x

\* c[n] is what the division of the first n bytes of a message leaves.
Divided(c, message, length) ==
  /\ c \in [0 .. length -> Register] /\ c[0] = CRC16_INIT
  /\ \A n \in 1 .. length : c[n] = EightSteps(Xor(c[n - 1], message[n]))

LEMMA InitialRegister == CRC16_INIT \in Register
BY BitsOfNumber DEF CRC16_INIT

LEMMA ByteAfterByte ==
  ASSUME NEW r \in Register, NEW b \in Byte
  PROVE  EightSteps(Xor(r, b)) \in Register
<1>1. Xor(r, b) \in Register
  BY DEF Xor, Register, Byte
<1> QED BY <1>1, DividedEightTimes

LEMMA DivisionExists ==
  ASSUME NEW message \in Seq(Byte), NEW length \in 0 .. Len(message)
  PROVE  \E c : Divided(c, message, length)
<1> DEFINE F == [p \in Register \X (1 .. length) |-> EightSteps(Xor(p[1], message[p[2]]))]
<1>1. \A n \in 1 .. length : message[n] \in Byte
  OBVIOUS
<1>2. F \in [Register \X (1 .. length) -> Register]
  BY <1>1, ByteAfterByte
<1>3. \A r \in Register, n \in 1 .. length : F[<<r, n>>] = EightSteps(Xor(r, message[n]))
  OBVIOUS
<1> HIDE DEF F
<1>4. PICK c \in [0 .. length -> Register] : Leads(c, length, CRC16_INIT, F)
  <2>1. length \in Nat
    OBVIOUS
  <2> HIDE DEF Register
  <2> QED BY <1>2, <2>1, StepsExist, InitialRegister
<1>5. c[0] = CRC16_INIT
  BY <1>4 DEF Leads
<1>6. ASSUME NEW n \in 1 .. length PROVE c[n] = EightSteps(Xor(c[n - 1], message[n]))
  <2>1. n \in 0 .. length /\ n # 0 /\ c[n - 1] \in Register
    OBVIOUS
  <2>2. c[n] = F[<<c[n - 1], n>>]
    BY <1>4, <2>1 DEF Leads
  <2> QED BY <1>3, <2>1, <2>2
<1> QED BY <1>5, <1>6 DEF Divided

\* Values that start with the initial register and follow one another as the
\* code's and the reference's do are those of the division.
LEMMA FollowsDivision ==
  ASSUME NEW message \in Seq(Byte), NEW length \in 0 .. Len(message), NEW f,
         f = [n \in 0 .. length |-> f[n]], f[0] = CRC16_INIT,
         \A n \in 1 .. length : f[n - 1] \in Register =>
                                f[n] = EightSteps(Xor(f[n - 1], message[n]))
  PROVE  Divided(f, message, length)
<1> DEFINE T == {n \in 0 .. length : f[n] \in Register}
<1>1. 0 \in T
  BY InitialRegister
<1>2. ASSUME NEW n \in 1 .. length, n - 1 \in T PROVE n \in T
  <2>1. message[n] \in Byte /\ f[n - 1] \in Register /\ n \in 0 .. length
    BY <1>2
  <2> QED BY <2>1, ByteAfterByte
<1> HIDE DEF T
<1>3. \A n \in 0 .. length : n \in T
  BY <1>1, <1>2, CountedUp
<1>4. \A n \in 0 .. length : f[n] \in Register
  BY <1>3 DEF T
<1>5. f \in [0 .. length -> Register]
  BY <1>4
<1> QED BY <1>4, <1>5 DEF Divided

LEMMA ChecksumIsDivided ==
  ASSUME NEW message \in Seq(Byte), NEW length \in 0 .. Len(message)
  PROVE  \E c : Divided(c, message, length) /\ Get_CRC16_Check_Sum(message, length) = c[length]
<1> DEFINE f == CHOOSE r : r = [n \in 0 .. length |->
                                 IF n = 0 THEN CRC16_INIT ELSE Step(r[n - 1], message[n])]
<1>1. PICK c : Divided(c, message, length)
  BY DivisionExists
<1>2. c = [n \in 0 .. length |-> IF n = 0 THEN CRC16_INIT ELSE Step(c[n - 1], message[n])]
  <2>1. ASSUME NEW n \in 0 .. length
        PROVE  c[n] = IF n = 0 THEN CRC16_INIT ELSE Step(c[n - 1], message[n])
    <3>1. n # 0 => c[n - 1] \in Register /\ message[n] \in Byte
      BY <1>1 DEF Divided
    <3> QED BY <1>1, <3>1, StepIsEight DEF Divided
  <2> QED BY <1>1, <2>1 DEF Divided
<1>3. f = [n \in 0 .. length |-> IF n = 0 THEN CRC16_INIT ELSE Step(f[n - 1], message[n])]
  BY <1>2
<1>4. Get_CRC16_Check_Sum(message, length) = f[length]
  BY DEF Get_CRC16_Check_Sum
<1> HIDE DEF f
<1>5. ASSUME NEW n \in 1 .. length, f[n - 1] \in Register
      PROVE  f[n] = EightSteps(Xor(f[n - 1], message[n]))
  <2>1. f[n] = Step(f[n - 1], message[n]) /\ message[n] \in Byte
    BY <1>3
  <2> QED BY <1>5, <2>1, StepIsEight
<1>6. f = [n \in 0 .. length |-> f[n]] /\ f[0] = CRC16_INIT
  BY <1>3
<1>7. Divided(f, message, length)
  BY <1>5, <1>6, FollowsDivision
<1> QED BY <1>4, <1>7

LEMMA RemainderIsDivided ==
  ASSUME NEW data \in Seq(Byte)
  PROVE  \E c : Divided(c, data, Len(data)) /\ PolynomialRemainder(data) = c[Len(data)]
<1> DEFINE length == Len(data)
           f == CHOOSE r : r = [n \in 0 .. length |->
                                 IF n = 0 THEN CRC16_INIT ELSE DividedBy(r[n - 1], data[n])]
<1>0. length \in 0 .. Len(data)
  OBVIOUS
<1>1. PICK c : Divided(c, data, length)
  BY <1>0, DivisionExists
<1>2. c = [n \in 0 .. length |-> IF n = 0 THEN CRC16_INIT ELSE DividedBy(c[n - 1], data[n])]
  <2>1. ASSUME NEW n \in 0 .. length
        PROVE  c[n] = IF n = 0 THEN CRC16_INIT ELSE DividedBy(c[n - 1], data[n])
    <3>1. n # 0 => c[n - 1] \in Register /\ data[n] \in Byte
      BY <1>1 DEF Divided
    <3> QED BY <1>1, <3>1, ByteIsDivided DEF Divided
  <2> QED BY <1>1, <2>1 DEF Divided
<1>3. f = [n \in 0 .. length |-> IF n = 0 THEN CRC16_INIT ELSE DividedBy(f[n - 1], data[n])]
  BY <1>2
<1>4. PolynomialRemainder(data) = f[length]
  BY DEF PolynomialRemainder
<1> HIDE DEF f
<1>5. ASSUME NEW n \in 1 .. length, f[n - 1] \in Register
      PROVE  f[n] = EightSteps(Xor(f[n - 1], data[n]))
  <2>1. f[n] = DividedBy(f[n - 1], data[n]) /\ data[n] \in Byte
    BY <1>3
  <2> QED BY <1>5, <2>1, ByteIsDivided
<1>6. f = [n \in 0 .. length |-> f[n]] /\ f[0] = CRC16_INIT
  BY <1>3
<1>7. Divided(f, data, length)
  BY <1>0, <1>5, <1>6, FollowsDivision
<1> QED BY <1>4, <1>7

\* The same bytes are divided the same way.
LEMMA DivisionIsUnique ==
  ASSUME NEW length \in Nat, NEW c, NEW d, NEW p, NEW q,
         Divided(c, p, length), Divided(d, q, length),
         \A n \in 1 .. length : p[n] = q[n]
  PROVE  c[length] = d[length]
<1> DEFINE T == {n \in 0 .. length : c[n] = d[n]}
<1>1. 0 \in T
  BY DEF Divided
<1>2. ASSUME NEW n \in 1 .. length, n - 1 \in T PROVE n \in T
  BY <1>2 DEF Divided
<1> HIDE DEF T
<1>3. length \in T
  BY <1>1, <1>2, CountedUp
<1> QED BY <1>3 DEF T

-----------------------------------------------------------------------------
(* Damage.  What two registers differ by is divided on its own; a window of  *)
(* sixteen bits moves over the flipped bits, E, and is empty at the end just *)
(* when the damage goes unnoticed.                                           *)

LEMMA EightStepsAreLinear ==
  ASSUME NEW a \in Register, NEW b \in Register
  PROVE  EightSteps(Xor(a, b)) = Xor(EightSteps(a), EightSteps(b))
<1> DEFINE D(r) == DividedByBit(r)
<1>1. \A r \in Register : D(r) \in Register
  BY DividedBits
<1>2. \A r, q \in Register : Xor(r, q) \in Register /\ D(Xor(r, q)) = Xor(D(r), D(q))
  BY DivisionIsLinear
<1>3. \A r : EightSteps(r) = D(D(D(D(D(D(D(D(r))))))))
  BY DEF EightSteps
<1> HIDE DEF D, Register
<1>4. D(D(Xor(a, b))) = Xor(D(D(a)), D(D(b))) /\ D(D(a)) \in Register /\ D(D(b)) \in Register
  BY <1>1, <1>2
<1>5. D(D(D(D(Xor(a, b))))) = Xor(D(D(D(D(a)))), D(D(D(D(b)))))
  BY <1>1, <1>2, <1>4
<1>6. D(D(D(D(a)))) \in Register /\ D(D(D(D(b)))) \in Register
  BY <1>1, <1>4
<1>7. D(D(D(D(D(D(Xor(a, b))))))) = Xor(D(D(D(D(D(D(a)))))), D(D(D(D(D(D(b)))))))
  BY <1>1, <1>2, <1>5, <1>6
<1> QED BY <1>1, <1>2, <1>3, <1>6, <1>7

LEMMA XorIsExchanged ==
  ASSUME NEW a, NEW b, NEW c, NEW d
  PROVE  Xor(Xor(a, b), Xor(c, d)) = Xor(Xor(a, c), Xor(b, d))
BY DEF Xor

LEMMA XorIsEmpty ==
  ASSUME NEW a, NEW b
  PROVE  Xor(a, b) = {} <=> a = b
BY DEF Xor

\* The bits of E from bit c of the window that starts at bit m.
Ahead(E, m, c) == {k \in c .. 15 : m + k \in E}

\* Bit b of the message comes into the window.
Enter(r, E, b) == Xor(r, IF b \in E THEN {15} ELSE {})

Window(W, E, M) ==
  /\ W \in [0 .. M -> Register] /\ W[0] = Ahead(E, 0, 0)
  /\ \A m \in 1 .. M : W[m] = Enter(DividedByBit(W[m - 1]), E, m + 15)

LEMMA EnterBits ==
  ASSUME NEW r \in Register, NEW E, NEW b
  PROVE  /\ Enter(r, E, b) \in Register
         /\ \A k \in 0 .. 15 : k \in Enter(r, E, b) <=> ~(k \in r <=> k = 15 /\ b \in E)
BY DEF Enter, Xor, Register

LEMMA WindowExists ==
  ASSUME NEW M \in Nat, NEW E
  PROVE  \E W : Window(W, E, M)
<1> DEFINE F == [p \in Register \X (1 .. M) |-> Enter(DividedByBit(p[1]), E, p[2] + 15)]
<1>1. F \in [Register \X (1 .. M) -> Register]
  BY DividedBits, EnterBits
<1>2. \A r \in Register, m \in 1 .. M : F[<<r, m>>] = Enter(DividedByBit(r), E, m + 15)
  OBVIOUS
<1>3. Ahead(E, 0, 0) \in Register
  BY DEF Ahead, Register
<1> HIDE DEF F, Register
<1>4. PICK W \in [0 .. M -> Register] : Leads(W, M, Ahead(E, 0, 0), F)
  BY <1>1, <1>3, StepsExist
<1>5. W[0] = Ahead(E, 0, 0)
  BY <1>4 DEF Leads
<1>6. ASSUME NEW m \in 1 .. M PROVE W[m] = Enter(DividedByBit(W[m - 1]), E, m + 15)
  <2>1. m \in 0 .. M /\ m # 0 /\ W[m - 1] \in Register
    OBVIOUS
  <2>2. W[m] = F[<<W[m - 1], m>>]
    BY <1>4, <2>1 DEF Leads
  <2> QED BY <1>2, <2>1, <2>2
<1> QED BY <1>5, <1>6 DEF Window

\* A step of the window divides the register in it and moves the bits ahead.
LEMMA WindowMoves ==
  ASSUME NEW u \in Register, NEW E, NEW m \in Nat, NEW c \in 1 .. 8
  PROVE  Enter(DividedByBit(Xor(u, Ahead(E, m, c))), E, m + 16)
           = Xor(DividedByBit(u), Ahead(E, m + 1, c - 1))
<1> DEFINE a == Ahead(E, m, c)
           l == Enter(DividedByBit(Xor(u, a)), E, m + 16)
           r == Xor(DividedByBit(u), Ahead(E, m + 1, c - 1))
<1>1. a \in Register /\ 0 \notin a /\ \A k \in 0 .. 15 : k \in a <=> k >= c /\ m + k \in E
  BY DEF Ahead, Register
<1>2. DividedByBit(u) \in Register /\ DividedByBit(a) \in Register
  BY <1>1, DividedBits
<1>3. \A k \in 0 .. 15 : k \in DividedByBit(a) <=> k < 15 /\ k + 1 >= c /\ (m + k) + 1 \in E
  <2> SUFFICES ASSUME NEW k \in 0 .. 15
               PROVE  k \in DividedByBit(a) <=> k < 15 /\ k + 1 >= c /\ (m + k) + 1 \in E
    OBVIOUS
  <2>1. k \in DividedByBit(a) <=> k + 1 \in a
    BY <1>1, DividedBits
  <2>2. k = 15 => k + 1 \notin a
    BY <1>1 DEF Register
  <2>3. k < 15 => (k + 1 \in a <=> k + 1 >= c /\ (m + k) + 1 \in E)
    <3> HIDE DEF a
    <3> SUFFICES ASSUME k < 15 PROVE k + 1 \in a <=> k + 1 >= c /\ (m + k) + 1 \in E
      OBVIOUS
    <3>1. k + 1 \in 0 .. 15 /\ m + (k + 1) = (m + k) + 1
      OBVIOUS
    <3> QED BY <1>1, <3>1
  <2> QED BY <2>1, <2>2, <2>3
<1>4. DividedByBit(Xor(u, a)) = Xor(DividedByBit(u), DividedByBit(a))
  BY <1>1, DivisionIsLinear
<1>5. \A k \in 0 .. 15 : k \in Ahead(E, m + 1, c - 1) <=> k + 1 >= c /\ (m + k) + 1 \in E
  <2> SUFFICES ASSUME NEW k \in 0 .. 15
               PROVE  k \in Ahead(E, m + 1, c - 1) <=> k + 1 >= c /\ (m + k) + 1 \in E
    OBVIOUS
  <2>1. (m + 1) + k = (m + k) + 1 /\ (k \in c - 1 .. 15 <=> k + 1 >= c)
    OBVIOUS
  <2> QED BY <2>1 DEF Ahead
<1>6. l \in Register /\ r \in Register
  <2>1. Xor(DividedByBit(u), DividedByBit(a)) \in Register
    BY <1>2, DivisionIsLinear
  <2>2. Ahead(E, m + 1, c - 1) \in Register
    BY DEF Ahead, Register
  <2> HIDE DEF a
  <2> QED BY <1>2, <1>4, <2>1, <2>2, EnterBits, DivisionIsLinear
<1> HIDE DEF a
<1>7. ASSUME NEW k \in 0 .. 15 PROVE k \in l <=> k \in r
  <2>1. k \in l <=> ~(k \in Xor(DividedByBit(u), DividedByBit(a)) <=> k = 15 /\ m + 16 \in E)
    BY <1>2, <1>4, EnterBits, DivisionIsLinear
  <2>2. k = 15 => (m + k) + 1 = m + 16 /\ k + 1 >= c
    OBVIOUS
  <2> QED BY <1>3, <1>5, <2>1, <2>2, XorBits
<1> HIDE DEF l, r
<1>8. l = r
  BY <1>6, <1>7 DEF Register
<1> QED BY <1>8 DEF l, r, a

\* The window at bit m is the register u and the bits ahead of it from bit c.
Reads(W, E, m, c, u) == u \in Register /\ W[m] = Xor(u, Ahead(E, m, c))

LEMMA WindowMovesOn ==
  ASSUME NEW E, NEW M \in Nat, NEW W, Window(W, E, M), NEW m \in Nat, m < M,
         NEW c \in 1 .. 8, NEW u, Reads(W, E, m, c, u)
  PROVE  Reads(W, E, m + 1, c - 1, DividedByBit(u))
<1>1. m + 1 \in 1 .. M /\ (m + 1) - 1 = m /\ (m + 1) + 15 = m + 16
  OBVIOUS
<1>2. W[m + 1] = Enter(DividedByBit(W[m]), E, m + 16)
  BY <1>1 DEF Window
<1> HIDE DEF Register
<1> QED BY <1>2, WindowMoves, DividedBits DEF Reads

LEMMA WindowMovesByAByte ==
  ASSUME NEW E, NEW M \in Nat, NEW W, Window(W, E, M),
         NEW m \in Nat, m + 8 <= M, NEW u, Reads(W, E, m, 8, u)
  PROVE  Reads(W, E, m + 8, 0, EightSteps(u))
<1> DEFINE Agrees(v, k) == Reads(W, E, m + k, 8 - k, v)
           D(v) == DividedByBit(v)
<1>1. Agrees(u, 0)
  OBVIOUS
<1>2. ASSUME NEW v, NEW k \in 0 .. 7, Agrees(v, k) PROVE Agrees(D(v), k + 1)
  <2> DEFINE n == m + k
             c == 8 - k
  <2>1. n \in Nat /\ n < M /\ m + (k + 1) = n + 1 /\ c \in 1 .. 8 /\ 8 - (k + 1) = c - 1
    OBVIOUS
  <2>2. Reads(W, E, n, c, v)
    BY <1>2
  <2> HIDE DEF n, c
  <2>3. Reads(W, E, n + 1, c - 1, D(v))
    BY <2>1, <2>2, WindowMovesOn
  <2> QED BY <2>1, <2>3
<1> HIDE DEF Agrees, D
<1>3. Agrees(D(D(D(D(u)))), 4)
  BY <1>1, <1>2
<1>4. Agrees(D(D(D(D(D(D(D(D(u)))))))), 8)
  BY <1>2, <1>3
<1> QED BY <1>4 DEF Agrees, D, EightSteps

\* What the line makes of byte n of a message.
BitsOfByte(E, n) == {k \in 0 .. 7 : 8 * (n - 1) + k \in E}

LEMMA WindowIsDamage ==
  ASSUME NEW E, NEW length \in Nat, NEW p, NEW q, NEW c, NEW d, NEW W,
         Divided(c, p, length), Divided(d, q, length), Window(W, E, 8 * length),
         \A n \in 1 .. length : /\ p[n] \in Byte /\ q[n] \in Byte
                                /\ Xor(p[n], q[n]) = BitsOfByte(E, n)
  PROVE  W[8 * length] = Xor(Xor(c[length], d[length]), Ahead(E, 8 * length, 0))
<1> DEFINE T == {n \in 0 .. length : W[8 * n] = Xor(Xor(c[n], d[n]), Ahead(E, 8 * n, 0))}
<1>1. 0 \in T
  <2>1. c[0] = d[0] /\ W[0] = Ahead(E, 0, 0)
    BY DEF Divided, Window
  <2>2. Xor(c[0], d[0]) = {}
    BY <2>1, XorIsEmpty
  <2>3. Xor({}, Ahead(E, 0, 0)) = Ahead(E, 0, 0)
    BY DEF Xor
  <2> QED BY <2>1, <2>2, <2>3
<1>2. ASSUME NEW n \in 1 .. length, n - 1 \in T PROVE n \in T
  <2> DEFINE m == 8 * (n - 1)
             r == Xor(c[n - 1], d[n - 1])
             u == Xor(r, BitsOfByte(E, n))
  <2>1. /\ c[n - 1] \in Register /\ d[n - 1] \in Register
        /\ c[n] = EightSteps(Xor(c[n - 1], p[n])) /\ d[n] = EightSteps(Xor(d[n - 1], q[n]))
    BY DEF Divided
  <2>2. W[m] = Xor(r, Ahead(E, m, 0))
    BY <1>2
  <2>3. m \in Nat /\ m + 8 <= 8 * length /\ m + 8 = 8 * n /\ 8 * length \in Nat
    OBVIOUS
  <2>4. /\ BitsOfByte(E, n) \subseteq 0 .. 7
        /\ \A k : k \in Ahead(E, m, 0) <=> k \in BitsOfByte(E, n) \/ k \in Ahead(E, m, 8)
        /\ \A k : ~(k \in BitsOfByte(E, n) /\ k \in Ahead(E, m, 8))
    BY <2>3 DEF BitsOfByte, Ahead
  <2>5. r \in Register /\ u \in Register
    BY <2>1, <2>4 DEF Xor, Register
  <2> HIDE DEF m, r, u, T
  <2>6. Xor(r, Ahead(E, m, 0)) = Xor(u, Ahead(E, m, 8))
    BY <2>4 DEF Xor, u
  <2>7. W[m + 8] = Xor(EightSteps(u), Ahead(E, m + 8, 0))
    <3>1. Reads(W, E, m, 8, u)
      BY <2>2, <2>5, <2>6 DEF Reads
    <3> QED BY <2>3, <3>1, WindowMovesByAByte DEF Reads
  <2>8. EightSteps(u) = Xor(c[n], d[n])
    <3>1. Xor(c[n - 1], p[n]) \in Register /\ Xor(d[n - 1], q[n]) \in Register
      BY <2>1 DEF Xor, Register, Byte
    <3>2. Xor(c[n], d[n]) = EightSteps(Xor(Xor(c[n - 1], p[n]), Xor(d[n - 1], q[n])))
      BY <2>1, <3>1, EightStepsAreLinear
    <3>3. Xor(Xor(c[n - 1], p[n]), Xor(d[n - 1], q[n])) = u
      <4>1. BitsOfByte(E, n) = Xor(p[n], q[n])
        OBVIOUS
      <4>2. Xor(Xor(c[n - 1], p[n]), Xor(d[n - 1], q[n]))
            = Xor(Xor(c[n - 1], d[n - 1]), Xor(p[n], q[n]))
        BY XorIsExchanged
      <4> QED BY <4>1, <4>2 DEF u, r
    <3> QED BY <3>2, <3>3
  <2> QED BY <2>3, <2>7, <2>8 DEF T
<1> HIDE DEF T
<1>3. length \in T
  BY <1>1, <1>2, CountedUp
<1> QED BY <1>3 DEF T

\* A packet whose checksum fits is taken, after a flip of E, just when the window
\* has nothing left at its end.
Fits(p) == p \in Seq(Byte) /\ Verify_CRC16_Check_Sum(p)

LEMMA TakenJustWhenEmpty ==
  ASSUME NEW p, Fits(p), NEW E, \A b \in E : b \in Nat /\ b < 8 * Len(p),
         NEW W, Window(W, E, 8 * (Len(p) - 2))
  PROVE  Verify_CRC16_Check_Sum(Flip(p, E)) <=> W[8 * (Len(p) - 2)] = {}
<1> DEFINE N == Len(p)
           n == N - 2
           q == Flip(p, E)
<1>1. N \in Nat /\ N > 2 /\ n \in Nat /\ n \in 0 .. N /\ N - 1 \in 1 .. N /\ N \in 1 .. N
  BY DEF Fits, Verify_CRC16_Check_Sum
<1>2. ASSUME NEW i \in 1 .. N
      PROVE  p[i] \in Byte /\ q[i] = Xor(p[i], BitsOfByte(E, i)) /\ q[i] \in Byte
  <2>1. p[i] \in Byte /\ i \in DOMAIN p
    BY DEF Fits
  <2>2. q[i] = Xor(p[i], BitsOfByte(E, i))
    BY <2>1 DEF Flip, BitsOfByte
  <2>3. Xor(p[i], BitsOfByte(E, i)) \in Byte
    BY <2>1 DEF Xor, BitsOfByte, Byte
  <2> QED BY <2>1, <2>2, <2>3
<1>3. q \in Seq(Byte) /\ Len(q) = N
  <2>1. DOMAIN q = 1 .. N
    BY DEF Flip, Fits
  <2> HIDE DEF q
  <2>2. q \in [1 .. N -> Byte]
    <3>1. q = [i \in 1 .. N |-> q[i]]
      BY <2>1 DEF q, Flip
    <3> QED BY <1>2, <3>1
  <2> QED BY <1>1, <2>2, SeqDef, LenProperties
<1>4. PICK c : Divided(c, p, n) /\ Get_CRC16_Check_Sum(p, n) = c[n]
  BY <1>1, ChecksumIsDivided DEF Fits
<1>5. PICK d : Divided(d, q, n) /\ Get_CRC16_Check_Sum(q, n) = d[n]
  <2> HIDE DEF q, n, N
  <2> QED BY <1>1, <1>3, ChecksumIsDivided
<1>6. ASSUME NEW i \in 1 .. n
      PROVE  p[i] \in Byte /\ q[i] \in Byte /\ Xor(p[i], q[i]) = BitsOfByte(E, i)
  <2>1. i \in 1 .. N
    BY <1>1
  <2>2. Xor(p[i], Xor(p[i], BitsOfByte(E, i))) = BitsOfByte(E, i)
    BY DEF Xor
  <2> QED BY <1>2, <2>1, <2>2
<1>7. W[8 * n] = Xor(Xor(c[n], d[n]), Ahead(E, 8 * n, 0))
  <2> HIDE DEF q, n
  <2>1. Window(W, E, 8 * n)
    BY DEF n
  <2> QED BY <1>1, <1>4, <1>5, <1>6, <2>1, WindowIsDamage
<1> DEFINE a == Ahead(E, 8 * n, 0)
           x == Xor(c[n], d[n])
<1>8. /\ c[n] \in Register /\ d[n] \in Register
      /\ p[N - 1] = LowByte(c[n]) /\ p[N] = HighByte(c[n])
  <2>1. c[n] \in Register /\ d[n] \in Register
    <3> HIDE DEF q, n
    <3>1. n \in 0 .. n
      BY <1>1
    <3> QED BY <1>4, <1>5, <3>1 DEF Divided
  <2> HIDE DEF q
  <2> QED BY <1>4, <2>1 DEF Fits, Verify_CRC16_Check_Sum
<1>9. Verify_CRC16_Check_Sum(q) <=> q[N - 1] = LowByte(d[n]) /\ q[N] = HighByte(d[n])
  <2> HIDE DEF q
  <2> QED BY <1>1, <1>3, <1>5 DEF Verify_CRC16_Check_Sum
<1>10. a \in Register /\ BitsOfByte(E, N - 1) = LowByte(a) /\ BitsOfByte(E, N) = HighByte(a)
  <2>1. 8 * ((N - 1) - 1) = 8 * n /\ 8 * (N - 1) = 8 * n + 8
    OBVIOUS
  <2>2. a \in Register /\ BitsOfByte(E, N - 1) = LowByte(a)
    BY <1>1, <2>1 DEF BitsOfByte, Ahead, LowByte, Register
  <2>3. \A k : k \in HighByte(a) <=> k \in 0 .. 15 /\ k + 8 \in a
    BY <2>2, ShiftedBits DEF HighByte
  <2>4. \A k \in 0 .. 7 : k \in BitsOfByte(E, N) <=> k + 8 \in a
    BY <1>1, <2>1 DEF BitsOfByte, Ahead
  <2>5. \A k : k \in HighByte(a) => k \in 0 .. 7
    BY <2>2, <2>3 DEF Register
  <2>6. BitsOfByte(E, N) \subseteq 0 .. 7
    BY DEF BitsOfByte
  <2> HIDE DEF a
  <2>7. \A k : k \in HighByte(a) <=> k \in BitsOfByte(E, N)
    BY <2>3, <2>4, <2>5, <2>6
  <2>8. HighByte(a) = BitsOfByte(E, N)
    BY <2>7 DEF HighByte, ShiftRight, BitsOfByte
  <2> QED BY <2>2, <2>8
<1> HIDE DEF a, q, n, N
<1>11. x \in Register /\ (x = a <=> LowByte(x) = LowByte(a) /\ HighByte(x) = HighByte(a))
  <2>1. x \in Register
    BY <1>8 DEF Xor, Register
  <2> HIDE DEF x
  <2>2. ASSUME LowByte(x) = LowByte(a), HighByte(x) = HighByte(a) PROVE x = a
    <3>1. ASSUME NEW k \in 0 .. 15 PROVE k \in x <=> k \in a
      <4>1. CASE k < 8
        BY <2>2, <4>1 DEF LowByte
      <4>2. CASE k >= 8
        <5>1. k - 8 \in 0 .. 15 /\ (k - 8) + 8 = k
          BY <4>2
        <5>2. k - 8 \in HighByte(x) <=> k \in x
          BY <2>1, <5>1, ShiftedBits DEF HighByte
        <5>3. k - 8 \in HighByte(a) <=> k \in a
          BY <1>10, <5>1, ShiftedBits DEF HighByte
        <5> QED BY <2>2, <5>2, <5>3
      <4> QED BY <4>1, <4>2
    <3> QED BY <1>10, <2>1, <3>1 DEF Register
  <2> QED BY <2>1, <2>2
<1>12. LowByte(x) = Xor(LowByte(c[n]), LowByte(d[n])) /\ HighByte(x) = Xor(HighByte(c[n]), HighByte(d[n]))
  <2>1. LowByte(x) = Xor(LowByte(c[n]), LowByte(d[n]))
    BY DEF LowByte, Xor
  <2>2. \A k : k \in HighByte(x) <=> k \in 0 .. 15 /\ k + 8 \in x
    BY <1>11, ShiftedBits DEF HighByte
  <2>3. \A k : /\ k \in HighByte(c[n]) <=> k \in 0 .. 15 /\ k + 8 \in c[n]
               /\ k \in HighByte(d[n]) <=> k \in 0 .. 15 /\ k + 8 \in d[n]
    BY <1>8, ShiftedBits DEF HighByte
  <2>4. \A k : k \in HighByte(x) <=> ~(k \in HighByte(c[n]) <=> k \in HighByte(d[n]))
    BY <2>2, <2>3, XorBits
  <2>5. HighByte(x) = Xor(HighByte(c[n]), HighByte(d[n]))
    <3> HIDE DEF x
    <3> QED BY <2>4 DEF Xor, HighByte, ShiftRight
  <2> QED BY <2>1, <2>5
<1>13. q[N - 1] = LowByte(d[n]) <=> LowByte(x) = LowByte(a)
  <2>1. q[N - 1] = Xor(LowByte(c[n]), LowByte(a))
    BY <1>1, <1>2, <1>8, <1>10
  <2> QED BY <1>12, <2>1 DEF Xor
<1>14. q[N] = HighByte(d[n]) <=> HighByte(x) = HighByte(a)
  <2>1. q[N] = Xor(HighByte(c[n]), HighByte(a))
    BY <1>1, <1>2, <1>8, <1>10
  <2> QED BY <1>12, <2>1 DEF Xor
<1>15. W[8 * n] = {} <=> x = a
  BY <1>7, XorIsEmpty DEF a, x
<1> QED BY <1>9, <1>11, <1>13, <1>14, <1>15 DEF q, n, N

\* The flipped bits lie from bit s on; they lie before bit s.
From(E, s) == \A b \in E : b \in Nat /\ b >= s
Until(E, s) == \A b \in E : b \in Nat /\ b < s

\* The window before the first flipped bit has come to its start.
LEMMA WindowBeforeDamage ==
  ASSUME NEW E, NEW M \in Nat, NEW W, Window(W, E, M), NEW s \in 0 .. M,
         From(E, s)
  PROVE  W[s] = Ahead(E, s, 0)
<1> DEFINE T == {m \in 0 .. s : W[m] = Ahead(E, m, 0)}
<1>1. 0 \in T
  BY DEF Window
<1>2. ASSUME NEW m \in 1 .. s, m - 1 \in T PROVE m \in T
  <2> DEFINE l == m - 1
  <2>1. l \in Nat /\ l < M /\ l + 1 = m /\ l \notin E /\ 1 \in 1 .. 8
    BY DEF From
  <2>2. W[l] = Ahead(E, l, 0)
    BY <1>2
  <2> HIDE DEF l
  <2>3. Ahead(E, l, 0) = Ahead(E, l, 1)
    BY <2>1 DEF Ahead
  <2>4. Xor({}, Ahead(E, l, 1)) = Ahead(E, l, 1)
    BY DEF Xor
  <2>5. Reads(W, E, l, 1, {})
    BY <2>2, <2>3, <2>4 DEF Reads, Register
  <2>6. Reads(W, E, l + 1, 1 - 1, DividedByBit({}))
    BY <2>1, <2>5, WindowMovesOn
  <2>7. DividedByBit({}) = {} /\ Xor({}, Ahead(E, m, 0)) = Ahead(E, m, 0)
    BY DEF DividedByBit, ShiftRight, Xor
  <2> QED BY <2>1, <2>6, <2>7 DEF Reads
<1> HIDE DEF T
<1>3. s \in T
  BY <1>1, <1>2, CountedUp
<1> QED BY <1>3 DEF T

\* Once every flipped bit has come in, damage in the window stays there.
LEMMA DamageStays ==
  ASSUME NEW E, NEW M \in Nat, NEW W, Window(W, E, M), NEW s \in 0 .. M, W[s] # {},
         Until(E, s + 16)
  PROVE  W[M] # {}
<1> DEFINE T == {m \in 0 .. M : m < s \/ W[m] # {}}
<1>1. 0 \in T
  OBVIOUS
<1>2. ASSUME NEW m \in 1 .. M, m - 1 \in T PROVE m \in T
  <2>1. m \in 0 .. M /\ (m < s \/ m = s \/ s <= m - 1)
    OBVIOUS
  <2>2. CASE s <= m - 1
    <3>1. W[m - 1] # {} /\ W[m - 1] \in Register
      BY <1>2, <2>2 DEF Window
    <3>2. m + 15 \notin E
      BY <2>2 DEF Until
    <3>3. W[m] = Xor(DividedByBit(W[m - 1]), {})
      BY <3>2 DEF Window, Enter
    <3>4. DividedByBit(W[m - 1]) # {}
      <4> HIDE DEF Register
      <4> QED BY <3>1, DivisionKeepsDamage
    <3> QED BY <2>1, <3>3, <3>4, XorIsEmpty
  <2> QED BY <2>1, <2>2
<1> HIDE DEF T
<1>3. M \in T
  BY <1>1, <1>2, CountedUp
<1> QED BY <1>3 DEF T

\* The damages that the checksum notices, in a message of M bits and a checksum.
FlippedBits(E, M) == E # {} /\ Until(E, M + 16)

LEMMA BurstStays ==
  ASSUME NEW E, NEW M \in Nat, NEW W, Window(W, E, M), FlippedBits(E, M),
         \A b, c \in E : c < b + 16
  PROVE  W[M] # {}
<1>1. E \in SUBSET Nat /\ E # {}
  BY DEF FlippedBits, Until
<1>2. PICK s \in E : \A b \in E : s <= b
  BY <1>1, LeastNat
<1>3. s \in Nat /\ s < M + 16 /\ From(E, s) /\ Until(E, s + 16)
  BY <1>1, <1>2 DEF FlippedBits, From, Until
<1>4. CASE s <= M
  <2>1. s \in 0 .. M
    BY <1>3, <1>4
  <2>2. W[s] = Ahead(E, s, 0)
    BY <1>3, <2>1, WindowBeforeDamage
  <2>3. 0 \in Ahead(E, s, 0)
    BY <1>2, <1>3 DEF Ahead
  <2> QED BY <1>3, <2>1, <2>2, <2>3, DamageStays
<1>5. CASE s > M
  <2>1. From(E, M) /\ M \in 0 .. M
    BY <1>3, <1>5 DEF From
  <2>2. W[M] = Ahead(E, M, 0)
    BY <2>1, WindowBeforeDamage
  <2>3. s - M \in 0 .. 15 /\ M + (s - M) = s
    BY <1>3, <1>5
  <2>4. s - M \in Ahead(E, M, 0)
    BY <1>2, <2>3 DEF Ahead
  <2> QED BY <2>2, <2>4
<1> QED BY <1>3, <1>4, <1>5

-----------------------------------------------------------------------------
(* An odd number of flipped bits: the polynomial has an even number of terms. *)

Odd(S) == Cardinality(S) % 2 = 1

LEMMA ApartCount ==
  ASSUME NEW a, NEW b, IsFiniteSet(a), IsFiniteSet(b), a \intersect b = {}
  PROVE  IsFiniteSet(a \union b) /\ Cardinality(a \union b) = Cardinality(a) + Cardinality(b)
<1>1. Cardinality(a) \in Nat /\ Cardinality(b) \in Nat /\ Cardinality(a \intersect b) = 0
  BY FS_CardinalityType, FS_EmptySet
<1>2. /\ IsFiniteSet(a \union b)
      /\ Cardinality(a \union b) = Cardinality(a) + Cardinality(b) - Cardinality(a \intersect b)
  BY FS_Union
<1> QED BY <1>1, <1>2

LEMMA OddXor ==
  ASSUME NEW a, NEW b, IsFiniteSet(a), IsFiniteSet(b)
  PROVE  IsFiniteSet(Xor(a, b)) /\ (Odd(Xor(a, b)) <=> ~(Odd(a) <=> Odd(b)))
<1> DEFINE p == a \ b
           q == b \ a
           c == a \intersect b
<1>1. IsFiniteSet(p) /\ IsFiniteSet(q) /\ IsFiniteSet(c)
  <2>1. p \in SUBSET a /\ q \in SUBSET b /\ c \in SUBSET a
    OBVIOUS
  <2> HIDE DEF p, q, c
  <2> QED BY <2>1, FS_Subset
<1>2. p \union q = Xor(a, b) /\ p \union c = a /\ q \union c = b
      /\ p \intersect q = {} /\ p \intersect c = {} /\ q \intersect c = {}
  BY DEF Xor
<1> HIDE DEF p, q, c
<1>3. /\ IsFiniteSet(p \union q) /\ Cardinality(p \union q) = Cardinality(p) + Cardinality(q)
      /\ Cardinality(p \union c) = Cardinality(p) + Cardinality(c)
      /\ Cardinality(q \union c) = Cardinality(q) + Cardinality(c)
  BY <1>1, <1>2, ApartCount
<1>4. Cardinality(p) \in Nat /\ Cardinality(q) \in Nat /\ Cardinality(c) \in Nat
  BY <1>1, FS_CardinalityType
<1> DEFINE n == Cardinality(p)
           m == Cardinality(q)
           k == Cardinality(c)
<1>5. Cardinality(Xor(a, b)) = n + m /\ Cardinality(a) = n + k /\ Cardinality(b) = m + k
  BY <1>2, <1>3
<1>6. n \in Nat /\ m \in Nat /\ k \in Nat
  BY <1>4
<1> HIDE DEF n, m, k
<1>7. (n + m) % 2 = 1 <=> ~((n + k) % 2 = 1 <=> (m + k) % 2 = 1)
  BY <1>6
<1> QED BY <1>2, <1>3, <1>5, <1>7 DEF Odd

LEMMA RegistersAreFinite == \A r \in Register : IsFiniteSet(r)
<1>1. IsFiniteSet(0 .. 15)
  <2>1. 0 \in Int /\ 15 \in Int
    OBVIOUS
  <2> QED BY ONLY <2>1, FS_Interval, Zenon
<1> QED BY <1>1, FS_Subset DEF Register

\* The division does not change whether the number of bits is odd.
LEMMA OddDivided ==
  ASSUME NEW r \in Register
  PROVE  Odd(DividedByBit(r)) <=> Odd(r)
<1> DEFINE t == r \ {0}
           h == ShiftRight(r, 1)
           p == IF 0 \in r THEN Polynomial ELSE {}
<1>1. IsFiniteSet(r) /\ IsFiniteSet(t)
  BY RegistersAreFinite, FS_RemoveElement
<1>2. Cardinality(h) = Cardinality(t) /\ IsFiniteSet(h)
  <2> DEFINE f == [k \in t |-> k - 1]
  <2>1. f \in Bijection(t, h)
    <3>1. \A k \in t : k \in 1 .. 15 /\ k >= 1 /\ k - 1 \in h
      BY DEF ShiftRight, Register
    <3>2. \A j \in h : j + 1 \in t /\ (j + 1) - 1 = j
      BY DEF ShiftRight, Register
    <3>3. f \in [t -> h] /\ \A k \in t : f[k] = k - 1
      BY <3>1
    <3>4. \A k, l \in t : f[k] = f[l] => k = l
      BY <3>1, <3>3
    <3>5. \A j \in h : \E k \in t : f[k] = j
      BY <3>2, <3>3
    <3> HIDE DEF f, t, h
    <3> QED BY <3>3, <3>4, <3>5 DEF Bijection, Injection, Surjection, IsInjective
  <2> QED BY <1>1, <2>1, FS_Bijection DEF ExistsBijection
<1>3. Cardinality(t) = IF 0 \in r THEN Cardinality(r) - 1 ELSE Cardinality(r)
  BY <1>1, FS_RemoveElement
<1>4. IsFiniteSet(p) /\ (Odd(p) <=> 0 \in r)
  <2>1. IsFiniteSet({3, 10, 15}) /\ Cardinality({3, 10, 15}) = 3
    <3>1. IsFiniteSet({3}) /\ Cardinality({3}) = 1
      BY FS_Singleton
    <3>2. IsFiniteSet({3} \union {10}) /\ Cardinality({3} \union {10}) = 2
      BY <3>1, FS_AddElement
    <3>3. /\ IsFiniteSet(({3} \union {10}) \union {15})
          /\ Cardinality(({3} \union {10}) \union {15}) = 3
      BY <3>2, FS_AddElement
    <3>4. ({3} \union {10}) \union {15} = {3, 10, 15}
      OBVIOUS
    <3> QED BY <3>3, <3>4
  <2> QED BY <2>1, PolynomialBits, FS_EmptySet DEF Odd
<1>5. DividedByBit(r) = Xor(h, p)
  BY DEF DividedByBit
<1> HIDE DEF t, h, p
<1>6. Odd(DividedByBit(r)) <=> ~(Odd(h) <=> 0 \in r)
  BY <1>2, <1>4, <1>5, OddXor
<1>7. Odd(h) <=> ~(Odd(r) <=> 0 \in r)
  <2>1. Cardinality(r) \in Nat
    BY <1>1, FS_CardinalityType
  <2> QED BY <1>2, <1>3, <2>1 DEF Odd
<1> QED BY <1>6, <1>7

LEMMA OddStays ==
  ASSUME NEW E, NEW M \in Nat, NEW W, Window(W, E, M), FlippedBits(E, M),
         IsFiniteSet(E), Odd(E)
  PROVE  W[M] # {}
<1> DEFINE Rest(m) == {b \in E : b >= m + 16}
           T == {m \in 0 .. M : Odd(Rest(m)) <=> ~Odd(W[m])}
<1>0. \A m \in 0 .. M : IsFiniteSet(Rest(m)) /\ W[m] \in Register /\ IsFiniteSet(W[m])
  BY FS_Subset, RegistersAreFinite DEF Window
<1>1. 0 \in T
  <2>1. Xor(Rest(0), Ahead(E, 0, 0)) = E
    BY DEF Xor, Ahead, FlippedBits, Until
  <2>2. W[0] = Ahead(E, 0, 0)
    BY DEF Window
  <2> HIDE DEF Rest
  <2> QED BY <1>0, <2>1, <2>2, OddXor
<1>2. ASSUME NEW m \in 1 .. M, m - 1 \in T PROVE m \in T
  <2> DEFINE r == DividedByBit(W[m - 1])
             e == IF m + 15 \in E THEN {15} ELSE {}
             f == IF m + 15 \in E THEN {m + 15} ELSE {}
  <2>1. W[m] = Xor(r, e) /\ r \in Register /\ (Odd(r) <=> Odd(W[m - 1]))
    BY <1>0, DividedBits, OddDivided DEF Window, Enter
  <2>2. Xor(Rest(m), f) = Rest(m - 1)
    <3>1. (m - 1) + 16 = m + 15
      OBVIOUS
    <3> QED BY <3>1 DEF Xor, FlippedBits, Until
  <2>3. IsFiniteSet(e) /\ IsFiniteSet(f) /\ (Odd(e) <=> Odd(f))
    BY FS_Singleton, FS_EmptySet DEF Odd
  <2>4. Odd(W[m]) <=> ~(Odd(r) <=> Odd(e))
    BY <2>1, <2>3, OddXor, RegistersAreFinite
  <2>5. Odd(Rest(m - 1)) <=> ~(Odd(Rest(m)) <=> Odd(f))
    <3> HIDE DEF f, Rest
    <3>1. m \in 0 .. M
      OBVIOUS
    <3> QED BY <1>0, <2>2, <2>3, <3>1, OddXor
  <2> HIDE DEF r, e, f, Rest
  <2> QED BY <1>2, <2>1, <2>3, <2>4, <2>5
<1>3. Odd(Rest(M)) <=> ~Odd(W[M])
  <2> HIDE DEF T
  <2>1. M \in T
    BY <1>1, <1>2, CountedUp
  <2> QED BY <2>1 DEF T
<1>4. Rest(M) = {}
  BY DEF FlippedBits, Until
<1> QED BY <1>3, <1>4, FS_EmptySet DEF Odd

-----------------------------------------------------------------------------
(* Two flipped bits: what is left of the first one, a bit alone, is no bit    *)
(* alone after sixteen, thirty-two, ... up to 128 further bits, so that the   *)
(* second one never completes it.                                             *)

LEMMA EightStepsOf ==
  ASSUME NEW r \in Register, NEW q \in Register, DividedByEight(r, q)
  PROVE  EightSteps(r) = q
BY DividedEightTimes, EightBitsDetermine

\* A bit alone, and what the division makes of it bit after bit.
AloneAtFirst(z) ==
  /\ z \in [0 .. 128 -> Register] /\ z[0] = {0}
  /\ \A k \in 1 .. 128 : z[k] = DividedByBit(z[k - 1])

LEMMA AloneExists == \E z : AloneAtFirst(z)
<1> DEFINE F == [p \in Register \X (1 .. 128) |-> DividedByBit(p[1])]
<1>1. {0} \in Register /\ F \in [Register \X (1 .. 128) -> Register]
  BY DividedBits DEF Register
<1>2. \A r \in Register, k \in 1 .. 128 : F[<<r, k>>] = DividedByBit(r)
  OBVIOUS
<1> HIDE DEF F, Register
<1>3. PICK z \in [0 .. 128 -> Register] : Leads(z, 128, {0}, F)
  BY <1>1, StepsExist
<1>4. z[0] = {0}
  BY <1>3 DEF Leads
<1>5. ASSUME NEW k \in 1 .. 128 PROVE z[k] = DividedByBit(z[k - 1])
  <2>1. k \in 0 .. 128 /\ k # 0 /\ z[k - 1] \in Register
    OBVIOUS
  <2>2. z[k] = F[<<z[k - 1], k>>]
    BY <1>3, <2>1 DEF Leads
  <2> QED BY <1>2, <2>1, <2>2
<1> QED BY <1>4, <1>5 DEF AloneAtFirst

LEMMA NeverAloneAgain ==
  ASSUME NEW z, AloneAtFirst(z), NEW q \in 1 .. 8, NEW b
  PROVE  z[16 * q] # {b}
<1> DEFINE Is(m, r) == r \in Register /\ z[m] = r
<1>1. ASSUME NEW m \in 0 .. 120, NEW p, NEW r, Is(m, p), r \in Register, DividedByEight(p, r)
      PROVE  Is(m + 8, r)
  <2> DEFINE D(v) == DividedByBit(v)
  <2>1. \A k \in 0 .. 127 : z[k + 1] = D(z[k])
    <3> SUFFICES ASSUME NEW k \in 0 .. 127 PROVE z[k + 1] = D(z[k])
      OBVIOUS
    <3>1. k + 1 \in 1 .. 128 /\ (k + 1) - 1 = k
      OBVIOUS
    <3> QED BY <1>1, <3>1 DEF AloneAtFirst
  <2> HIDE DEF D
  <2>2. /\ z[m + 1] = D(z[m]) /\ z[m + 2] = D(z[m + 1]) /\ z[m + 3] = D(z[m + 2])
        /\ z[m + 4] = D(z[m + 3]) /\ z[m + 5] = D(z[m + 4]) /\ z[m + 6] = D(z[m + 5])
        /\ z[m + 7] = D(z[m + 6]) /\ z[m + 8] = D(z[m + 7])
    BY <2>1
  <2>3. z[m + 8] = EightSteps(z[m])
    BY <2>2 DEF EightSteps, D
  <2> QED BY <1>1, <2>3, EightStepsOf
<1>2. Is(0, {0})
  BY DEF AloneAtFirst, Register
<1> HIDE DEF Is
<1>3. Is(8, {0, 3, 7, 8, 12})
  <2>1. {0, 3, 7, 8, 12} \in Register
    BY DEF Register
  <2>2. DividedByEight({0}, {0, 3, 7, 8, 12})
    BY DEF DividedByEight
  <2> QED BY <1>1, <1>2, <2>1, <2>2
<1>4. Is(16, {3, 4, 6, 7, 8, 11, 12})
  <2>1. {3, 4, 6, 7, 8, 11, 12} \in Register
    BY DEF Register
  <2>2. DividedByEight({0, 3, 7, 8, 12}, {3, 4, 6, 7, 8, 11, 12})
    BY DEF DividedByEight
  <2> QED BY <1>1, <1>3, <2>1, <2>2
<1>5. Is(24, {2, 3, 4, 6, 7, 9, 11, 12, 14})
  <2>1. {2, 3, 4, 6, 7, 9, 11, 12, 14} \in Register
    BY DEF Register
  <2>2. DividedByEight({3, 4, 6, 7, 8, 11, 12}, {2, 3, 4, 6, 7, 9, 11, 12, 14})
    BY DEF DividedByEight
  <2> QED BY <1>1, <1>4, <2>1, <2>2
<1>6. Is(32, {0, 1, 3, 4, 5, 7, 10, 11, 12})
  <2>1. {0, 1, 3, 4, 5, 7, 10, 11, 12} \in Register
    BY DEF Register
  <2>2. DividedByEight({2, 3, 4, 6, 7, 9, 11, 12, 14}, {0, 1, 3, 4, 5, 7, 10, 11, 12})
    BY DEF DividedByEight
  <2> QED BY <1>1, <1>5, <2>1, <2>2
<1>7. Is(40, {2, 6, 8, 9, 11})
  <2>1. {2, 6, 8, 9, 11} \in Register
    BY DEF Register
  <2>2. DividedByEight({0, 1, 3, 4, 5, 7, 10, 11, 12}, {2, 6, 8, 9, 11})
    BY DEF DividedByEight
  <2> QED BY <1>1, <1>6, <2>1, <2>2
<1>8. Is(48, {0, 1, 3, 5, 10})
  <2>1. {0, 1, 3, 5, 10} \in Register
    BY DEF Register
  <2>2. DividedByEight({2, 6, 8, 9, 11}, {0, 1, 3, 5, 10})
    BY DEF DividedByEight
  <2> QED BY <1>1, <1>7, <2>1, <2>2
<1>9. Is(56, {0, 2, 4, 6, 7, 8, 9, 10, 11, 12, 15})
  <2>1. {0, 2, 4, 6, 7, 8, 9, 10, 11, 12, 15} \in Register
    BY DEF Register
  <2>2. DividedByEight({0, 1, 3, 5, 10}, {0, 2, 4, 6, 7, 8, 9, 10, 11, 12, 15})
    BY DEF DividedByEight
  <2> QED BY <1>1, <1>8, <2>1, <2>2
<1>10. Is(64, {0, 1, 2, 3, 4, 5, 7, 8, 15})
  <2>1. {0, 1, 2, 3, 4, 5, 7, 8, 15} \in Register
    BY DEF Register
  <2>2. DividedByEight({0, 2, 4, 6, 7, 8, 9, 10, 11, 12, 15}, {0, 1, 2, 3, 4, 5, 7, 8, 15})
    BY DEF DividedByEight
  <2> QED BY <1>1, <1>9, <2>1, <2>2
<1>11. Is(72, {0, 2, 3, 4, 5, 6, 7, 8, 10, 11, 14})
  <2>1. {0, 2, 3, 4, 5, 6, 7, 8, 10, 11, 14} \in Register
    BY DEF Register
  <2>2. DividedByEight({0, 1, 2, 3, 4, 5, 7, 8, 15}, {0, 2, 3, 4, 5, 6, 7, 8, 10, 11, 14})
    BY DEF DividedByEight
  <2> QED BY <1>1, <1>10, <2>1, <2>2
<1>12. Is(80, {0, 1, 2, 5, 10, 11, 13})
  <2>1. {0, 1, 2, 5, 10, 11, 13} \in Register
    BY DEF Register
  <2>2. DividedByEight({0, 2, 3, 4, 5, 6, 7, 8, 10, 11, 14}, {0, 1, 2, 5, 10, 11, 13})
    BY DEF DividedByEight
  <2> QED BY <1>1, <1>11, <2>1, <2>2
<1>13. Is(88, {0, 4, 7, 8, 10, 12, 14})
  <2>1. {0, 4, 7, 8, 10, 12, 14} \in Register
    BY DEF Register
  <2>2. DividedByEight({0, 1, 2, 5, 10, 11, 13}, {0, 4, 7, 8, 10, 12, 14})
    BY DEF DividedByEight
  <2> QED BY <1>1, <1>12, <2>1, <2>2
<1>14. Is(96, {0, 2, 4, 6, 8, 10, 15})
  <2>1. {0, 2, 4, 6, 8, 10, 15} \in Register
    BY DEF Register
  <2>2. DividedByEight({0, 4, 7, 8, 10, 12, 14}, {0, 2, 4, 6, 8, 10, 15})
    BY DEF DividedByEight
  <2> QED BY <1>1, <1>13, <2>1, <2>2
<1>15. Is(104, {0, 2, 3, 5, 7, 8, 10})
  <2>1. {0, 2, 3, 5, 7, 8, 10} \in Register
    BY DEF Register
  <2>2. DividedByEight({0, 2, 4, 6, 8, 10, 15}, {0, 2, 3, 5, 7, 8, 10})
    BY DEF DividedByEight
  <2> QED BY <1>1, <1>14, <2>1, <2>2
<1>16. Is(112, {1, 3, 5, 6, 7, 9, 10, 11, 12, 13, 14})
  <2>1. {1, 3, 5, 6, 7, 9, 10, 11, 12, 13, 14} \in Register
    BY DEF Register
  <2>2. DividedByEight({0, 2, 3, 5, 7, 8, 10}, {1, 3, 5, 6, 7, 9, 10, 11, 12, 13, 14})
    BY DEF DividedByEight
  <2> QED BY <1>1, <1>15, <2>1, <2>2
<1>17. Is(120, {1, 3, 5, 11, 14})
  <2>1. {1, 3, 5, 11, 14} \in Register
    BY DEF Register
  <2>2. DividedByEight({1, 3, 5, 6, 7, 9, 10, 11, 12, 13, 14}, {1, 3, 5, 11, 14})
    BY DEF DividedByEight
  <2> QED BY <1>1, <1>16, <2>1, <2>2
<1>18. Is(128, {4, 9, 10, 11, 15})
  <2>1. {4, 9, 10, 11, 15} \in Register
    BY DEF Register
  <2>2. DividedByEight({1, 3, 5, 11, 14}, {4, 9, 10, 11, 15})
    BY DEF DividedByEight
  <2> QED BY <1>1, <1>17, <2>1, <2>2
<1>19. q = 1 \/ q = 2 \/ q = 3 \/ q = 4 \/ q = 5 \/ q = 6 \/ q = 7 \/ q = 8
  OBVIOUS
<1>20. /\ z[16] # {b} /\ z[32] # {b} /\ z[48] # {b} /\ z[64] # {b}
       /\ z[80] # {b} /\ z[96] # {b} /\ z[112] # {b} /\ z[128] # {b}
  BY <1>4, <1>6, <1>8, <1>10, <1>12, <1>14, <1>16, <1>18 DEF Is
<1> QED BY <1>19, <1>20

\* Two bits as far apart as in a packet.
Pair(E, i, j) == E = {i, j} /\ i \in Nat /\ j \in Nat /\ i + 16 <= j /\ j < i + 136

\* Between the two bits the window holds what the first has left.
LEMMA WindowBetween ==
  ASSUME NEW E, NEW i, NEW j, Pair(E, i, j), NEW M \in Nat, NEW W, Window(W, E, M), j - 16 <= M,
         NEW z, AloneAtFirst(z)
  PROVE  W[j - 16] = z[(j - 16) - i]
<1> DEFINE L == (j - 16) - i
           T == {k \in 0 .. L : W[i + k] = z[k]}
<1>0. i \in Nat /\ j \in Nat /\ L \in 0 .. 119 /\ i + L = j - 16 /\ i \in 0 .. M
  BY DEF Pair
<1>1. 0 \in T
  <2>1. From(E, i)
    BY DEF From, Pair
  <2>2. W[i] = Ahead(E, i, 0)
    BY <1>0, <2>1, WindowBeforeDamage
  <2>3. Ahead(E, i, 0) = {0}
    BY DEF Ahead, Pair
  <2>4. i + 0 = i /\ 0 \in 0 .. L
    BY <1>0
  <2> QED BY <2>2, <2>3, <2>4 DEF AloneAtFirst
<1>2. ASSUME NEW k \in 1 .. L, k - 1 \in T PROVE k \in T
  <2>1. /\ i + k \in 1 .. M /\ (i + k) - 1 = i + (k - 1) /\ k \in 1 .. 128 /\ k \in 0 .. L
        /\ (i + k) + 15 \notin E
    BY <1>0 DEF Pair
  <2>2. W[i + (k - 1)] = z[k - 1]
    BY <1>2
  <2>3. W[i + k] = Enter(DividedByBit(W[(i + k) - 1]), E, (i + k) + 15)
    BY <2>1 DEF Window
  <2>4. W[i + k] = Xor(DividedByBit(z[k - 1]), {})
    BY <2>1, <2>2, <2>3 DEF Enter
  <2>5. Xor(z[k], {}) = z[k]
    BY DEF Xor
  <2> QED BY <2>1, <2>4, <2>5 DEF AloneAtFirst
<1> HIDE DEF T
<1>3. L \in T
  BY <1>0, <1>1, <1>2, CountedUp
<1> QED BY <1>0, <1>3 DEF T

AloneAt(z, n, e) == n \in 0 .. 128 /\ z[n] = {e}

\* A bit at the end of the register comes out of it bit by bit.
LEMMA AloneAtTheEnd ==
  ASSUME NEW z, AloneAtFirst(z), NEW n, AloneAt(z, n, 15), NEW t \in 0 .. 15, n + t <= 128
  PROVE  AloneAt(z, n + t, 15 - t)
<1>0. n \in 0 .. 128 /\ z[n] = {15}
  BY DEF AloneAt
<1> DEFINE T == {k \in 0 .. t : z[n + k] = {15 - k}}
<1>1. 0 \in T
  BY <1>0
<1>2. ASSUME NEW k \in 1 .. t, k - 1 \in T PROVE k \in T
  <2>1. n + k \in 1 .. 128 /\ (n + k) - 1 = n + (k - 1) /\ k \in 0 .. t
    BY <1>0
  <2>2. z[n + (k - 1)] = {15 - (k - 1)}
    BY <1>2
  <2>3. z[n + k] = DividedByBit(z[n + (k - 1)])
    BY <2>1 DEF AloneAtFirst
  <2>4. 15 - (k - 1) >= 1 /\ (15 - (k - 1)) - 1 = 15 - k
    OBVIOUS
  <2>5. \A e : e >= 1 /\ e # 0 => DividedByBit({e}) = {e - 1}
    BY DEF DividedByBit, ShiftRight, Xor
  <2>6. DividedByBit({15 - (k - 1)}) = {15 - k}
    <3> DEFINE e == 15 - (k - 1)
    <3>1. e >= 1 /\ e # 0 /\ e - 1 = 15 - k
      OBVIOUS
    <3> HIDE DEF e
    <3>2. DividedByBit({e}) = {e - 1}
      BY <2>5, <3>1
    <3> QED BY <3>1, <3>2 DEF e
  <2>7. z[n + k] = {15 - k}
    BY <2>2, <2>3, <2>6
  <2> QED BY <2>1, <2>7
<1> HIDE DEF T
<1>3. t \in T
  BY <1>1, <1>2, CountedUp
<1> QED BY <1>0, <1>3 DEF T, AloneAt

LEMMA PairStays ==
  ASSUME NEW E, NEW i, NEW j, Pair(E, i, j), NEW M \in Nat, NEW W, Window(W, E, M),
         FlippedBits(E, M)
  PROVE  W[M] # {}
<1> SUFFICES ASSUME W[M] = {} PROVE FALSE
  OBVIOUS
<1> DEFINE m == j - 15
           L == (j - 16) - i
<1>1. /\ m \in 1 .. M /\ m - 1 = j - 16 /\ m + 15 = j /\ m + 16 = j + 1 /\ j - 16 <= M
      /\ L \in 0 .. 119 /\ j \in E
  BY DEF Pair, FlippedBits, Until
<1>2. W[m] = {}
  <2>1. Until(E, m + 16) /\ m \in 0 .. M
    BY <1>1 DEF Pair, Until
  <2> HIDE DEF m
  <2> QED BY <2>1, DamageStays
<1>3. PICK z : AloneAtFirst(z)
  BY AloneExists
<1>4. W[m - 1] = z[L]
  BY <1>1, <1>3, WindowBetween
<1>5. W[m] = Xor(DividedByBit(z[L]), {15})
  BY <1>1, <1>4 DEF Window, Enter
<1>6. z[L + 1] = {15} /\ L + 1 \in 1 .. 120
  <2>1. L + 1 \in 1 .. 128 /\ (L + 1) - 1 = L
    BY <1>1
  <2>2. z[L + 1] = DividedByBit(z[L])
    BY <1>3, <2>1 DEF AloneAtFirst
  <2> HIDE DEF L
  <2> QED BY <1>1, <1>2, <1>5, <2>2, XorIsEmpty
<1> DEFINE q == (L + 16) \div 16
           t == 16 * q - (L + 1)
<1>7. q \in 1 .. 8 /\ t \in 0 .. 15 /\ (L + 1) + t = 16 * q /\ L + 1 \in 0 .. 128 /\ (L + 1) + t <= 128
  <2> HIDE DEF L
  <2> QED BY <1>1
<1> DEFINE n == L + 1
<1> HIDE DEF q, t, L, m
<1>8. z[n + t] = {15 - t}
  <2> HIDE DEF n
  <2>1. AloneAt(z, n, 15)
    BY <1>6, <1>7 DEF n, AloneAt
  <2>2. n + t <= 128
    BY <1>7 DEF n
  <2>3. AloneAt(z, n + t, 15 - t)
    BY <1>3, <1>7, <2>1, <2>2, AloneAtTheEnd
  <2> QED BY <2>3 DEF AloneAt
<1> QED BY <1>3, <1>7, <1>8, NeverAloneAgain

-----------------------------------------------------------------------------
(* The packets.                                                              *)

LEMMA TwoElements ==
  ASSUME NEW S, IsFiniteSet(S), Cardinality(S) = 2, NEW b \in S, NEW c \in S, b # c
  PROVE  S = {b, c}
<1>1. IsFiniteSet(S \ {b}) /\ Cardinality(S \ {b}) = 1
  BY FS_RemoveElement
<1>2. IsFiniteSet((S \ {b}) \ {c}) /\ Cardinality((S \ {b}) \ {c}) = 0
  <2>1. c \in S \ {b}
    OBVIOUS
  <2> QED BY <1>1, <2>1, FS_RemoveElement
<1>3. (S \ {b}) \ {c} = {}
  BY <1>2, FS_EmptySet
<1> QED BY <1>3

\* Every damage the line does is refused.
LEMMA DamageIsRefused ==
  ASSUME NEW p, Fits(p), NEW E \in Damages, E # {}, \A b \in E : b < 8 * Len(p)
  PROVE  ~Verify_CRC16_Check_Sum(Flip(p, E))
<1> DEFINE M == 8 * (Len(p) - 2)
<1>1. M \in Nat /\ M + 16 = 8 * Len(p)
  BY DEF Fits, Verify_CRC16_Check_Sum
<1>2. E \subseteq Nat /\ IsFiniteSet(E)
  BY CrcAssumption DEF DamagesAssumption
<1>3. (\A b \in E : b \in Nat /\ b < 8 * Len(p)) /\ FlippedBits(E, M)
  BY <1>1, <1>2 DEF FlippedBits, Until
<1>4. PICK W : Window(W, E, M)
  <2> HIDE DEF M
  <2> QED BY <1>1, WindowExists
<1>5. Verify_CRC16_Check_Sum(Flip(p, E)) <=> W[M] = {}
  BY <1>3, <1>4, TakenJustWhenEmpty
<1> HIDE DEF M
<1>6. CASE Cardinality(E) % 2 = 1
  <2>1. Odd(E)
    BY <1>6 DEF Odd
  <2> QED BY <1>1, <1>2, <1>3, <1>4, <1>5, <2>1, OddStays
<1>7. CASE \A b, c \in E : c < b + 16
  BY <1>1, <1>3, <1>4, <1>5, <1>7, BurstStays
<1>8. CASE /\ Cardinality(E) = 2 /\ \A b, c \in E : c < b + 8 * PacketBytes
           /\ ~\A b, c \in E : c < b + 16
  <2>1. PICK b \in E, c \in E : ~(c < b + 16)
    BY <1>8
  <2>2. b \in Nat /\ c \in Nat /\ b + 16 <= c /\ b # c /\ c < b + 136
    BY <1>2, <1>8, <2>1 DEF PacketBytes
  <2>3. Pair(E, b, c)
    BY <1>2, <1>8, <2>2, TwoElements DEF Pair
  <2> QED BY <1>1, <1>3, <1>4, <1>5, <2>3, PairStays
<1> QED BY <1>6, <1>7, <1>8, CrcAssumption DEF DamagesAssumption

\* What is sent fits.
LEMMA SentPacketFits ==
  ASSUME NEW data \in Payloads
  PROVE  Fits(Append_CRC16_Check_Sum(data \o <<{}, {}>>))
<1> DEFINE message == data \o <<{}, {}>>
           N == Len(message)
           n == N - 2
           w == Get_CRC16_Check_Sum(message, n)
           p == [message EXCEPT ![N - 1] = LowByte(w), ![N] = HighByte(w)]
<1>1. data \in Seq(Byte) /\ Len(data) \in Nat /\ Len(data) > 0
  BY CrcAssumption, EmptySeq DEF PayloadsAssumption
<1>2. message \in Seq(Byte) /\ N = Len(data) + 2
  <2>1. <<{}, {}>> \in Seq(Byte) /\ Len(<<{}, {}>>) = 2
    BY DEF Byte
  <2> QED BY <1>1, <2>1, ConcatProperties
<1>3. N \in Nat /\ N > 2 /\ n \in Nat /\ n \in 0 .. N /\ N - 1 \in 1 .. N /\ N \in 1 .. N /\ N - 1 # N
  BY <1>1, <1>2
<1>4. Append_CRC16_Check_Sum(message) = p
  <2> HIDE DEF message
  <2> QED BY <1>3 DEF Append_CRC16_Check_Sum
<1> HIDE DEF message
<1>5. PICK c : Divided(c, message, n) /\ w = c[n]
  <2> HIDE DEF n, N
  <2> QED BY <1>2, <1>3, ChecksumIsDivided DEF N
<1>6. w \in Register
  <2> HIDE DEF w
  <2> QED BY <1>3, <1>5 DEF Divided
<1>7. LowByte(w) \in Byte /\ HighByte(w) \in Byte
  <2> HIDE DEF w
  <2>1. \A k : k \in HighByte(w) => k \in 0 .. 15 /\ k + 8 \in w
    BY <1>6, ShiftedBits DEF HighByte
  <2>2. \A k : k \in HighByte(w) => k \in 0 .. 7
    BY <1>6, <2>1 DEF Register
  <2> QED BY <2>2 DEF LowByte, Byte
<1> HIDE DEF w
<1>8. /\ p \in Seq(Byte) /\ Len(p) = N /\ p[N - 1] = LowByte(w) /\ p[N] = HighByte(w)
      /\ \A i \in 1 .. n : p[i] = message[i]
  <2>1. message \in [1 .. N -> Byte]
    BY <1>2
  <2> HIDE DEF N
  <2>2. p \in [1 .. N -> Byte]
    BY <1>7, <2>1
  <2>3. p[N - 1] = LowByte(w) /\ p[N] = HighByte(w)
    BY <1>3, <2>1
  <2>4. \A i \in 1 .. n : p[i] = message[i]
    BY <1>3, <2>1
  <2>5. p \in Seq(Byte) /\ Len(p) = N
    <3> HIDE DEF p
    <3> QED BY <1>3, <2>2, SeqDef, LenProperties
  <2> QED BY <2>3, <2>4, <2>5
<1> HIDE DEF p
<1>9. PICK d : Divided(d, p, n) /\ Get_CRC16_Check_Sum(p, n) = d[n]
  <2>1. n \in 0 .. Len(p)
    BY <1>3, <1>8
  <2> HIDE DEF n
  <2> QED BY <1>8, <2>1, ChecksumIsDivided
<1>10. Get_CRC16_Check_Sum(p, n) = w
  <2> HIDE DEF n
  <2> QED BY <1>3, <1>5, <1>8, <1>9, DivisionIsUnique
<1> QED BY <1>3, <1>4, <1>8, <1>10 DEF Fits, Verify_CRC16_Check_Sum, message

\* The checksum of a packet that fits is the reference's remainder.
LEMMA FittingIsRemainder ==
  ASSUME NEW p, Fits(p)
  PROVE  LET n == Len(p)
             remainder == PolynomialRemainder(SubSeq(p, 1, n - 2))
         IN  p[n - 1] = LowByte(remainder) /\ p[n] = HighByte(remainder)
<1> DEFINE n == Len(p) - 2
           data == SubSeq(p, 1, n)
<1>1. p \in Seq(Byte) /\ Len(p) \in Nat /\ Len(p) > 2 /\ n \in Nat /\ n \in 0 .. Len(p)
  BY DEF Fits, Verify_CRC16_Check_Sum
<1>2. data \in Seq(Byte) /\ Len(data) = n /\ \A i \in 1 .. n : data[i] = p[i]
  <2> HIDE DEF n
  <2>1. data \in Seq(Byte) /\ Len(data) = n
    BY <1>1, SubSeqProperties
  <2>2. \A i \in 1 .. n : data[i] = p[i]
    BY <1>1, SubSeqProperties
  <2> QED BY <2>1, <2>2
<1> HIDE DEF data
<1>3. PICK c : Divided(c, p, n) /\ Get_CRC16_Check_Sum(p, n) = c[n]
  BY <1>1, ChecksumIsDivided
<1>4. PICK d : Divided(d, data, n) /\ PolynomialRemainder(data) = d[n]
  BY <1>2, RemainderIsDivided
<1>5. Get_CRC16_Check_Sum(p, n) = PolynomialRemainder(data)
  <2> HIDE DEF n
  <2> QED BY <1>1, <1>2, <1>3, <1>4, DivisionIsUnique
<1> QED BY <1>5 DEF Fits, Verify_CRC16_Check_Sum, data

LEMMA FlipsUndone ==
  ASSUME NEW p \in Seq(Byte), NEW E
  PROVE  /\ Flip(p, E) \in Seq(Byte) /\ Len(Flip(p, E)) = Len(p)
         /\ Flip(Flip(p, E), E) = p /\ Flip(p, {}) = p
<1> DEFINE N == Len(p)
           q == Flip(p, E)
           r == Flip(q, E)
<1>1. N \in Nat /\ p \in [1 .. N -> Byte]
  OBVIOUS
<1> HIDE DEF N
<1>2. q = [i \in 1 .. N |-> Xor(p[i], BitsOfByte(E, i))]
  BY <1>1 DEF Flip, BitsOfByte
<1>3. \A i \in 1 .. N : Xor(p[i], BitsOfByte(E, i)) \in Byte
  BY <1>1 DEF Xor, BitsOfByte, Byte
<1>4. q \in [1 .. N -> Byte]
  BY <1>2, <1>3
<1> HIDE DEF q
<1>5. q \in Seq(Byte) /\ Len(q) = N
  BY <1>1, <1>4, SeqDef, LenProperties
<1>6. r = [i \in 1 .. N |-> Xor(q[i], BitsOfByte(E, i))]
  BY <1>4 DEF Flip, BitsOfByte
<1>7. \A i \in 1 .. N : Xor(q[i], BitsOfByte(E, i)) = p[i]
  <2>1. \A i \in 1 .. N : q[i] = Xor(p[i], BitsOfByte(E, i))
    BY <1>2
  <2> QED BY <2>1 DEF Xor
<1>8. r = p
  BY <1>1, <1>6, <1>7
<1>9. Flip(p, {}) = p
  <2>1. Flip(p, {}) = [i \in 1 .. N |-> Xor(p[i], {})]
    BY <1>1 DEF Flip
  <2>2. \A i \in 1 .. N : Xor(p[i], {}) = p[i]
    BY DEF Xor
  <2> QED BY <1>1, <2>1, <2>2
<1> QED BY <1>5, <1>8, <1>9 DEF N, q

\* The packet with its flips undone is the one that was sent, and fits.
CrcInv ==
  /\ packetPhase \in {"new", "sent", "damaged", "received"}
  /\ packetPhase = "new" => flipped = {}
  /\ packetPhase = "sent" => flipped = {} /\ Fits(packet)
  /\ packetPhase = "damaged" =>
       /\ flipped \in Damages /\ \A b \in flipped : b < 8 * Len(packet)
       /\ packet \in Seq(Byte) /\ Fits(Flip(packet, flipped))
  /\ DamageIsNoticed

LEMMA CrcInvInit == CrcInit => CrcInv
BY DEF CrcInit, CrcInv, DamageIsNoticed

LEMMA CrcInvStep == CrcInv /\ [CrcNext]_crcVars => CrcInv'
<1> SUFFICES ASSUME CrcInv, [CrcNext]_crcVars PROVE CrcInv'
  OBVIOUS
<1>1. ASSUME NEW data \in Payloads, SendPacket(data) PROVE CrcInv'
  <2>1. Fits(packet')
    BY <1>1, SentPacketFits DEF SendPacket
  <2> QED BY <1>1, <2>1 DEF CrcInv, SendPacket, DamageIsNoticed
<1>2. ASSUME NEW bits \in Damages, LineFlips(bits) PROVE CrcInv'
  <2>1. packet \in Seq(Byte) /\ Fits(packet)
    BY <1>2 DEF CrcInv, LineFlips, Fits
  <2>2. packet' = Flip(packet, bits) /\ flipped' = bits /\ \A b \in bits : b < 8 * Len(packet)
    BY <1>2 DEF LineFlips
  <2>3. packet' \in Seq(Byte) /\ Len(packet') = Len(packet) /\ Flip(packet', flipped') = packet
    BY <2>1, <2>2, FlipsUndone
  <2> QED BY <1>2, <2>1, <2>2, <2>3 DEF CrcInv, LineFlips, DamageIsNoticed
<1>3. ASSUME ReceivePacket PROVE CrcInv'
  <2>1. crc_ok' = Verify_CRC16_Check_Sum(packet) /\ flipped' = flipped /\ packetPhase' = "received"
    BY <1>3 DEF ReceivePacket
  <2>2. Verify_CRC16_Check_Sum(packet) <=> flipped = {}
    <3>1. CASE packetPhase = "sent"
      BY <3>1 DEF CrcInv, Fits
    <3>2. CASE packetPhase = "damaged"
      <4> DEFINE p == Flip(packet, flipped)
      <4>1. /\ packet \in Seq(Byte) /\ flipped \in Damages /\ Fits(p)
            /\ \A b \in flipped : b < 8 * Len(packet)
        BY <3>2 DEF CrcInv
      <4>2. Len(p) = Len(packet) /\ Flip(p, flipped) = packet
        BY <4>1, FlipsUndone
      <4> HIDE DEF p
      <4>3. CASE flipped = {}
        <5>1. p = packet
          BY <4>1, <4>2, <4>3, FlipsUndone DEF Fits
        <5> QED BY <4>1, <4>3, <5>1 DEF Fits
      <4>4. CASE flipped # {}
        BY <4>1, <4>2, <4>4, DamageIsRefused
      <4> QED BY <4>3, <4>4
    <3> QED BY <1>3, <3>1, <3>2 DEF ReceivePacket
  <2> QED BY <2>1, <2>2 DEF CrcInv, DamageIsNoticed
<1>4. ASSUME UNCHANGED crcVars PROVE CrcInv'
  BY <1>4 DEF CrcInv, crcVars, DamageIsNoticed
<1> QED BY <1>1, <1>2, <1>3, <1>4 DEF CrcNext

(* The checksum of the serial packets, computed with the table of the code,  *)
(* is the remainder of the division by the polynomial of CRC-16/CCITT, for   *)
(* every packet; and a packet is taken just when no bit of it was flipped,   *)
(* where the damage is an odd number of bits, bits within sixteen of one     *)
(* another, or two bits anywhere in a packet of the longer of the two kinds. *)
THEOREM ChecksumCorrect == CrcSpec => []ChecksumGuardsThePacket
<1>1. CrcInv => ChecksumGuardsThePacket
  BY FittingIsRemainder DEF CrcInv, ChecksumGuardsThePacket, ChecksumIsTheRemainder
<1> QED BY <1>1, CrcInvInit, CrcInvStep, PTL DEF CrcSpec

=============================================================================
