---------------------------- MODULE LivoxConfig ----------------------------
(***************************************************************************)
(* How livox_ros_driver2 configures a lidar the SDK announces              *)
(* (call_back/livox_lidar_callback.cpp, InitLivoxLidar of lds_lidar.cpp,   *)
(* GetFreeIndex and GetIndex of comm/cache_index.cpp).                     *)
(*                                                                         *)
(* Two SDK threads meet here: the one that announces lidars runs           *)
(* LidarInfoChangeCallback, the one that delivers command answers runs the *)
(* Set...Callback functions.  config_mutex_ is what keeps an answer to the *)
(* first option from being counted before the last option has been asked.  *)
(***************************************************************************)
EXTENDS Naturals, FiniteSets

CONSTANTS Lidars,         \* the handles the SDK may announce
          UserConfigs,    \* handle -> options the config file sets (not -1)
          kMaxSourceLidar,
          MaxAnnounce     \* announcements that are followed

\* LivoxLidarConfigCodeBit, in the order LidarInfoChangeCallback asks for them
kConfigBits == <<"DataType", "ScanPattern", "BlindSpot", "DualEmit">>
Options == {kConfigBits[i] : i \in DOMAIN kConfigBits}

ASSUME ConfigAssumption ==
  /\ IsFiniteSet(Lidars)
  /\ DOMAIN UserConfigs \subseteq Lidars
  /\ \A l \in DOMAIN UserConfigs : UserConfigs[l] \subseteq Options
  /\ kMaxSourceLidar \in Nat /\ MaxAnnounce \in Nat

VARIABLES map_index_,     \* the handles that have an entry of lidars_
          set_bits,       \* livox_config.set_bits
          connect_state,
          asked,          \* options a lidar was asked for, by number of open requests
          announcing,     \* the running LidarInfoChangeCallback, at most one
          announced,      \* how often a lidar was announced
          acknowledged,   \* options a lidar has confirmed      (history)
          refused         \* options a lidar has answered with an error (history)

cfgVars == <<map_index_, set_bits, connect_state, asked, announcing, announced,
             acknowledged, refused>>

NoCallback == [lidar |-> "none", todo |-> {}]

(* livox_config of an entry nobody filled in is zero, and zero is a value  *)
(* like any other: only -1 means "leave as it is".                         *)
Wanted(l) == IF l \in DOMAIN UserConfigs THEN UserConfigs[l] ELSE Options

CfgInit ==
  \E chosen \in SUBSET DOMAIN UserConfigs :
     /\ Cardinality(chosen) <= kMaxSourceLidar
     /\ chosen # DOMAIN UserConfigs => Cardinality(chosen) = kMaxSourceLidar
     /\ map_index_ = chosen
     /\ set_bits = [l \in Lidars |-> {}]
     /\ connect_state = [l \in Lidars |-> "Off"]
     /\ asked = [l \in Lidars |-> [o \in Options |-> 0]]
     /\ announcing = NoCallback
     /\ announced = [l \in Lidars |-> 0]
     /\ acknowledged = [l \in Lidars |-> {}]
     /\ refused = [l \in Lidars |-> {}]

\* config_mutex_ is held while the options are being asked for
ConfigMutexFree == announcing = NoCallback

(* LidarInfoChangeCallback starts.  A lidar without an entry gets one, if  *)
(* one is free, and is asked for nothing; the other ones are configured,   *)
(* under the mutex.  The requests that follow in every case (attitude,     *)
(* work mode, IMU) change no state of the driver, and neither do their     *)
(* callbacks, which log or ask again.                                      *)
LidarInfoChangeCallback(l) ==
  /\ announcing = NoCallback
  /\ Cardinality({a \in Lidars \X (1 .. MaxAnnounce) : a[2] <= announced[a[1]]}) < MaxAnnounce
  /\ announced' = [announced EXCEPT ![l] = @ + 1]
  /\ IF l \in map_index_
       THEN /\ announcing' = IF Wanted(l) = {} THEN NoCallback
                             ELSE [lidar |-> l, todo |-> Wanted(l)]
            /\ UNCHANGED map_index_
       ELSE /\ map_index_' = IF Cardinality(map_index_) < kMaxSourceLidar
                             THEN map_index_ \cup {l} ELSE map_index_
            /\ UNCHANGED announcing
  /\ UNCHANGED <<set_bits, connect_state, asked, acknowledged, refused>>

\* the first one of the options that are left
NextOption(todo) == kConfigBits[CHOOSE i \in DOMAIN kConfigBits :
                                   /\ kConfigBits[i] \in todo
                                   /\ \A j \in 1 .. i - 1 : kConfigBits[j] \notin todo]

\* the next option: its bit is set, then the lidar is asked; the last one frees the mutex
RequestOption ==
  /\ announcing # NoCallback
  /\ LET l == announcing.lidar
         o == NextOption(announcing.todo)
         left == announcing.todo \ {o}
     IN  /\ set_bits' = [set_bits EXCEPT ![l] = @ \cup {o}]
         /\ asked' = [asked EXCEPT ![l][o] = @ + 1]
         /\ announcing' = IF left = {} THEN NoCallback ELSE [lidar |-> l, todo |-> left]
  /\ UNCHANGED <<map_index_, connect_state, announced, acknowledged, refused>>

Answered(l, o) == [asked EXCEPT ![l][o] = @ - 1]

(* Set...Callback of an option.  A confirmation clears the bit under the   *)
(* mutex and, with the last bit, lets the lidar's data out; a timeout asks *)
(* again; any other answer ends there.                                     *)
OptionConfirmed(l, o) ==
  /\ asked[l][o] > 0
  /\ ConfigMutexFree
  /\ asked' = Answered(l, o)
  /\ set_bits' = [set_bits EXCEPT ![l] = @ \ {o}]
  /\ connect_state' = [connect_state EXCEPT ![l] =
                         IF set_bits[l] \ {o} = {} THEN "Sampling" ELSE @]
  /\ acknowledged' = [acknowledged EXCEPT ![l] = @ \cup {o}]
  /\ UNCHANGED <<map_index_, announcing, announced, refused>>

OptionRefused(l, o) ==
  /\ asked[l][o] > 0
  /\ asked' = Answered(l, o)
  /\ refused' = [refused EXCEPT ![l] = @ \cup {o}]
  /\ UNCHANGED <<map_index_, set_bits, connect_state, announcing, announced, acknowledged>>

(* Mutant: the timeout is only logged. *)
TimedOutSilently(l, o) ==
  /\ asked[l][o] > 0
  /\ asked' = Answered(l, o)
  /\ UNCHANGED <<map_index_, set_bits, connect_state, announcing, announced,
                 acknowledged, refused>>

(* A timeout: the callback asks again, which leaves the one request open.  *)
TimedOut(l, o) ==
  /\ asked[l][o] > 0
  /\ asked' = [Answered(l, o) EXCEPT ![l][o] = @ + 1]
  /\ UNCHANGED <<map_index_, set_bits, connect_state, announcing, announced,
                 acknowledged, refused>>

CfgNext ==
  \/ \E l \in Lidars : LidarInfoChangeCallback(l)
  \/ RequestOption
  \/ \E l \in Lidars, o \in Options :
        OptionConfirmed(l, o) \/ OptionRefused(l, o) \/ TimedOut(l, o)

(* The callback thread runs to its end, and a lidar that is asked again    *)
(* and again answers in the end, one way or the other: a request that      *)
(* timed out is open again at once.                                        *)
CfgFairness ==
  /\ WF_cfgVars(RequestOption)
  /\ \A l \in Lidars, o \in Options :
       WF_cfgVars(OptionConfirmed(l, o) \/ OptionRefused(l, o))

CfgSpec == CfgInit /\ [][CfgNext]_cfgVars /\ CfgFairness

(***************************************************************************)
(* Properties                                                              *)
(***************************************************************************)
(* A lidar's data leaves the driver (connect_state Sampling) only once the *)
(* lidar has confirmed every option that is asked of it, whatever the      *)
(* order of answers, timeouts and repeated announcements.                  *)
SamplingMeansConfigured ==
  \A l \in Lidars : connect_state[l] = "Sampling" => Wanted(l) \subseteq acknowledged[l]

(* A lidar of the config file that is announced and refuses nothing gets   *)
(* to Sampling, however many of its commands time out on the way, provided *)
(* the file sets an option for it at all.                                  *)
AnnouncedLidarSamples ==
  \A l \in DOMAIN UserConfigs :
     (UserConfigs[l] # {} /\ l \in map_index_ /\ announced[l] > 0)
        ~> (connect_state[l] = "Sampling" \/ refused[l] # {})

\* A lidar samples once it has confirmed all its options, not before, and does so
\* in the end.
LidarsAreConfigured ==
    []SamplingMeansConfigured /\ AnnouncedLidarSamples
=============================================================================
