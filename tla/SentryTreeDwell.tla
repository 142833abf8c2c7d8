-------------------------- MODULE SentryTreeDwell --------------------------
(***************************************************************************)
(* SentryTree with a history variable: for how many ticks the status that  *)
(* the behaviour server sees on /sentry_status has not changed.  Checked   *)
(* for a match in which the robot may be hurt but the base is safe.        *)
(***************************************************************************)
EXTENDS MCSentryTree

DwellGameMsgs == {[game_progress |-> 4, stage_remain_time |-> 420]}
DwellRfidMsgs == {}
DwellEventMsgs == {[base_hp |-> 5000, fortress |-> 1]}

VARIABLE statusAge   \* capped just above the timeout

dwellVars == <<vars, statusAge>>

DwellInit == Init /\ statusAge = 0

DwellNext ==
    /\ Next
    /\ statusAge' = IF bbStatus' # bbStatus THEN 0
                    ELSE IF pc = "idle" /\ pc' = "game" THEN Lesser(statusAge + 1, Timeout + 1)
                    ELSE statusAge

DwellSpec ==
    DwellInit /\ [][DwellNext]_dwellVars
    /\ WF_dwellVars(DwellNext /\ Tick)
    /\ WF_dwellVars(DwellNext /\ ExecuteAgain)
    /\ WF_dwellVars(DwellNext /\ StatusMsg)

\* What the ports of IsStatusTimeOK and StatusConvert say: the timeout is the
\* maximum continuous dwell time, the temporary status breaks the continuous
\* dwell timing.  Hence a conversion starts only when the status seen on
\* /sentry_status has not changed for longer than the timeout.
ConvertOnlyAfterContinuousDwell ==
    [][\A b \in Fighting :
         br[b].phase # "convert" /\ br'[b].phase = "convert" => statusAge > Timeout]_dwellVars
=============================================================================
