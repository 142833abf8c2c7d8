---------------------------- MODULE MCSentryTree ----------------------------
(* Model-checking instance of SentryTree.  Each message set holds the two    *)
(* sides of the boundary its condition node tests.                           *)
EXTENDS SentryTree

MCGameMsgs == {[game_progress |-> 4, stage_remain_time |-> 420],
               [game_progress |-> 5, stage_remain_time |-> 420]}
MCRobotMsgs == {[current_hp |-> 150, heat |-> 0, ammo |-> 50],
                [current_hp |-> 149, heat |-> 0, ammo |-> 50]}
MCRfidMsgs == {[supply_non_exchange |-> TRUE, supply_exchange |-> FALSE]}
MCEventMsgs == {[base_hp |-> 5000, fortress |-> 1],
                [base_hp |-> 4999, fortress |-> 1]}
=============================================================================
