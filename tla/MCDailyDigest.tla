---------------------------- MODULE MCDailyDigest ----------------------------
(* A message in each of two groups, one of which is new; or a group with   *)
(* more messages than are shown when the model fails.                      *)
EXTENDS DailyDigest
MCGroupOf == <<1, 2>>
MCBusyGroup == <<1, 1>>
=============================================================================
