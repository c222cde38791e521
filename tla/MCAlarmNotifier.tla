-------------------------- MODULE MCAlarmNotifier --------------------------
(* AlarmNotifier with two automations, one of them with a cooldown. *)
EXTENDS AlarmNotifier

CONSTANTS w1, a1, a2

TwoAutomations == {a1, a2}
OneCoolsDown == [a \in TwoAutomations |-> IF a = a1 THEN 2 ELSE 0]
=============================================================================
