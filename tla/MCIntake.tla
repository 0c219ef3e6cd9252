------------------------------- MODULE MCIntake -------------------------------
(* Small requests and cadences for Intake.                                 *)
EXTENDS Intake, TLC

CONSTANT a

PartialAsk == [start_from |-> a, stop_after |-> None, promote |-> None]

Asks == {PartialAsk}

Cron(p) == [kind |-> "cron", period |-> p]
Interval(p) == [kind |-> "interval", period |-> p]

Cadences == {Cron(1), Cron(2), Interval(2)}
=============================================================================
