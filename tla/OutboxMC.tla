------------------------------ MODULE OutboxMC ------------------------------
(* TLC instances of Outbox. *)
EXTENDS Outbox

OneSignal  == {1}
TwoSignals == {1, 2}

=============================================================================
