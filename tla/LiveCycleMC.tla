----------------------------- MODULE LiveCycleMC -----------------------------
(* TLC instances of LiveCycle, and a claim of the code that TLC refutes. *)
EXTENDS LiveCycle

SomeBuys    == {2, 4, 5}
NoHole      == {{}}
OneHole     == {{}, {3}}
AllServices == {"plain", "checkpointed", "gap_aware"}
PlainOnly   == {"plain"}

\* live/poll_loop.py, module docstring: after a fatal failure "an external
\* supervisor restarts it through the deterministic Phase 33 restart path
\* (persisted candle window plus verified ledger recovery)".
RestartIsNeverRefused == pc # "refused"

=============================================================================
