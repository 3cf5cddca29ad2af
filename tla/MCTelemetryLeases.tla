------------------------- MODULE MCTelemetryLeases -------------------------
EXTENDS TelemetryLeases, TLC

=============================================================================
