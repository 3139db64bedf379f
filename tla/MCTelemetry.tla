---------------------------- MODULE MCTelemetry ----------------------------
EXTENDS Telemetry, TLC

Times == [e \in Events |-> 1]
ExporterSymmetry == Permutations(Exporters)
=============================================================================
