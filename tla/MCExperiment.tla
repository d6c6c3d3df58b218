---------------------------- MODULE MCExperiment ----------------------------
EXTENDS Experiment

MCTogether == <<{1, 2}>>
=============================================================================
