----------------------------- MODULE MCAnalyses -----------------------------
EXTENDS Analyses
=============================================================================
