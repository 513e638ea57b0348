----------------------------- MODULE MCDailyRun -----------------------------
EXTENDS DailyRun
=============================================================================
