---------------------------- MODULE MCDiagnostics ----------------------------
\* The constants of MCBackupRun, with the retry as its trigger.
EXTENDS MCBackupRun, Diagnostics
=============================================================================
