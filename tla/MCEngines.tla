------------------------------ MODULE MCEngines ------------------------------
\* Three paths, a directory in a directory, a path that is a file.
EXTENDS Engines

MCPaths == <<"pve", "hosts", "cron">>
MCEntries == [pve |-> <<"user", "qemu">>, qemu |-> <<"vm">>, cron |-> <<"job">>]
=============================================================================
