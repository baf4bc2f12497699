--------------------------- MODULE MCShellctlJob ---------------------------
(* Model values for the runs of ShellctlJob. *)
EXTENDS ShellctlJob

MCCodes == {0, 7}
NullCode == -1
PTY == {"pty"}
Both == {"pty", "stdio"}
MonitorOnly == {"monitor"}
CollectorOnly == {"gc"}
LiveOps == {"monitor", "terminate"}

\* Without the collector, which lists rows while a job is being started.
ClientOps == {"status", "monitor", "terminate", "delete", "force"}

NoFaults == {}
DeathFaults == {"runner", "pipe", "finalizer", "server", "sandbox"}
LiveFaults == {"server", "runner", "pipe", "finalizer", "tmux"}
=============================================================================
