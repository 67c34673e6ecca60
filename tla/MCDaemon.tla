------------------------------- MODULE MCDaemon -------------------------------
\* Small instances of Daemon.
EXTENDS Daemon, TLC

CONSTANTS d1, d2, c1, s1, s2
=============================================================================
