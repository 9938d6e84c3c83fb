---------------------------- MODULE MCCommandStep ----------------------------
EXTENDS CommandStep

CONSTANT d1

MCDaemons == {d1}
\* success, an exit code of its own, the exit code of a failed helper, SIGTERM
MCStatuses == {0, 1, -15}
=============================================================================
