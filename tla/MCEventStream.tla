---------------------------- MODULE MCEventStream ----------------------------
\* Three sockets, so that a takeover can meet the cleanup of an earlier one,
\* and a stream shorter than the number of messages.
EXTENDS EventStream
=============================================================================
