---------------------------- MODULE MCPollCycle ----------------------------
EXTENDS PollCycle

CONSTANT extended

MCOptional == <<extended>>
=============================================================================
