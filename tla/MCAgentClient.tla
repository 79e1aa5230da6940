-------------------------- MODULE MCAgentClient --------------------------
EXTENDS AgentClient
CONSTANTS quick, build, rotation
=============================================================================
