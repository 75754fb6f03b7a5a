----------------------------- MODULE MCMcpServer -----------------------------
\* An instance of McpServer: session b is held by the bridge; dk_connect resumes
\* it as session a, on which dk_watch and a closing tool are then called.
EXTENDS McpServer

CONSTANTS a, b, connect, watch, close

SessionOfCall == [c \in {connect, watch, close} |-> a]
ResumeB == [c \in {connect} |-> b]
Release == [w \in {watch} |-> "release"]

\* Another agent's lock release and conflict, and a change by session b.
SomeEvents == {[from |-> NoSession, kind |-> "release"],
               [from |-> NoSession, kind |-> "conflict"],
               [from |-> b, kind |-> "change"]}
=============================================================================
