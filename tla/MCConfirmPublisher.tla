-------------------------- MODULE MCConfirmPublisher --------------------------
EXTENDS ConfirmPublisher
CONSTANTS c1, c2
MCIdOf == [c \in Call |-> c]
MCSame == [c \in Call |-> c1]
===============================================================================
