-------------------------- MODULE MCClientConnection --------------------------
EXTENDS ClientConnection
CONSTANTS x1, x2, u1
===============================================================================
