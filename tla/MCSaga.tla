------------------------------- MODULE MCSaga -------------------------------
EXTENDS Saga
=============================================================================
