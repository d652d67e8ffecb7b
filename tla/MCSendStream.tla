---------------------------- MODULE MCSendStream ----------------------------
EXTENDS SendStream
=============================================================================
