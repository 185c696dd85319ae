--------------------------- MODULE MCAcpSessions ---------------------------
EXTENDS AcpSessionsProperties
CONSTANTS s1, s2
=============================================================================
