--------------------------- MODULE MCOrderTicket ----------------------------
EXTENDS OrderTicket
=============================================================================
