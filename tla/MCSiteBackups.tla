--------------------------- MODULE MCSiteBackups ---------------------------
EXTENDS SiteBackups
CONSTANTS q1, r1, r2
=============================================================================
