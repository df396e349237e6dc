------------------------------- MODULE MCSuite -------------------------------
EXTENDS Suite
=============================================================================
