-------------------------- MODULE MCSessionRefresh --------------------------
EXTENDS SessionRefresh
=============================================================================
