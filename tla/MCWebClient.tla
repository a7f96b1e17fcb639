---------------------------- MODULE MCWebClient ----------------------------
\* A small instance of WebClient: one device, and two browser sockets in turn.
EXTENDS WebClient
=============================================================================
