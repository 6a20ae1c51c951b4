------------------------------- MODULE MCLive -------------------------------
EXTENDS LiveStream
=============================================================================
