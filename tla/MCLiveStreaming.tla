---- MODULE MCLiveStreaming ----
EXTENDS LiveStreaming
====
