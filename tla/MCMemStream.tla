----------------------------- MODULE MCMemStream -----------------------------
EXTENDS MemStream
==============================================================================
