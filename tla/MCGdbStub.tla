-------------------------------- MODULE MCGdbStub --------------------------------
\* Three commands of a debugger that loses patience twice.
EXTENDS GdbStub
================================================================================
