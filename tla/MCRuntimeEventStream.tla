----------------------- MODULE MCRuntimeEventStream -----------------------
EXTENDS RuntimeEventStream, TLC
=============================================================================
