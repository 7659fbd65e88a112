------------------------- MODULE MCNodeTranscriptStore -------------------------
EXTENDS NodeTranscriptStore
=============================================================================
