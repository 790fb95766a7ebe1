---------------------------- MODULE MCAudioFilter ----------------------------
EXTENDS AudioFilter
=============================================================================
