---------------------------- MODULE MCVoiceState ----------------------------
EXTENDS VoiceState
=============================================================================
