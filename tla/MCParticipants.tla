---------------------------- MODULE MCParticipants ----------------------------
EXTENDS Participants
=============================================================================
