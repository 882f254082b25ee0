---------------------------- MODULE MCSoundClips ----------------------------
(* SoundClips with two sounds, two slots and two voices.                   *)
EXTENDS SoundClips
=============================================================================
