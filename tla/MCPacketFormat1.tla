-------------------------- MODULE MCPacketFormat1 ---------------------------
(* Words of a few bits; every message of up to two events whose clock      *)
(* ticks are at an end of their range, and one refused before its events.  *)
EXTENDS PacketFormat1

CONSTANTS Delays, Offsets, BitCounts

LastTick == PowerOf2[TOF_BITS] - 1

MCEvents ==
  [marked : {TRUE}, ticks : {LastTick}, pos_word : 0..(U32_VALUES - 1)]
  \cup [marked : BOOLEAN, ticks : {0}, pos_word : {U32_VALUES - 1}]

MCData == {<<>>} \cup {<<e>> : e \in MCEvents} \cup (MCEvents \X MCEvents)

Accepted ==
  [odd_length : {FALSE}, parameters_fit : {TRUE}, channel_bits : BitCounts,
   position_bits_per_channel : BitCounts, detector_id_offset : Offsets,
   frame_sync_delay_us : Delays, data : MCData]

MCInputs ==
  Accepted
  \cup {[in EXCEPT !.odd_length = TRUE] :
          in \in {a \in Accepted : a.data = <<>>}}
  \cup {[in EXCEPT !.parameters_fit = FALSE] :
          in \in {a \in Accepted : a.data = <<>>}}
=============================================================================
