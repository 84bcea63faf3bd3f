---------------------------- MODULE MCCarControl ----------------------------
(***************************************************************************)
(* CarControl with a history variable, for what mqtt-api.md says of a       *)
(* direction: that it is for the next junction, which the car knows before  *)
(* it arrives there.                                                        *)
(***************************************************************************)
EXTENDS CarControl

VARIABLE heard   (* ctx.orient was received on the open road.               *)

HearsOnRoad == /\ pc = "cmds" /\ cmds # <<>> /\ Head(cmds).orient # "NONE"
               /\ place = "road" /\ ctx.phase = "NONE" /\ ctx.state = "FOLLOW"

HInit == Init /\ heard = FALSE
HNext == Next /\ heard' = ((heard \/ HearsOnRoad) /\ ctx'.has)

HSpec == HInit /\ [][HNext]_<<vars, heard>>

(* A direction that a driving car received on the road, and still holds     *)
(* when it comes to the next mark, is one for this mark: it is not lost.    *)
KnownBeforeArrival ==
  [][heard /\ ctx.phase = "NONE" /\ ctx'.phase = "APPROACH" => ctx'.has]_<<vars, heard>>
=============================================================================
