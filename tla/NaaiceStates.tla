---------------------------- MODULE NaaiceStates ----------------------------
(***************************************************************************)
(* naaice_communication_state (lib/naaice.h): the states of one            *)
(* communication context.  The library compares them with < and >=, so     *)
(* they keep the numbers of the enumeration.                               *)
(***************************************************************************)
EXTENDS Naturals

INIT           == 0    \* starting state
READY          == 1    \* address resolved (host only)
CONNECTED      == 2    \* connection established
DISCONNECTED   == 3
MRSP_SENDING   == 10
MRSP_RECEIVING == 11
MRSP_DONE      == 12
DATA_SENDING   == 20
CALCULATING    == 21   \* NAA only
DATA_RECEIVING == 22
FINISHED       == 30
ERROR          == 40

CommunicationStates ==
  {INIT, READY, CONNECTED, DISCONNECTED, MRSP_SENDING, MRSP_RECEIVING,
   MRSP_DONE, DATA_SENDING, CALCULATING, DATA_RECEIVING, FINISHED, ERROR}

=============================================================================
