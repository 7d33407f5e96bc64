-------------------------- MODULE MCPacketHandler --------------------------
(* A receive ring for two frames, so that it wraps and fills.  With 14, 8 and *)
(* 11 bytes of message and 20 of header the checksum loop is entered at every *)
(* place; the bytes make the sum carry.                                       *)
EXTENDS PacketHandler, TLC

MCFrameSize(f) == IF f % 2 = 0 THEN 2 ELSE 5

MCEcho == 1 :> <<8, 0, 9, 9, 255, 254, 0, 3, 255, 255, 0, 1, 128, 128>>
       @@ 2 :> <<8, 0, 9, 9, 255, 254, 0, 4>>
       @@ 3 :> <<8, 0, 9, 9, 1, 2, 3, 4, 200, 201, 202>>

MCIPHeader == <<69, 0, 0, 28, 255, 255, 64, 0, 60, 1, 0, 0, 192, 168, 0, 2, 192, 168, 0, 9>>

MCEthernet == <<2048>>

MCMessages == {<<>>}

=============================================================================
