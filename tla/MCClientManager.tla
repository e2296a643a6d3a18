--------------------------- MODULE MCClientManager ---------------------------
(* A client of each protocol, with a device each, beside an OPC client whose  *)
(* node cannot be read, a Modbus client without a context, and another whose  *)
(* registers are refused.  And one Modbus client alone.                       *)
EXTENDS ClientManager

AllProtocols == <<"TCP", "OPC", "RTU", "OPC", "TCP", "RTU">>
AllDevices   == <<"plc", "server", "line", "server", "plc", "line">>
OnlyTCP      == <<"TCP">>
OnePlc       == <<"plc">>

None           == {}
Fifth          == {5}
FourthAndSixth == {4, 6}
=============================================================================
