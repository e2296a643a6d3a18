------------------------------ MODULE MCReport ------------------------------
(* Clients of both protocols and of three types: a double over Modbus, which *)
(* is copied over the dword of another client, and doubles and enums over    *)
(* OPC, whose nodes may be of another type.  Lines may be too long by two.   *)
EXTENDS Report, TLC

SomeClients == 0 .. clientsCount - 1

TheProtocol == 0 :> "modbus" @@ 1 :> "opc" @@ 2 :> "modbus" @@ 3 :> "opc"
TheDataType == 0 :> "double" @@ 1 :> "double" @@ 2 :> "dword" @@ 3 :> "enum"

SomeComputed == {0, 1}

Lengths == 2 .. DATA_MAX_LINE_LEN + 2
=============================================================================
