------------------------------ MODULE MCStartup ------------------------------
(* Up to three clients, of which two are accepted, of two rates; clients that  *)
(* may be refused, for every reason there is; three attempts at the broker.    *)
EXTENDS Startup

Entry(ok, own, rate, proto, type) ==
  [common |-> ok, specific |-> own, refresh_rate |-> rate, protocol |-> proto,
   data_type |-> type]

SomeClients ==
  {Entry(TRUE, TRUE, "1s", "modbus", "int"), Entry(TRUE, TRUE, "1m", "modbus", "bool"),
   Entry(TRUE, TRUE, "1s", "opc", "char"), Entry(TRUE, TRUE, "1s", "modbus", "char"),
   Entry(FALSE, TRUE, "1s", "opc", "int"), Entry(TRUE, FALSE, "1m", "modbus", "dword")}
==============================================================================
