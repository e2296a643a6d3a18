--------------------------- MODULE MCClientQueue ----------------------------
(* Two lanes of three cells and four clients: a lane can be empty, partly    *)
(* filled, full, and refuse a client.                                        *)
EXTENDS ClientQueue

MCRates   == {"RR_1s", "RR_1m"}
MCClients == 0 .. 3
=============================================================================
