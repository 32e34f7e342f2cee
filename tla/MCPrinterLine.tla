--------------------------- MODULE MCPrinterLine ---------------------------
(***************************************************************************)
(* Two web requests to a printer that acknowledges and says when it is     *)
(* idle; one to a printer that tells temperatures, to one that adds        *)
(* comments and control characters and to a Repetier printer; two TCP      *)
(* clients that contend for the slot.                                      *)
(***************************************************************************)
EXTENDS PrinterLine

MCLoads ==
  {[repetier |-> FALSE, pieces |-> {"ok", "wait", "nl"}, sent |-> 4,
    clients |-> {}, typed |-> 0, requests |-> 2],
   [repetier |-> FALSE, pieces |-> {"ok", "T:", "nl"}, sent |-> 4,
    clients |-> {}, typed |-> 0, requests |-> 1],
   [repetier |-> FALSE, pieces |-> {"x", ";", "tab", "nl"}, sent |-> 4,
    clients |-> {}, typed |-> 0, requests |-> 1],
   [repetier |-> TRUE, pieces |-> {"ok", "busy:", "x", "nl"}, sent |-> 4,
    clients |-> {}, typed |-> 0, requests |-> 1],
   [repetier |-> FALSE, pieces |-> {"ok", "nl"}, sent |-> 2,
    clients |-> Clients, typed |-> 1, requests |-> 1]}
=============================================================================
