------------------------------- MODULE MCBoard -------------------------------
(* Every edge of the address map, and what a guest does at a few of them.  *)
EXTENDS Board

CAddresses ==
  {0, \h3FF, \h400, \h401, \h297E, \h297F, \h2980, \h3FFFF, \h40000,
   \hDFE83, \hDFE84, \hDFEC6, \hDFF07, \hDFF40, \hDFF48, \hDFF4A, \hDFF4C, \hDFF4E,
   \hDFF5E, \hDFF5F, \hDFF60, \hDFF7F, \hDFF86, \hDFF8E, \hDFF8F, \hDFFC3, \hDFFC4,
   \hFBFFF, \hFC000, \hFFFFF}
CBytes == {15, 143}   \* also the auxiliary command "interface clear", off and on
CRomByte == [o \in 0 .. romSize - 1 |-> IF o = 0 THEN 17 ELSE 234]

Words == {"-machine", "-speed", "-debug", "-h", "1101", "1139", "list", "8", "-1", "none"}
Lines == UNION {[1 .. n -> Words] : n \in 0 .. 4}

Uses(addresses) == [argv |-> <<>>, program |-> [addresses |-> addresses, ports |-> {}]]
CSessions ==
  {[argv |-> line, program |-> [addresses |-> {}, ports |-> {}]] : line \in Lines}
    \cup {Uses({\h3FF, \h400, \h401, \h100400}),
          Uses({\h297E, \h297F, \h2980}), Uses({\h3FFFF, \h40000, \hDFFC4}),
          Uses({0, \hFBFFF, \hFC000, \hFFFFF, \h100000}),
          Uses({\hDFE83, \hDFE84, \hDFEC6, \hDFF07, \hDFFC3}),
          Uses({\hDFF86, \hDFF8E, \hDFF8F}),
          Uses({\hDFF48, \hDFF4A, \hDFF4C, \hDFF4E}),
          [argv |-> <<>>, program |-> [addresses |-> {}, ports |-> {0, 2, 3, 14, 4098}]]}
=============================================================================
