--------------------------------- MODULE MCCpu --------------------------------
(***************************************************************************)
(* A byte of 4 bits made of two nibbles of 2, decimals to base 3, and       *)
(* paragraphs of 2 bytes.  Bytes take every value where one routine has two *)
(* operands of a byte; for operands of two bytes the high one takes the     *)
(* values around 0, the sign and all ones, and words the values where       *)
(* quotients, products and signs change.                                    *)
(***************************************************************************)
EXTENDS CpuRoutines

Bytes   == 0 .. Byte - 1
Edges   == {0, ByteSign - 1, ByteSign, Byte - 1}
Lows    == {0, 1, ByteSign - 1, ByteSign, Byte - 1}
Bcds    == {n * Nibble + d : n, d \in 0 .. Digits - 1}
Words   == {0, 1, 3, Byte, WordSign - 1, WordSign, WordSign + 1, Word - 1}

AB(a, b) == [ax |-> a, bx |-> b]

Pairs ==
  {Load(j, [cx |-> 2], <<a0, a1, b0, b1>>) :
     j \in {"add", "sub", "cmp2"}, a0 \in Lows, a1 \in Edges, b0 \in Lows, b1 \in Edges}
Decimals ==
  {Load(j, [cx |-> 2], <<a0, a1, b0, b1>>) :
     j \in {"daa", "das"}, a0 \in Bcds, a1 \in {0, 5, 10}, b0 \in Bcds, b1 \in {0, 5, 10}}
Singles ==
  {Load(j, <<>>, <<a0, a1>>) :
     j \in {"neg", "not", "double", "halve", "halvesd"}, a0 \in Lows, a1 \in Bytes}
ByteOps ==
  {Load(j, AB(a, b), <<>>) :
     j \in {"signed", "rotate", "logic", "cmp", "test", "testev", "mul", "imul", "idiv"},
     a \in Bytes, b \in Bytes}
DigitOps ==
  {Load(j, AB(a, b), <<>>) :
     j \in {"aaa", "aas", "aam"}, a \in 0 .. Digits - 1, b \in 0 .. Digits - 1}
Unpacked ==
  {Load(j, AB(Byte * h + l, b), <<>>) :
     j \in {"aad", "aamzero"}, h, l, b \in 0 .. Digits - 1}
ByteDivisions == {Load("div", AB(a, b), <<>>) : a \in 0 .. Word - 1, b \in Bytes}
WordProducts ==
  {Load(j, AB(a, b), <<>>) : j \in {"mul16", "imul16", "idiv16"}, a, b \in Words}
WordDivisions ==
  {Load("div16", [ax |-> a, bx |-> b, dx |-> d], <<>>) : a, b, d \in Words}
Strings4 ==
  {Load(j, [cx |-> n, ax |-> Byte * 6 + 5], <<3, 9, 14, 6, 1, 2, 4, 8>>) :
     j \in {"movsb", "copy", "stosb"}, n \in 0 .. 4}
  \cup {Load(j, [cx |-> n, ax |-> Byte * 6 + 5], <<3, 9, 14, 6, 1, 2, 4, 8>>) :
     j \in {"movsw", "stosw"}, n \in 0 .. 2}
  \cup {Load("movsd", [cx |-> n, si |-> (n - 1) % Word, di |-> (n - 1) % Word],
             <<3, 9, 14, 6, 1, 2, 4, 8>>) : n \in 0 .. 4}
Searches ==
  {Load(j, [cx |-> n], <<1, 0, s, 1, e0, e1, e2, 1>>) :
     j \in {"cmpsb", "scasb", "scanne", "scane"}, n \in 0 .. 4, s, e0, e1, e2 \in 0 .. 1}
  \cup {Load(j, [cx |-> n, ax |-> 1], <<1, 0, s, 1, e0, e1, e2, 1>>) :
     j \in {"cmpsw", "scasw"}, n \in 0 .. 2, s, e0, e1, e2 \in 0 .. 1}
Transfers ==
  {Load(j, [ax |-> 5], FarCells(FarAt(1, Entry + 2))) :
     j \in {"callmp", "near", "asint", "service", "break"}}
  \cup {Load("far", [ax |-> Byte * 6 + 5], <<p, 0, c, 0, 9, 7>>) : p \in 0 .. 3, c \in 0 .. 1}
  \cup {Load("callev", [ax |-> 3, cx |-> 4, bx |-> Entry + 4], <<>>)}
  \cup {Load("jumps", [bx |-> Entry + 6 - 1 * Paragraph],
             FarCells(FarAt(1, Entry + 4)) \o <<2, 0>>)}
Movements ==
  {Load("moves", [ax |-> Byte * 3 + 1, bx |-> b, cx |-> e, si |-> i], <<2, 1, 0, 4, 7, 9, 3, 8>>) :
     b \in 0 .. 2, e \in 0 .. 2, i \in 0 .. 1}
  \cup {Load("swap", [bx |-> b], <<x, 0, y, 0, 1, 2>>) : b \in {0, 2}, x, y \in 0 .. 4}
  \cup {Load("les", [ax |-> 6], <<p, 0, c, 0, 9, 7>>) : p \in 0 .. 3, c \in 0 .. 2}
  \cup {Load("incmem", <<>>, <<a, a, b, b>>) : a, b \in {0, Byte - 1}}
Devices == {0, Byte - 1}
LoadSets == {Transfers, Movements, Pairs, Decimals, Singles, ByteOps, DigitOps, Unpacked, ByteDivisions,
             WordProducts, WordDivisions, Strings4, Searches}
=============================================================================
