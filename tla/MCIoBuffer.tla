----------------------------- MODULE MCIoBuffer -----------------------------
(* The instances of IoBuffer that TLC checks. *)
EXTENDS IoBuffer

\* Takes everything out whenever it reads.
Drainer ==
  [calls |-> {"Append", "EnsureWritableSpace", "RetrieveAll", "ReadFromFd",
              "ReadLenFromFd", "ShrinkWritableSpace"},
   bytes |-> 12]

\* Takes any number of bytes out, and never makes the buffer grow.
Nibbler ==
  [calls |-> {"Append", "SetHeadContent", "RetrieveAString", "RetrieveInt",
              "WriteToFd", "ReadFromFd"},
   bytes |-> Initial]

\* Takes any number of bytes out, and makes the buffer grow.
Grower ==
  [calls |-> {"Append", "EnsureWritableSpace", "RetrieveAString", "RetrieveInt",
              "ReadFromFd", "ReadLenFromFd", "ShrinkWritableSpace"},
   bytes |-> 10]

Compacter ==
  [calls |-> {"Append", "RetrieveAString", "EnsureWritableSpace"},
   bytes |-> 2 * Initial]

Everyone == {Drainer, Nibbler, Grower}
Compacting == {Compacter}
=============================================================================
