---------------------------- MODULE MCReaderPool ----------------------------
(* ReaderPool for TLC: the four connections of storage.Open, in use by one  *)
(* export or by several.                                                    *)
EXTENDS ReaderPool

FourConnections == 1..4
=============================================================================
