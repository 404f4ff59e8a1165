--------------------------- MODULE MCQuoteServer ----------------------------
(***************************************************************************)
(* Two clients and two symbols; the second client's address is used again.  *)
(***************************************************************************)
EXTENDS QuoteServer

MCLists == {<<"b", ",", "a">>}
=============================================================================
