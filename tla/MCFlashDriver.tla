---------------------------- MODULE MCFlashDriver ---------------------------
(* FlashDriver with pages of two bytes and sectors of two pages: a program *)
(* that starts and ends inside a page, one of an odd length over sectors,  *)
(* programs of a page and of a sector, erases of a sector and of a page    *)
(* below the unelevated limit, and one past the end of the chip.  The      *)
(* chips: one with lock parameters and a page erase, one with the          *)
(* parameters but no page erase, one without parameters, one not known.    *)
EXTENDS FlashDriver

MCChips ==
    {<<"BOYA", "1MB">>, <<"MACRONIX", "512KB">>, <<"BOYA", "512KB">>,
     <<"other", "1MB">>}

MCRequests ==
    {[op |-> "by_addr", addr |-> 5, len |-> 4],
     [op |-> "by_addr", addr |-> 11, len |-> 2],
     [op |-> "page", addr |-> 2, len |-> 1],
     [op |-> "sector", addr |-> 4, len |-> 3],
     [op |-> "erase", addr |-> 4, len |-> 4],
     [op |-> "erase", addr |-> 2, len |-> 2]}
=============================================================================
