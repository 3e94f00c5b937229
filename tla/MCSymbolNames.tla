----------------------------- MODULE MCSymbolNames -----------------------------
(***************************************************************************)
(* Three symbols at two addresses, or without one.  Texts are put together *)
(* of a few parts.  A name may be one that is avoided, look like the name  *)
(* that one is given instead, or look like a generated one.                *)
(***************************************************************************)
EXTENDS SymbolNames, Sequences

MCSym    == {"s", "t", "u"}
MCAddr   == {1, 2}
Digit    == <<"1", "2">>
Name4    == {<<"f">>, <<"FS">>, <<"FS", "_renamed">>, <<".L_", "1">>}

MCFormat   == [n \in Name4 |-> IF n = <<"FS">> THEN <<"FS", "_renamed">> ELSE n]
MCLocal    == [a \in MCAddr |-> <<".L_", Digit[a]>>]
MCUnknown  == [a \in MCAddr |-> <<"unknown_function_", Digit[a]>>]
MCNumbered == [n \in Name4 |-> [a \in MCAddr |-> n \o <<"_", Digit[a]>>]]

MCText ==
  Name4 \cup {MCLocal[a] : a \in MCAddr} \cup {MCUnknown[a] : a \in MCAddr}
        \cup {MCNumbered[n][a] : n \in Name4, a \in MCAddr}

(* No symbol is forwarded, or s is forwarded to u, in an ELF section of stubs *)
(* or of addresses, or on AArch64.                                          *)
Forwardings ==
  {[to |-> NoSym, sect |-> "plt", endings |-> TRUE]}
    \cup [to : {"u"}, sect : {"plt", "got"}, endings : {TRUE}]
    \cup [to : {"u"}, sect : {"plt"}, endings : {FALSE}]

MCTables ==
  {[name |-> n, addr |-> a, entries |-> e, skipped |-> k, endings |-> f.endings,
    forward |-> [s \in MCSym |-> IF s = "s" THEN f.to ELSE NoSym],
    sect |-> <<"other", f.sect>>] :
     n \in [MCSym -> Name4],
     a \in [MCSym -> MCAddr \cup {NoAddr}],
     e \in {{}, {1}, {1, 2}}, k \in {{}, {2}},
     f \in Forwardings}
===============================================================================
