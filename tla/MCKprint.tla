------------------------------ MODULE MCKprint ------------------------------
(***************************************************************************)
(* Words of 5 bits, in a buffer of 8.  Every directive alone and between   *)
(* others, numbers at the borders of a digit, the largest word, malformed  *)
(* and unfinished directives, and strings that look like formats.          *)
(***************************************************************************)
EXTENDS Kprint

Item(text, args, shows) == [text |-> text, args |-> args, shows |-> shows, number |-> FALSE]

Number(letter, v) ==
  [text |-> Directive(letter), args |-> <<WordArg(v)>>, shows |-> << >>, number |-> TRUE]

Literal == Item(<<"a">>, << >>, <<"a">>)
Escape  == Item(<<"{", "{">>, << >>, <<"{">>)
Close   == Item(<<"}">>, << >>, <<"}">>)
Unclosed == Item(<<"{", "D">>, << >>, << >>)

Texts ==
  {Literal, Escape, Close,
   Item(Directive("S"), <<Pointer(<<"{", "D", "}", "NUL">>)>>, <<"{", "D", "}">>),
   Item(Directive("V"), <<Pointer(<<"b", "c", "d">>), WordArg(2)>>, <<"b", "c">>),
   Item(Directive("V"), <<Pointer(<<"b">>), WordArg(0)>>, << >>),
   Item(Directive("C"), <<Pointer(<<"}">>)>>, <<"}">>)}

Malformed == {Item(<<"{", "}">>, << >>, << >>), Item(Directive("Q"), << >>, << >>),
              Item(<<"{", "D", "X", "}">>, << >>, << >>)}

Numbers == {Number(b, v) : b \in {"D", "X", "B"}, v \in {0, 1, 9, 10, 16, 31}}

Few == {Literal, Escape, Close, Number("X", 10), Number("B", 31), Number("D", 0)}

SomeCalls ==
  [fn : {"kprintln"}, items : {<<i>> : i \in Texts \union Malformed \union Numbers \union {Unclosed}}] \union
  [fn : {"kprint"}, items : {<<i, j>> : i \in Few, j \in Few}] \union
  [fn : {"kprintln_string"}, items : {<<i>> : i \in {Literal, Escape, Unclosed}}]

SomeTrapCalls == [fn : {"kprintln"}, items : {<<Literal, Number("X", v)>> : v \in {0, 31}}]
=============================================================================
