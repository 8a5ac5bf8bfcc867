------------------------------ MODULE MCPrintf ------------------------------
(* Directives and arguments for TLC.                                       *)
EXTENDS Printf

None      == [kind |-> "none", n |-> 0]
Number(n) == [kind |-> "number", n |-> n]
Star(n)   == [kind |-> "star", n |-> n]
Point     == [kind |-> "point", n |-> 0]

Directive(f, w, p, l, c) ==
  [flags |-> f, width |-> w, prec |-> p, length |-> l, conv |-> c]

FlagSeqs == {<<>>, <<"0">>, <<"-">>, <<"+">>, <<"#">>, <<"0", "+">>, <<" ">>,
             <<"#", "0">>, <<"-", "#">>, <<"-", "0">>}
Widths   == {None, Number(2), Number(3), Number(4), Number(10), Star(-4), Star(4)}
Precs    == {None, Point, Number(1), Number(3), Star(2), Star(-1)}

MCDirectives ==
  {Directive(f, w, p, <<>>, c) :
     f \in FlagSeqs, w \in Widths, p \in Precs, c \in {"d", "x", "o", "b", "s"}}
  \cup {Directive(f, w, None, l, c) :
          f \in {<<>>, <<"0">>, <<"#">>}, w \in {None, Number(3)},
          l \in {<<>>, <<"h">>, <<"h", "h">>, <<"l">>, <<"l", "l">>, <<"z">>},
          c \in {"d", "i", "u", "X", "b"}}
  \cup {Directive(f, w, None, <<>>, c) :
          f \in {<<>>, <<"-">>}, w \in {None, Number(3)}, c \in {"c", "s", "%"}}
  \cup {Directive(f, w, None, <<>>, "p") : f \in {<<>>, <<"-">>}, w \in {None, Number(3)}}
  \cup {Directive(<<"0">>, Number(3), None, l, c) : l \in {<<"h">>, <<"l", "l">>}, c \in {"y", "s"}}

MCInts  == {-32, -5, 0, 1, 9, 21, 31}
MCLongs == {-128, 0, 100}
MCTexts == {<<>>, <<"a", "b", "c">>}
=============================================================================
