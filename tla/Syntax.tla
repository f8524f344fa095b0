------------------------------- MODULE Syntax -------------------------------
(***************************************************************************)
(* The syntax of the dialect as C gives it: trees, and the tokens of the   *)
(* source text each tree is written as.  It is the reference the parser is *)
(* compared with, and says nothing of how the parser works.                *)
(*                                                                         *)
(* A tree is a tuple of a label and its subtrees.  x[i] is the tree of     *)
(* *(x+i), as C defines it.                                                *)
(***************************************************************************)
EXTENDS Integers, Sequences, SequencesExt

Identifiers == {"x", "y"}
Literals    == {"1"}

\* The binary operators by how tightly they bind, the loosest first.
Binding == <<{"||"}, {"&&"}, {"|"}, {"^"}, {"&"}, {"==", "!="}, {"<", ">", "<=", ">="},
             {"<<", ">>"}, {"+", "-"}, {"*", "/", "%"}>>
BinaryOps == UNION {Binding[k] : k \in DOMAIN Binding}
UnaryOps  == {"-", "!", "~", "*", "&", "++", "--"}

Assignment == 0
Prefix     == 11
Postfix    == 12
Primary    == 13

IsIndex(e) == e[1] = "*" /\ Len(e) = 2 /\ e[2][1] = "+" /\ Len(e[2]) = 3

RECURSIVE Strength(_)
Strength(e) ==
    CASE Len(e) = 1 -> Primary
      [] e[1] = "=" -> Assignment
      [] e[1] \in {"call", ".", "->", "post++", "post--"} -> Postfix
      [] IsIndex(e) -> IF Strength(e[2][2]) >= Postfix THEN Postfix ELSE Prefix
      [] e[1] \in BinaryOps /\ Len(e) = 3 -> CHOOSE k \in DOMAIN Binding : e[1] \in Binding[k]
      [] OTHER -> Prefix

TypeLabels == {"int", "char", "unsigned int", "pointer", "const", "array", "struct", "union",
               "enum", "_Atomic", "typeof"}

SeparatedBy(ss, separator) ==
    FlattenSeq([i \in DOMAIN ss |-> IF i = 1 THEN ss[i] ELSE <<separator>> \o ss[i]])

\* The tokens of a type, of an expression that stands where one of strength k can, and of
\* an expression.
RECURSIVE TypeTokens(_), Written(_, _), ExprTokens(_)

TypeTokens(t) ==
    CASE t[1] \in {"int", "char"}   -> t
      [] t[1] = "unsigned int"      -> <<"unsigned", "int">>
      [] t[1] = "pointer"           -> TypeTokens(t[2]) \o <<"*">>
      [] t[1] = "const"             -> <<"const">> \o TypeTokens(t[2])
      [] t[1] = "array"             -> TypeTokens(t[2]) \o <<"[">> \o ExprTokens(t[3]) \o <<"]">>
      [] t[1] \in {"struct", "union", "enum"} -> <<t[1], t[2][1]>>
      [] t[1] = "_Atomic"           -> <<"_Atomic", "(">> \o TypeTokens(t[2]) \o <<")">>
      [] t[1] = "typeof"            -> <<"typeof", "(">> \o
             (IF t[2][1] \in TypeLabels THEN TypeTokens(t[2]) ELSE ExprTokens(t[2])) \o <<")">>

Written(e, k) == IF Strength(e) < k THEN <<"(">> \o ExprTokens(e) \o <<")">> ELSE ExprTokens(e)

ExprTokens(e) ==
    CASE Len(e) = 1 -> e
      [] e[1] = "=" -> Written(e[2], Prefix) \o <<"=">> \o Written(e[3], Assignment)
      [] e[1] = "call" -> Written(e[2], Postfix) \o <<"(">> \o
             SeparatedBy([i \in 1..(Len(e) - 2) |-> ExprTokens(e[i + 2])], ",") \o <<")">>
      [] e[1] \in {".", "->"} -> Written(e[2], Postfix) \o <<e[1], e[3][1]>>
      [] e[1] = "post++" -> Written(e[2], Postfix) \o <<"++">>
      [] e[1] = "post--" -> Written(e[2], Postfix) \o <<"--">>
      [] e[1] = "cast" -> <<"(">> \o TypeTokens(e[2]) \o <<")">> \o Written(e[3], Prefix)
      [] e[1] \in {"sizeof", "alignof"} -> <<e[1], "(">> \o
             (IF e[2][1] \in TypeLabels THEN TypeTokens(e[2]) ELSE ExprTokens(e[2])) \o <<")">>
      [] IsIndex(e) /\ Strength(e) = Postfix ->
             ExprTokens(e[2][2]) \o <<"[">> \o ExprTokens(e[2][3]) \o <<"]">>
      [] Len(e) = 2 -> <<e[1]>> \o Written(e[2], Prefix)
      [] OTHER -> Written(e[2], Strength(e)) \o <<e[1]>> \o Written(e[3], Strength(e) + 1)

None == <<"none">>
OptionalTokens(e) == IF e = None THEN <<>> ELSE ExprTokens(e)

\* The tokens of a statement.
RECURSIVE StmtTokens(_)
StmtTokens(s) ==
    CASE s[1] = "block" -> <<"{">> \o FlattenSeq([i \in 1..(Len(s) - 1) |-> StmtTokens(s[i + 1])]) \o <<"}">>
      [] s[1] \in {"unsafe"} -> <<s[1]>> \o StmtTokens(s[2])
      [] s[1] \in {"while", "switch"} -> <<s[1], "(">> \o ExprTokens(s[2]) \o <<")">> \o StmtTokens(s[3])
      [] s[1] = "if" -> <<"if", "(">> \o ExprTokens(s[2]) \o <<")">> \o StmtTokens(s[3]) \o
             (IF Len(s) = 4 THEN <<"else">> \o StmtTokens(s[4]) ELSE <<>>)
      [] s[1] = "for" -> <<"for", "(">> \o (IF s[2] = None THEN <<";">> ELSE StmtTokens(s[2])) \o
             OptionalTokens(s[3]) \o <<";">> \o OptionalTokens(s[4]) \o <<")">> \o StmtTokens(s[5])
      [] s[1] = "case" -> <<"case">> \o ExprTokens(s[2]) \o <<":">> \o StmtTokens(s[3])
      [] s[1] = "default" -> <<"default", ":">> \o StmtTokens(s[2])
      [] s[1] \in {"break", "continue"} -> <<s[1], ";">>
      [] s[1] = "return" -> <<"return">> \o OptionalTokens(s[2]) \o <<";">>
      [] s[1] = "decl" ->
             (IF s[2][1] = "array"
              THEN TypeTokens(s[2][2]) \o s[3] \o <<"[">> \o ExprTokens(s[2][3]) \o <<"]">>
              ELSE TypeTokens(s[2]) \o s[3]) \o
             (IF s[4] = None THEN <<>> ELSE <<"=">> \o ExprTokens(s[4])) \o <<";">>
      [] s[1] = "expr" -> ExprTokens(s[2]) \o <<";">>

\* The tokens of a declaration of the program.
DeclTokens(d) ==
    CASE d[1] \in {"struct definition", "union definition"} ->
             <<IF d[1] = "struct definition" THEN "struct" ELSE "union", d[2][1], "{">> \o
             FlattenSeq([i \in 1..(Len(d) - 2) |-> TypeTokens(d[i + 2][1]) \o d[i + 2][2] \o <<";">>])
             \o <<"}", ";">>
      [] d[1] = "variable" -> TypeTokens(d[2]) \o d[3] \o
             (IF d[4] = None THEN <<>> ELSE <<"=">> \o ExprTokens(d[4])) \o <<";">>
      [] d[1] = "function" -> TypeTokens(d[2]) \o d[3] \o <<"(">> \o
             SeparatedBy([i \in DOMAIN d[4] |->
                 IF d[4][i] = <<"...">> THEN <<".", ".", ".">>
                 ELSE TypeTokens(d[4][i][1]) \o d[4][i][2]], ",") \o <<")">> \o
             (IF d[5] = None THEN <<";">> ELSE StmtTokens(d[5]))

ProgramTokens(program) == FlattenSeq([i \in DOMAIN program |-> DeclTokens(program[i])])

-----------------------------------------------------------------------------
(* Programs to parse. *)

x == <<"x">>
one == <<"1">>
Simple == {<<o, x, one>> : o \in BinaryOps}

PostfixTrees ==
    LET once == {x, <<"*", <<"+", x, one>>>>, <<"call", x>>, <<"call", x, one, x>>,
                 <<".", x, <<"y">>>>, <<"->", x, <<"y">>>>, <<"post++", x>>, <<"post--", x>>}
    IN  once \cup {<<"*", <<"+", p, <<"=", x, one>>>>>> : p \in once}
             \cup {<<"call", p, <<"||", x, one>>>> : p \in once}
             \cup {<<".", p, <<"y">>>> : p \in once} \cup {<<"post++", p>> : p \in once}

TypeTrees ==
    LET base == {<<"int">>, <<"char">>, <<"unsigned int">>, <<"struct", <<"y">>>>, <<"union", <<"y">>>>,
                 <<"enum", <<"y">>>>, <<"typeof", x>>, <<"typeof", <<"pointer", <<"int">>>>>>,
                 <<"_Atomic", <<"pointer", <<"char">>>>>>}
        marked == base \cup {<<"const", t>> : t \in base}
        pointers == {<<"pointer", t>> : t \in marked} \cup {<<"pointer", <<"pointer", t>>>> : t \in base}
    IN  marked \cup pointers \cup {<<"array", t, n>> : t \in marked, n \in {one, <<"+", x, one>>}}

ExprTrees ==
    {<<o, l, x>> : o \in BinaryOps, l \in Simple}
    \cup {<<o, x, r>> : o \in BinaryOps, r \in Simple \cup {<<"=", x, one>>}}
    \cup {<<u, e>> : u \in UnaryOps, e \in Simple \cup PostfixTrees \cup {<<v, x>> : v \in UnaryOps}}
    \cup {<<o, <<u, x>>, <<u, x>>>> : o \in BinaryOps, u \in UnaryOps}
    \cup {<<"=", x, e>> : e \in Simple \cup {<<"=", x, one>>}} \cup PostfixTrees
    \cup {<<"cast", t, e>> : t \in TypeTrees, e \in {x, <<"cast", <<"int">>, <<"-", x>>>>, <<"+", x, one>>}}
    \cup {<<f, t>> : f \in {"sizeof", "alignof"}, t \in TypeTrees \cup Simple}

Leaves == {<<"expr", x>>, <<"break">>, <<"continue">>, <<"return", None>>, <<"return", x>>,
           <<"decl", <<"int">>, x, None>>, <<"decl", <<"pointer", <<"int">>>>, x, <<"&", x>>>>,
           <<"decl", <<"array", <<"char">>, <<"+", x, one>>>>, x, None>>}

\* An else belongs to the nearest if: an if without one cannot stand before it.
RECURSIVE EndsOpen(_)
EndsOpen(s) ==
    \/ s[1] = "if" /\ Len(s) = 3
    \/ s[1] \in {"if", "while", "for", "switch", "case", "default", "unsafe"} /\ EndsOpen(Last(s))

Around(bodies) ==
    {<<"block">>} \cup {<<"block", s>> : s \in bodies} \cup {<<"block", s, <<"expr", x>>>> : s \in bodies}
    \cup {<<"unsafe", s>> : s \in bodies} \cup {<<"default", s>> : s \in bodies}
    \cup {<<k, x, s>> : k \in {"while", "switch", "if"}, s \in bodies} \cup {<<"case", one, s>> : s \in bodies}
    \cup {<<"if", x, s, t>> : s \in {b \in bodies : ~EndsOpen(b)}, t \in {<<"break">>, <<"if", x, <<"break">>>>}}
    \cup {<<"for", i, c, p, s>> : i \in {None, <<"decl", <<"int">>, x, one>>, <<"expr", x>>},
                                  c \in {None, x}, p \in {None, <<"++", x>>},
                                  s \in {b \in bodies : b[1] \in {"block", "expr", "if"}}}

Body(s)     == <<"function", <<"int">>, x, <<>>, <<"block", s>>>>
Params      == {<<>>, <<<<<<"int">>, x>>>>, <<<<<<"int">>, x>>, <<<<"struct", <<"y">>>>, <<"y">>>>>>,
                <<<<<<"int">>, x>>, <<"...">>>>}
DeclTrees ==
    {<<k>> \o <<<<"y">>>> \o fields :
        k \in {"struct definition", "union definition"},
        fields \in {<<>>, <<<<<<"int">>, x>>>>, <<<<<<"int">>, x>>, <<<<"struct", <<"y">>>>, <<"y">>>>>>}}
    \cup {<<"variable", t, x, e>> : t \in TypeTrees, e \in {None, one}}
    \cup {<<"function", t, x, ps, b>> : t \in {<<"int">>, <<"struct", <<"y">>>>, <<"union", <<"y">>>>},
                                        ps \in Params, b \in {None, <<"block", <<"return", x>>>>}}

Programs ==
    {<<Body(<<"expr", e>>)>> : e \in ExprTrees}
    \cup {<<Body(s)>> : s \in Leaves \cup Around(Leaves) \cup Around(Around({<<"expr", x>>}))}
    \cup {<<d, Body(<<"break">>)>> : d \in DeclTrees}
=============================================================================
