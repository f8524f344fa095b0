--------------------------- MODULE MCCompileUnit ---------------------------
EXTENDS CompileUnit, Syntax
MCMistyped == {
    <<<<"struct definition", <<"y">>, <<<<"int">>, x>>>>, <<"variable", <<"struct", <<"y">>>>, x, None>>>>,
    <<<<"function", <<"int">>, x, <<<<<<"int">>, x>>, <<"...">>>>, None>>, Body(<<"return", <<"+", x, one>>>>)>>,
    <<Body(<<"if", x, <<"block", <<"expr", <<"=", x, one>>>>>>, <<"while", x, <<"break">>>>>>), Body(<<"expr", x>>)>>,
    <<Body(<<"for", <<"decl", <<"int">>, x, one>>, x, <<"++", x>>, <<"block", <<"unsafe", <<"block">>>>>>>>)>>,
    <<Body(<<"switch", x, <<"block", <<"case", one, <<"return", None>>>>, <<"default", <<"expr", <<"call", x, x>>>>>>>>>>)>>}
    \cup {<<Body(s), Body(<<"expr", x>>)>> : s \in Around(Around({<<"return", x>>}))}
MCSlips == {";", "(", ")", "{", "}", "x", "int", "=", "else", "struct"}
=============================================================================
