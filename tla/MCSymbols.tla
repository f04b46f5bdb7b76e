------------------------------ MODULE MCSymbols ------------------------------
EXTENDS Symbols
MCDeclarations ==
  {<<"x", "INT", <<>>>>, <<"y", "INT", <<>>>>, <<"x", "S", <<>>>>,
   <<"x", "INT", <<2>>>>, <<"y", "S", <<2>>>>, <<"y", "INT", <<3>>>>}
MCWilds == {NoSymbol}
=============================================================================
