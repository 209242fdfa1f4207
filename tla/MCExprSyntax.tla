---------------------------- MODULE MCExprSyntax ----------------------------
EXTENDS ExprTrees

MCOperators == {"=", "*", "+"}
MCUnary     == {"^"}
MCPrimaries == {"a", "{", "sizeof", "cast"}
=============================================================================
