------------------------- MODULE MCStatementSyntax -------------------------
EXTENDS StatementSyntax

MCSimple == <<"decl", "expr", "init", "ret", "defer", "void", "defer_if", "brk">>
MCHeads  == {"if", "if decl", "else", "while", "do", "block", "for", "for ever", "range",
             "switch", "1", "2", "default"}
=============================================================================
