----------------------------- MODULE MCFrontEnd -----------------------------
(* Values of the constants for checking FrontEnd: a main file and two others, *)
(* the first of which has two names.                                          *)
EXTENDS FrontEnd

CONSTANTS MainT, FileA, DotA, FileB, Gone, fm, fa, fb, x, y

AllNames == {MainT, FileA, DotA, FileB, Gone}
AllFiles == {fm, fa, fb}
NameFile == [n \in AllNames |-> CASE n = MainT -> fm
                                  [] n \in {FileA, DotA} -> fa
                                  [] n \in {FileB, Gone} -> fb]
AbsentNames == {Gone}

Inc(n)     == [op |-> "include", name |-> n, ends |-> "terminal", open |-> 0]
Decl(s, u) == [op |-> "decl", sym |-> s, uses |-> u, ends |-> "terminal", open |-> 0]
Expr(u)    == [op |-> "not_toplevel", uses |-> u, ends |-> "terminal", open |-> 0]
Malformed  == [op |-> "malformed"]
End(item, ends) == [item EXCEPT !.ends = ends]
\* `f(' at the end of a file.
Call(u) == [End(Expr(u), "cut") EXCEPT !.open = 1]

UpTo(S, n) == UNION {[1..k -> S] : k \in 0..n}

Files3(m, a, b) == [f \in AllFiles |-> CASE f = fm -> m [] f = fa -> a [] OTHER -> b]
AnyOf(M, A, B) == {Files3(m, a, b) : m \in M, a \in A, b \in B}

\* Includes in every direction, declarations before and behind their uses, and
\* constructs that are broken off, leave a parenthesis open or close one.
InMain == {Inc(MainT), Inc(FileA), Inc(DotA), Inc(FileB), End(Inc(FileB), "missing"),
           Decl(x, {}), End(Decl(y, {x}), "body"), Call({x})}
InA    == {Inc(MainT), Inc(FileA), Inc(FileB), Decl(x, {y}), Decl(y, {x}),
           End(Decl(x, {}), "none_needed"), End(Decl(x, {}), "rparen"), Malformed}
InB    == {Inc(FileA), Inc(Gone), Decl(x, {}), Decl(y, {}), Decl(y, {x}),
           End(Decl(y, {}), "missing"), End(Decl(y, {}), "newline"),
           Expr({}), End(Expr({}), "cut")}
AnySources == AnyOf(UpTo(InMain, 2), UpTo(InA, 2), UpTo(InB, 1))
Readable        == {{}}
MaybeUnreadable == {{}, {fb}}

\* Programs in which nothing is wrong but that files may be unreadable.
Sound == {Inc(FileA), Inc(FileB), Decl(x, {y}), Decl(y, {})}
SoundSources  == AnyOf(UpTo(Sound, 2), UpTo(Sound, 2), UpTo(Sound, 1))
AnyUnreadable == SUBSET AllFiles

\* Programs in which nothing is wrong but that a file may be broken off.
Ended == Sound \cup {End(Decl(x, {y}), "missing"), Call({x}), End(Expr({}), "cut")}
EndedSources == AnyOf(UpTo(Ended, 2), UpTo(Sound, 1), UpTo(Sound, 1))
=============================================================================
