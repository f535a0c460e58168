------------------------------ MODULE MCGuard ------------------------------
(***************************************************************************)
(* Guard against what its docstrings promise, over short lines, blocks and *)
(* conversations, and where each promise ends.  TLC evaluates the          *)
(* assumptions when it starts.                                             *)
(***************************************************************************)
EXTENDS Guard, MCSandbox

Reply(blocks, inline, quotes, numbers) ==
    [blocks |-> blocks, inline |-> inline, quotes |-> quotes, numbers |-> numbers]
LineOf(kind, indent, words) == [kind |-> kind, indent |-> indent, words |-> words]
Name(t) == [is |-> "name", text |-> t]
Sign(t) == [is |-> "sign", text |-> t]

\* seen [ n ] = k . name, in the names of the reference or in others.
Assigns(x, y, z) == <<Name(x), Sign("["), Name(y), Sign("]"), Sign("="), Name(z), Sign("."), Name("key")>>
Compares(x, y)   == <<Sign("if"), Name(x), Sign("+"), Name(y), Sign("=="), Sign("0")>>
Solution == {LineOf("header", 0, Compares("a", "b")), LineOf("plain", 1, Assigns("a", "b", "c")),
             LineOf("plain", 1, Compares("a", "b")), LineOf("plain", 1, <<Sign("return"), Name("a")>>)}
Starters == {{}, {LineOf("plain", 1, Compares("a", "b"))}}

\* Whole lines, renamed lines, and pieces of a line of a given length.
Pieces == UNION {{SubSeq(w, i, j) : i \in 1..3, j \in {4, 6, Len(w)}} : w \in {Assigns("p", "q", "r"), Compares("p", "q")}}
Said == {Reply(<<>>, <<LineOf("plain", 0, w)>>, {}, {}) : w \in Pieces}
            \union {Reply(<<>>, <<>>, {}, {})}

\* A copy in other names is the same code, an attribute of another name is not.
ASSUME RenamingHidesNothing ==
    /\ \A x, y, z \in {"a", "p"} : Tokens(Assigns(x, y, z)) = Tokens(Assigns("a", "b", "c"))
    /\ Tokens(<<Name("x"), Sign("."), Name("left")>>) # Tokens(<<Name("x"), Sign("."), Name("right")>>)
    /\ \A s \in Starters : LeaksSolution(Solution, s, {}, Reply(<<<<LineOf("plain", 4, Assigns("p", "q", "r"))>>>>, <<>>, {}, {}))

\* What the replies of an attempt show together, each with code looked at after those
\* before it, stays below half of the solution, whatever pieces it is given in.
ASSUME PiecesNeverAddUp ==
    \A starter \in Starters : \A r1, r2, r3 \in Said :
        LET Shows(shown, r) == IF LeaksSolution(Solution, starter, shown, r) THEN shown ELSE shown \union {r}
        IN  ~Covers(Solution, starter, UNION {Snippets(r) : r \in FoldLeft(Shows, {}, <<r1, r2, r3>>)})

\* Two replies looked at side by side may cross it together; fragments of fewer than
\* five tokens are never counted, nor is a solution none of whose lines is long enough.
ASSUME WherePiecesAddUp ==
    /\ \E r1, r2 \in Said : /\ ~LeaksSolution(Solution, {}, {}, r1) /\ ~LeaksSolution(Solution, {}, {}, r2)
                            /\ Covers(Solution, {}, Snippets(r1) \union Snippets(r2))
    /\ LET short == {r \in Said : \A l \in Snippets(r) : Len(l.words) < N}
       IN  short # {} /\ ~LeaksSolution(Solution, {}, short, CHOOSE r \in short : TRUE)
    /\ \A r \in Said : ~LeaksSolution({l \in Solution : Len(l.words) < N}, {}, Said, r)

LineKinds == {"header", "import", "comment", "blank", "plain"}
Written == {LineOf(k, n, <<>>) : k \in LineKinds, n \in 0..2}
Blocks(n) == [1..n -> Written]
Holds(blocks) == ImplementsFunction(Reply(blocks, <<>>, {}, {}))

\* No line before or after a function hides it, nor does a comment, a blank line or
\* a deeper statement inside it; a definition needs two statements of its own.
ASSUME FunctionsAreSeen ==
    /\ \A b \in Blocks(3), l \in Written :
         /\ Holds(<<b>>) => Holds(<<<<l>> \o b>>) /\ Holds(<<b \o <<l>> >>)
         /\ ~Statement(l) => \A i \in 1..4 : Holds(<<InsertAt(b, i, l)>>) = Holds(<<b>>)
         /\ Holds(<<b>>) => Cardinality({i \in 1..3 : Statement(b[i])}) > MIN_BODY_LINES
    \* Spread over two blocks it is not seen.
    /\ \E b \in Blocks(3) : Holds(<<b>>) /\ ~Holds(<<SubSeq(b, 1, 2), SubSeq(b, 3, 3)>>)

Starter == <<"def", "loop", "", "loop">>
Regions == {{{2}}, {{3}}, {{1}, {3, 4}}, {{9}}}

\* The bug's line is found by its text, also where another line reads the same, and by
\* any range over it, written either way round.  A third number is not read.
ASSUME PlacesAreSeen ==
    /\ \A g \in Regions : \A a, b \in 1..5 :
         LET Reveals(numbers) == RevealsBug(Reply(<<>>, <<>>, {}, {numbers}), Starter, g)
         IN  /\ Reveals(<<a, b>>) <=> Reveals(<<b, a>>)
             /\ Reveals(<<a>>) \/ Reveals(<<b>>) => Reveals(<<a, b>>)
             /\ \A c \in 1..5 : Reveals(<<a, b, c>>) = Reveals(<<a, b>>)
    /\ RevealsBug(Reply(<<>>, <<>>, {"loop"}, {}), Starter, {{4}})
    /\ ~RevealsBug(Reply(<<>>, <<>>, {"", "def", "loop"}, {}), Starter, {{3}})

\* Code is withheld for passing every visible test and for nothing less; an exercise
\* without visible tests, and a sandbox that is down, let it through.
ASSUME OnlySolutionsSolve ==
    \A p \in Programs : LET r == Reply(<<<<>>>>, <<>>, {}, {}) IN
        /\ SolvesExercise(r, p, Visible, TRUE) <=>
             p.load = "fine" /\ \A t \in ToSet(Visible) : p.does[t] = "right"
        /\ ~SolvesExercise(r, p, <<>>, TRUE) /\ ~SolvesExercise(r, p, Visible, FALSE)
=============================================================================
