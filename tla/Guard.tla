------------------------------- MODULE Guard -------------------------------
(***************************************************************************)
(* What a drafted reply of Ciel is looked at for before it is shown        *)
(* (features/mentor/guard.py and overlap.py): a whole function, a large    *)
(* part of the reference solution, code that passes the visible tests, and *)
(* the place of a bug not found yet.  MentorReply has the caps on lines    *)
(* and what follows from a verdict.                                        *)
(*                                                                         *)
(* A reply is what the patterns of those files find in it: [blocks, inline, *)
(* quotes, numbers]: its closed fenced blocks, sequences of lines; its     *)
(* inline spans, lines too; the lines of the starter it repeats; and the   *)
(* numbers after each word "line".  A line is [kind, indent, words].       *)
(***************************************************************************)
EXTENDS Sandbox

N == 5
MIN_BODY_LINES == 2

-----------------------------------------------------------------------------
(* Pieces of the solution (overlap.py)                                     *)

\* A name is any name, unless it is an attribute; keywords and builtins stay.
Tokens(words) ==
    [i \in DOMAIN words |->
        CASE words[i].is = "string" -> "STR"
          [] words[i].is = "name" /\ (i = 1 \/ words[i - 1].text # ".") -> "ID"
          [] OTHER -> words[i].text]

Grams(tokens) ==
    IF Len(tokens) <= N THEN {tokens} \ {<<>>}
    ELSE {SubSeq(tokens, i, i + N - 1) : i \in 1..(Len(tokens) - N + 1)}

CodeGrams(lines) == UNION {Grams(Tokens(l.words)) : l \in lines}

\* What is the solution's own: neither headers and short lines nor what the starter has.
CoreGrams(reference, starter) ==
    CodeGrams({l \in reference : l.kind \notin {"header", "import", "comment", "blank"} /\ Len(l.words) > 4})
        \ CodeGrams(starter)

Snippets(reply) == UNION {ToSet(b) : b \in ToSet(reply.blocks)} \union ToSet(reply.inline)

\* Half of the core or more (OVERLAP_THRESHOLD); a solution without a core is never covered.
Covers(reference, starter, lines) ==
    LET core == CoreGrams(reference, starter)
    IN  core # {} /\ 2 * Cardinality(core \intersect CodeGrams(lines)) >= Cardinality(core)

LeaksSolution(reference, starter, earlier, reply) ==
    /\ reference # {} /\ Snippets(reply) # {}
    /\ Covers(reference, starter, UNION {Snippets(r) : r \in earlier \union {reply}})

-----------------------------------------------------------------------------
(* The draft alone (guard.py)                                              *)

Definition(line) == line.kind \in {"header", "async"}
Statement(line)  == line.kind \notin {"comment", "blank"}

\* The body of a definition: the statements below it, up to one that is not deeper.
Body(block, i) ==
    {k \in (i + 1)..Len(block) :
        /\ Statement(block[k])
        /\ \A j \in (i + 1)..k : Statement(block[j]) => block[j].indent > block[i].indent}

ImplementsFunction(reply) ==
    \E b \in ToSet(reply.blocks) : \E i \in DOMAIN b :
        Definition(b[i]) /\ Cardinality(Body(b, i)) >= MIN_BODY_LINES

\* The blocks together are run as one program; without the sandbox the reply is shown.
SolvesExercise(reply, program, visible, sandboxUp) ==
    /\ reply.blocks # <<>> /\ visible # <<>> /\ sandboxUp
    /\ RunTests(program, visible).passed = Len(visible)

\* One number, or the first two of several, which are read as the ends of a range.
RangeOf(numbers) ==
    LET last == numbers[IF Len(numbers) > 1 THEN 2 ELSE 1]
    IN  (numbers[1]..last) \union (last..numbers[1])

\* starter: its lines, "" for one too short to count as quoted.
RevealsBug(reply, starter, regions) ==
    LET lines == UNION regions
    IN  \/ \E n \in lines \intersect DOMAIN starter : starter[n] # "" /\ starter[n] \in reply.quotes
        \/ \E numbers \in reply.numbers : RangeOf(numbers) \intersect lines # {}
=============================================================================
