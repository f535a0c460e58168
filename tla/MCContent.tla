----------------------------- MODULE MCContent -----------------------------
(***************************************************************************)
(* Content against what its parts rely on of each other, over short        *)
(* sources, diffs of four lines and programs of four tests.  TLC evaluates *)
(* the assumptions when it starts.                                         *)
(***************************************************************************)
EXTENDS Content

-----------------------------------------------------------------------------
SourceLines ==
    [kind : {"import", "value", "def", "class", "block", "other"}, indent : {0, 4, 8}, comment : {FALSE}]
    \union [kind : {"blank"}, indent : {0}, comment : {FALSE}]
Opens(line) == line.kind \in {"def", "class", "block"}

\* Python's rule: a header is followed by a deeper line, any other by one of a level in use.
WellIndented(source) ==
    LET s == SelectSeq(source, LAMBDA l : l.kind # "blank")
    IN  /\ s # <<>> => s[1].indent = 0 /\ ~Opens(Last(s))
        /\ \A i \in 1..(Len(s) - 1) :
             IF Opens(s[i]) THEN s[i + 1].indent = s[i].indent + 4 ELSE s[i + 1].indent <= s[i].indent

Sources == {s \in UNION {[1..n -> SourceLines] : n \in 1..4} : WellIndented(s)}
HasHeader(s) == \E i \in DOMAIN s : s[i].kind \in {"def", "class"}
Within(s, i, j) == i < j /\ \A k \in (i + 1)..j : s[k].kind # "blank" => s[k].indent > s[i].indent
Plain(s) ==
    /\ \A i \in DOMAIN s : s[i].kind # "block"
    /\ \A i, j \in DOMAIN s : s[i].kind = "def" /\ Within(s, i, j) => ~Opens(s[j])

\* What a student is served has no statement of the solution, can be parsed, and is what
\* serving it again gives; the editor that still holds it is untouched.  With a header or
\* an import below an "if", a "try" or a def it may not parse, and a source without a
\* header of its own line is shown whole.
ASSUME StartersAreServed ==
    /\ \A s \in Sources : LET served == StudentSafeStarter(s) IN
         /\ HasHeader(s) => \A i \in DOMAIN served : served[i].kind \notin {"other", "block"}
         /\ Plain(s) => WellIndented(served) /\ StudentSafeStarter(served) = served
         /\ IsUntouched(served, served) /\ IsUntouched(<<>>, served)
         /\ IsUntouched(s, served) /\ HasHeader(s) => \A i \in DOMAIN s : s[i].kind # "other"
    /\ \E s \in Sources : HasHeader(s) /\ ~WellIndented(StudentSafeStarter(s))
    /\ \E s \in Sources : ~HasHeader(s) /\ StudentSafeStarter(s) = s /\ s[1].kind = "block"

-----------------------------------------------------------------------------
LineCount == 4
Op(tag, from, to) == [tag |-> tag, from |-> from, to |-> to]
Ops == {Op("insert", n, n) : n \in 0..LineCount}
         \union {op \in {Op(t, a, b) : t \in {"replace", "delete"}, a, b \in 0..LineCount} : op.from < op.to}
\* Between two changes there is a line that stays.
Diffs == {d \in UNION {[1..n -> Ops] : n \in 1..3} : \A i \in 1..(Len(d) - 1) : d[i].to < d[i + 1].from}

\* Derived regions can be marked, lie within the second hint, and are separate where the
\* fix changes or deletes lines; the validator takes them unless they are too many or wide.
ASSUME BugsCanBePointedAt ==
    \A d \in Diffs : LET r == Derive(LineCount, d) IN
        /\ r # <<>> /\ \A i \in DOMAIN r : r[i] # {} /\ r[i] \subseteq HintRange(r, LineCount)
        /\ HintRange(r, LineCount) \subseteq 1..LineCount
        /\ (\E i \in DOMAIN d : d[i].tag # "insert") => \A i, j \in DOMAIN r : i = j \/ r[i] \intersect r[j] = {}
        /\ DebugErrors([regions |-> <<>>, quotes |-> FALSE], LineCount, d) \subseteq {"wide"}
        /\ \A region \in SUBSET (1..LineCount) :
             DebugErrors([regions |-> <<region>>, quotes |-> FALSE], LineCount, d) = {} =>
                 DebugMeta([regions |-> <<region>>], LineCount, d).regions = <<region>> /\ region \intersect LinesOf(r) # {}

-----------------------------------------------------------------------------
Authored == {[load |-> l, does |-> f, dirty |-> {}, fragile |-> {}] :
               l \in {"fine", "raises"}, f \in [1..4 -> {"right", "wrong", "hangs"}]}
Test(hidden, category, description) == [hidden |-> hidden, category |-> category, description |-> description]
Solves == [load |-> "fine", does |-> [i \in 1..4 |-> "right"], dirty |-> {}, fragile |-> {}]
Fails  == [Solves EXCEPT !.does[3] = "wrong"]
FourTests(category) == <<Test(FALSE, "happy", "a"), Test(TRUE, "boundary", "b"), Test(TRUE, category, "c"), Test(TRUE, "happy", "d")>>
ContentOf(category, reference, mutant, debug) ==
    [tests |-> FourTests(category), reference |-> reference, minHidden |-> 3, debug |-> debug,
     mutants |-> [i \in 1..3 |-> [code |-> mutant, changed |-> <<{2}>>, bugLine |-> 2]]]
Replaces == <<Op("replace", 1, 2)>>
Own == [i \in 1..4 |-> [test |-> i, allowed |-> TRUE]]

\* Of a content that is accepted, its own tests are all valid and kill every mutant, no
\* mutant hangs or fails to load, and a starter to debug fails a test
\* the fixed code passes.
ASSUME AcceptedContentTeaches ==
    /\ ValidateContent(ContentOf("edge", Solves, Fails, <<>>), "implement", Solves, TRUE, LineCount, Replaces) = {}
    /\ \A mutant \in Authored : \A reference \in {Solves, Fails, mutant}, starter \in {Solves, mutant} :
           \A kind \in {"debug", "implement"}, category \in {"edge", "error"} :
           LET c == ContentOf(category, reference, mutant,
                              IF kind = "debug" THEN <<[regions |-> <<>>, quotes |-> FALSE]>> ELSE <<>>)
           IN  ValidateContent(c, kind, starter, TRUE, LineCount, Replaces) = {} =>
                   /\ category = "edge"
                   /\ Evaluate(reference, c.mutants, Own) = [valid |-> 1..4, killed |-> 1..3]
                   /\ mutant.load = "fine" /\ \A i \in 1..4 : mutant.does[i] # "hangs"
                   /\ kind = "debug" => \E i \in 1..4 : starter.load # "fine" \/ starter.does[i] # "right"

SavedTests == {s \in UNION {[1..n -> [test : 1..3, allowed : BOOLEAN]] : n \in 0..3} :
             IsInjective([i \in DOMAIN s |-> s[i].test])}
References == {[load |-> "fine", does |-> f, dirty |-> {}, fragile |-> {}] :
                 f \in [1..3 -> {"right", "wrong", "raises", "hangs"}]}

\* A test found valid alone is valid at submit, unless another one hangs the reference:
\* then none is.  More valid tests never kill fewer mutants, and what is valid kills the
\* mutants that answer otherwise.
ASSUME ChecksForetellTheSubmit ==
    /\ \A ref \in References, s \in SavedTests :
         LET hanging == \E i \in DOMAIN s : s[i].allowed /\ ref.does[s[i].test] = "hangs"
             checked == {s[i].test : i \in {j \in DOMAIN s : Check(ref, s[j]) = "valid"}}
         IN  /\ Evaluate(ref, <<>>, s).valid = IF hanging THEN {} ELSE checked
             /\ {s[i].test : i \in {j \in DOMAIN s : RunOnOwnCode(ref, s)[j]}} = IF hanging THEN {} ELSE checked
    /\ \A ref, mutant \in {r \in References : \A i \in 1..3 : r.does[i] # "raises"} :
       \A s \in {s \in SavedTests : \A i \in DOMAIN s : s[i].allowed} :
         LET e == Evaluate(ref, <<[code |-> mutant]>>, s) IN
         /\ e.killed = {1} <=> \E t \in e.valid : mutant.does[t] # "right"
         /\ Missed(e, {1}) = {1} \ e.killed

\* Nobody approves their own work, and a draft is never approved.
ASSUME ApprovalIsBySomeoneElse ==
    \A r \in [status : {"draft", "approved"}, author : {"an", "binh"}, reviewer : {"", "an", "binh"}] :
        Approved(r) => r.reviewer = (CHOOSE x \in {"an", "binh"} : x # r.author) /\ r.status = "approved"
=============================================================================
