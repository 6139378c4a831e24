----------------------------- MODULE FpConformance ----------------------------
(***************************************************************************)
(* The functional-programming budget: tools/fp-conformance/                *)
(* fp_conformance.py masks comments and strings, counts what its rules     *)
(* find, and fails when a count has grown beyond the recorded budget.      *)
(* Developers edit the sources, record a new budget, or lose it.           *)
(*                                                                         *)
(* A line of source is a sequence of tokens: the names of constructs,      *)
(* comment marks, quotes (of one kind) and braces.  The columns, the order *)
(* of the findings and the report are left out.                            *)
(***************************************************************************)
EXTENDS FpRules, SequencesExt

CONSTANTS
    Places,      \* where a source file can be: [name, lang, entry, lets, exempt]
    Lines,       \* the lines developers write
    Sources,     \* what a file holds at first
    EntryLimit,  \* ENTRY_FILE_LIMIT: lines of an entry file (250)
    ModuleLimit, \* GOD_FILE_LIMIT: lines of any other file (600)
    BodyLimit,   \* lines of a function (60)
    FileLimit,   \* the longest file that is read (20000)
    MaxEdits     \* bound: changes by developers

ASSUME LimitsAssumption ==
    /\ {EntryLimit, ModuleLimit, BodyLimit, FileLimit, MaxEdits} \subseteq Nat
    /\ EntryLimit <= ModuleLimit /\ ModuleLimit <= FileLimit

ASSUME SourcesAssumption == Lines \subseteq Seq(STRING) /\ Sources \subseteq Seq(Seq(STRING))

VARIABLES
    tree,    \* the lines of each source file, by place
    budget,  \* budget.json: Missing, Torn, or a count for each rule that has one
    failOn,  \* the option of the last scan
    exit,    \* its exit code, or None when there was a change since
    edits

vars == <<tree, budget, failOn, exit, edits>>

Missing == [state |-> "missing", counts |-> <<>>]
Torn == [state |-> "torn", counts |-> <<>>]
Budget(counts) == [state |-> "written", counts |-> counts]
None == -1

Open == "/*"
Close == "*/"
Slashes == "//"
ColonSlashes == "://"
Quote == "quote"
Fn == "fn {"
Marks == {Open, Close, Slashes, ColonSlashes, Quote, Fn, "{", "}"}

-----------------------------------------------------------------------------
(* strip_noise *)

\* A loop over a sequence, from what is there before the first element.
Loop(Step(_, _), first, seq) ==
    LET after[n \in 0..Len(seq)] == IF n = 0 THEN first ELSE Step(after[n - 1], seq[n])
    IN after[Len(seq)]

\* Mutant: a comment that is closed on a later line is still taken to be open.
RemoveBlocksForGood(block, line) ==
    LET Step(acc, token) ==
            IF acc.block THEN acc
            ELSE IF token = Open THEN [acc EXCEPT !.block = TRUE]
            ELSE [acc EXCEPT !.code = Append(@, token)]
    IN Loop(Step, [code |-> <<>>, block |-> block], line)

\* Everything between the marks of a block comment goes, strings or no strings.
BlockStep(acc, token) ==
    IF acc.block THEN [acc EXCEPT !.block = token # Close]
    ELSE IF token = Open THEN [acc EXCEPT !.block = TRUE]
    ELSE [acc EXCEPT !.code = Append(@, token)]
RemoveBlocks(block, line) == Loop(BlockStep, [code |-> <<>>, block |-> block], line)

\* Two slashes after a colon are taken for a part of an address, and stay.
RemoveLineComment(line) ==
    LET marks == {i \in DOMAIN line : line[i] = Slashes}
    IN IF marks = {} THEN line ELSE SubSeq(line, 1, Min(marks) - 1)

\* A quote without its partner on the line stays, and what follows it.
StringStep(acc, token) ==
    IF token # Quote THEN [acc EXCEPT !.rest = Append(@, token)]
    ELSE IF acc.inside THEN [acc EXCEPT !.inside = FALSE, !.rest = <<>>]
    ELSE [code |-> acc.code \o acc.rest, rest |-> <<>>, inside |-> TRUE]
Strings(line) == Loop(StringStep, [code |-> <<>>, rest |-> <<>>, inside |-> FALSE], line)
RemoveStrings(line) == Strings(line).code \o Strings(line).rest

NoiseStep(acc, line) ==
    LET cut == RemoveBlocks(acc.block, line)
    IN [masked |-> Append(acc.masked, RemoveStrings(RemoveLineComment(cut.code))), block |-> cut.block]
strip_noise(lines) == Loop(NoiseStep, [masked |-> <<>>, block |-> FALSE], lines).masked

-----------------------------------------------------------------------------
(* The rules at work *)

\* Where the file is: at an effect boundary, in a stateful domain.
Spared(rule, place) == rule.lets \cap place.lets # {}

\* The i-th scan of the rule finds something on the line.
Matches(rule, line, i) == ToSet(line) \cap rule.scans[i] # {} /\ Head(line) \notin rule.spares

\* Where the rules match in a file, once for each scan of a rule and line.
Findings(place, lines) ==
    UNION {{<<rule.code, place, at[1], at[2]>> :
                at \in {at \in (DOMAIN lines) \X (DOMAIN rule.scans) : Matches(rule, lines[at[1]], at[2])}} :
           rule \in {rule \in RULES : rule.lang = place.lang /\ ~Spared(rule, place)}}

god_file(place, lines) ==
    IF Len(lines) > (IF place.entry THEN EntryLimit ELSE ModuleLimit) THEN {<<"XX001", place, 1, 1>>} ELSE {}

Braces(line) ==
    Cardinality({i \in DOMAIN line : line[i] \in {Fn, "{"}}) - Cardinality({i \in DOMAIN line : line[i] = "}"})

\* A function is measured from its first line to the one that closes its braces;
\* one that begins inside another is not looked at.
BodyStep(acc, line) ==
    LET n == acc.line + 1
        depth == acc.depth + Braces(line)
        starts == line # <<>> /\ Head(line) = Fn
    IN IF acc.open = 0
       THEN IF starts /\ depth > 0 THEN [acc EXCEPT !.line = n, !.open = n, !.depth = depth]
            ELSE [acc EXCEPT !.line = n]
       ELSE IF depth > 0 THEN [acc EXCEPT !.line = n, !.depth = depth]
            ELSE [line |-> n, open |-> 0, depth |-> 0,
                  found |-> acc.found \cup (IF n - acc.open > BodyLimit THEN {acc.open} ELSE {})]
long_fn(place, lines) ==
    {<<"XX002", place, n, 1>> :
        n \in Loop(BodyStep, [line |-> 0, open |-> 0, depth |-> 0, found |-> {}], lines).found}

\* iter_source_files and build_context: a file that is exempt, or too long, is
\* silently left out.  (One that is named on the command line is never exempt, and
\* its place is its base name: such a place is one of Places.)
Scanned(sources) == {place \in DOMAIN sources : ~place.exempt /\ Len(sources[place]) <= FileLimit}

Masked(sources) == [place \in Scanned(sources) |-> strip_noise(sources[place])]

\* Everything the rules find in files whose comments and strings are gone.
analyse(masked) ==
    UNION {Findings(place, masked[place]) \cup god_file(place, masked[place]) \cup long_fn(place, masked[place]) :
           place \in DOMAIN masked}

\* How often each rule is broken, for those that are.
summarise(findings) ==
    [code \in {f[1] : f \in findings} |-> Cardinality({f \in findings : f[1] = code})]

Counts(sources) == summarise(analyse(Masked(sources)))

Severity(code) == IF code \in {"XX001", "XX002"} THEN "warn" ELSE (CHOOSE r \in RULES : r.code = code).severity

-----------------------------------------------------------------------------
(* main *)

Allowed(code) == IF code \in DOMAIN budget.counts THEN budget.counts[code] ELSE 0

\* Mutant: a rule that is broken less often than recorded fails too.
ExitCodeExact(counts, option) ==
    IF budget = Torn THEN 1
    ELSE IF \/ budget # Missing /\ \E code \in DOMAIN budget.counts :
                    code \notin DOMAIN counts \/ counts[code] # Allowed(code)
            \/ option # "never" /\ DOMAIN counts # {}
         THEN 1 ELSE 0

\* What a scan that counts so much returns.  Without a budget nothing is
\* compared; one that cannot be read is an exception.
ExitCode(counts, option) ==
    IF budget = Torn THEN 1
    ELSE IF \/ budget # Missing /\ \E code \in DOMAIN counts : counts[code] > Allowed(code)
            \/ option = "error" /\ \E code \in DOMAIN counts : Severity(code) = "error"
            \/ option = "warn" /\ DOMAIN counts # {}
         THEN 1 ELSE 0

Scan(option) ==
    /\ exit = None
    /\ failOn' = option /\ exit' = ExitCode(Counts(tree), option)
    /\ UNCHANGED <<tree, budget, edits>>

WriteBudget ==
    /\ budget' = Budget(Counts(tree)) /\ budget' # budget /\ exit' = None
    /\ UNCHANGED <<tree, failOn, edits>>

\* The old budget is gone when the file is opened.
KillWrite ==
    /\ budget' = Torn /\ budget' # budget /\ exit' = None
    /\ UNCHANGED <<tree, failOn, edits>>

-----------------------------------------------------------------------------
(* Developers *)

Edit ==
    /\ edits < MaxEdits /\ edits' = edits + 1
    /\ exit' = None /\ UNCHANGED failOn

InsertLine(place, i, line) ==
    /\ tree' = [tree EXCEPT ![place] = InsertAt(@, i, line)]
    /\ Edit /\ UNCHANGED budget

DeleteLine(place, i) ==
    /\ tree' = [tree EXCEPT ![place] = RemoveAt(@, i)]
    /\ Edit /\ UNCHANGED budget

MoveFile(from, to) ==
    /\ to \notin DOMAIN tree
    /\ tree' = [place \in (DOMAIN tree \ {from}) \cup {to} |->
                    IF place = to THEN tree[from] ELSE tree[place]]
    /\ Edit /\ UNCHANGED budget

LoseBudget == budget # Missing /\ budget' = Missing /\ Edit /\ UNCHANGED tree

-----------------------------------------------------------------------------

Init ==
    /\ \E place \in Places, lines \in Sources : tree = [p \in {place} |-> lines]
    /\ budget = Missing /\ failOn = "never" /\ exit = None /\ edits = 0

Develop ==
    \/ \E place \in DOMAIN tree :
        \/ \E i \in 1..(Len(tree[place]) + 1), line \in Lines : InsertLine(place, i, line)
        \/ \E i \in DOMAIN tree[place] : DeleteLine(place, i)
        \/ \E to \in Places : MoveFile(place, to)
    \/ LoseBudget

Next ==
    \/ \E option \in {"never", "error", "warn"} : Scan(option)
    \/ WriteBudget \/ KillWrite
    \/ Develop

Spec == Init /\ [][Next]_vars

-----------------------------------------------------------------------------
(* Properties *)

\* How the languages read a line: strings hide comment marks, and the other way
\* round; in Rust and in Dart a block comment may hold another one.  tame says
\* whether a line stays clear of what strip_noise does not see.
Nesting == {"rust", "dart"}

LexStep(acc, token) ==
    CASE acc.in = "code" /\ token = Open -> [acc EXCEPT !.in = "block", !.depth = 1]
      [] acc.in = "code" /\ token = Slashes -> [acc EXCEPT !.in = "line"]
      [] acc.in = "code" /\ token = ColonSlashes -> [acc EXCEPT !.in = "line", !.tame = FALSE]
      [] acc.in = "code" /\ token = Quote -> [acc EXCEPT !.in = "string"]
      [] acc.in = "code" /\ token \notin {Open, Slashes, ColonSlashes, Quote} ->
            [acc EXCEPT !.code = Append(@, token)]
      [] acc.in = "block" /\ token = Open /\ acc.nests -> [acc EXCEPT !.depth = @ + 1, !.tame = FALSE]
      [] acc.in = "block" /\ token = Close /\ acc.depth > 1 -> [acc EXCEPT !.depth = @ - 1]
      [] acc.in = "block" /\ token = Close /\ acc.depth <= 1 -> [acc EXCEPT !.in = "code", !.depth = 0]
      [] acc.in = "string" /\ token = Quote -> [acc EXCEPT !.in = "code"]
      [] acc.in = "string" /\ token \in {Open, Slashes} -> [acc EXCEPT !.tame = FALSE]
      [] acc.in = "line" /\ token = Open -> [acc EXCEPT !.tame = FALSE]
      [] OTHER -> acc

\* A line that begins in so many comments.
Lexed(nests, depth, line) ==
    LET read == Loop(LexStep, [nests |-> nests, in |-> IF depth > 0 THEN "block" ELSE "code",
                               depth |-> depth, code |-> <<>>, tame |-> TRUE], line)
    IN [read EXCEPT !.tame = @ /\ read.in # "string"]

ReadStep(acc, line) ==
    LET read == Lexed(acc.nests, acc.depth, line)
    IN [acc EXCEPT !.code = Append(@, read.code), !.depth = read.depth, !.tame = @ /\ read.tame]
Read(lang, lines) ==
    Loop(ReadStep, [nests |-> lang \in Nesting, depth |-> 0, code |-> <<>>, tame |-> TRUE], lines)

CodeOf(place) == Read(place.lang, tree[place]).code
Tame == \A place \in DOMAIN tree : Read(place.lang, tree[place]).tame

\* A scan passes exactly when the code itself, read the way its language does, is
\* within the budget that was recorded, in sources that keep comment marks and
\* quotes apart, have no string of several lines, and no comment inside another.
\* A budget whose writing was cut short never passes anything.
WithinBudget ==
    LET counts == summarise(analyse([place \in Scanned(tree) |-> CodeOf(place)]))
    IN \A code \in DOMAIN counts :
        /\ budget = Missing \/ counts[code] <= Allowed(code)
        /\ failOn = "never" \/ (failOn = "error" /\ Severity(code) = "warn")

ScanIsRight ==
    exit # None =>
        /\ Tame /\ budget # Torn => (exit = 0 <=> WithinBudget)
        /\ budget = Torn => exit # 0

\* Taking a line of code out never turns a scan that passes into one that fails:
\* what is left was found before.  A file that is too long to be read is another
\* matter: everything in it is found when it gets short enough.
PlainLine(line) == ToSet(line) \cap Marks = {}
FixesNeverBlock ==
    exit = 0 => \A place \in Scanned(tree) : \A i \in DOMAIN tree[place] :
        PlainLine(tree[place][i]) =>
            ExitCode(Counts([tree EXCEPT ![place] = RemoveAt(@, i)]), failOn) = 0
===============================================================================
