-------------------------------- MODULE FpRules -------------------------------
(***************************************************************************)
(* The rules of tools/fp-conformance/fp_conformance.py: what each one looks*)
(* for, in which language, how severe it is, and in which files it is soft.*)
(* A pattern is the name of the construct it matches.                      *)
(***************************************************************************)
EXTENDS Integers, Sequences

\* scans are the patterns a rule looks for, one after the other; on one line each
\* of them counts once.  spares are constructs that excuse a line they begin.
\* Files at an effect boundary, or of a stateful domain, may be let off.
Rule(code, lang, severity, scans, spares, lets) ==
    [code |-> code, lang |-> lang, severity |-> severity, scans |-> scans, spares |-> spares, lets |-> lets]

Plain(code, lang, severity, patterns) == Rule(code, lang, severity, <<patterns>>, {}, {})
Carved(code, lang, severity, patterns, lets) == Rule(code, lang, severity, <<patterns>>, {}, lets)

RustRules ==
    {Carved("RS001", "rust", "warn", {"let mut"}, {"stateful"}),
     Rule("RS002", "rust", "error", <<{"static mut"}, {"global lock"}>>, {}, {"boundary"}),
     Plain("RS003", "rust", "error", {"unwrap", "panic"}),
     Plain("RS004", "rust", "warn", {"wildcard arm"}),
     Plain("RS005", "rust", "warn", {"erased error"}),
     Carved("RS006", "rust", "warn", {"cell"}, {"stateful", "boundary"}),
     Carved("RS007", "rust", "warn", {"print"}, {"boundary"}),
     Carved("RS008", "rust", "warn", {"unit method"}, {"stateful"}),
     Plain("RS009", "rust", "error", {"unsafe"})}

\* A binding at the start of a line is at the top of its module: TS002 leaves such
\* a line to TS003.
TypeScriptRules ==
    {Plain("TS001", "ts", "error", {"var", "top var"}),
     Rule("TS002", "ts", "warn", <<{"let", "top let"}>>, {"top let", "top var"}, {"stateful"}),
     Carved("TS003", "ts", "error", {"top let", "top var"}, {"boundary"}),
     Rule("TS004", "ts", "warn", <<{"push"}, {"delete"}>>, {}, {}),
     Plain("TS005", "ts", "warn", {"any"}),
     Plain("TS006", "ts", "warn", {"throw"}),
     Plain("TS007", "ts", "error", {"react"}),
     Carved("TS008", "ts", "warn", {"console"}, {"boundary"}),
     Carved("TS009", "ts", "warn", {"clock"}, {"boundary"}),
     Plain("TS010", "ts", "warn", {"bang"})}

DartRules ==
    {Carved("DA001", "dart", "warn", {"var", "top var"}, {"stateful"}),
     Carved("DA002", "dart", "error", {"top var"}, {"boundary"}),
     Carved("DA003", "dart", "warn", {"field"}, {"stateful"}),
     Plain("DA004", "dart", "warn", {"late"}),
     Plain("DA005", "dart", "warn", {"throw"}),
     Carved("DA006", "dart", "warn", {"print"}, {"boundary"}),
     Plain("DA007", "dart", "warn", {"bang"}),
     Carved("DA008", "dart", "warn", {"push"}, {"stateful"}),
     Plain("DA009", "dart", "warn", {"default arm"})}

RULES == RustRules \cup TypeScriptRules \cup DartRules
===============================================================================
