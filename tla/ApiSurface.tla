------------------------------ MODULE ApiSurface ------------------------------
(***************************************************************************)
(* clients/api-surface.json as the contract scripts read it: the symbols of*)
(* the public API, which of them name which others, and what the hardener  *)
(* (harden_client_contract.py) and the boundary test                       *)
(* (client_contract_boundary.py) demand of them.                           *)
(*                                                                         *)
(* Every part of a symbol that names types is a member: a field, a method, *)
(* a constructor, the definition of a type, the signature of a function.   *)
(***************************************************************************)
EXTENDS Integers, FiniteSets

CONSTANT Additions  \* the symbols developers may add, by key

-----------------------------------------------------------------------------
(* Symbols *)

Member(role, visibility, refs, async) ==
    [role |-> role, visibility |-> visibility, refs |-> refs, async |-> async, behavior |-> "unset"]

Visibilities == {"public", "private"}
Members == [role : STRING, visibility : Visibilities, refs : SUBSET STRING, async : BOOLEAN, behavior : STRING]

\* documentation is the symbol's identifier in the documentation, which is its name
\* unless somebody wrote another one (the identifiers of members begin with it);
\* deprecation says whether a deprecated symbol says since when; valid whether
\* the symbol satisfies client-api.schema.json.
Symbol(name, kind, visibility, members) ==
    [name |-> name, kind |-> kind, visibility |-> visibility, members |-> members,
     documentation |-> "unset", stability |-> "unset", deprecation |-> FALSE, valid |-> TRUE]

Symbols == [name : STRING, kind : STRING, visibility : Visibilities, members : SUBSET Members,
            documentation : STRING, stability : STRING, deprecation : BOOLEAN, valid : BOOLEAN]

ASSUME AdditionsAssumption == \A key \in DOMAIN Additions : Additions[key] \in Symbols

Callables == {"method", "constructor", "signature"}

\* The standard symbols: each kind once public and once private.
baseline_symbols ==
    [Options |-> Symbol("Options", "type", "public", {Member("field", "public", {}, FALSE)}),
     RequestContext |-> Symbol("RequestContext", "type", "private", {Member("field", "private", {}, FALSE)}),
     Transport |-> Symbol("Transport", "interface", "public", {Member("method", "public", {"Error"}, TRUE)}),
     TelemetrySink |-> Symbol("TelemetrySink", "interface", "private", {Member("method", "private", {}, FALSE)}),
     Error |-> Symbol("Error", "type", "public", {Member("definition", "public", {}, FALSE)}),
     Client |-> Symbol("Client", "class", "public",
        {Member("field", "private", {"Options"}, FALSE),
         Member("constructor", "public", {"Options", "Client", "Error"}, FALSE),
         Member("method", "public", {"Error"}, TRUE),
         Member("method", "private", {"RequestContext", "Error"}, TRUE)}),
     RequestBuilder |-> Symbol("RequestBuilder", "class", "private",
        {Member("constructor", "private", {"RequestBuilder"}, FALSE), Member("method", "private", {}, FALSE)}),
     createClient |-> Symbol("createClient", "function", "public",
        {Member("signature", "public", {"Options", "Client", "Error"}, FALSE)}),
     normalizeBaseUrl |-> Symbol("normalizeBaseUrl", "function", "private",
        {Member("signature", "private", {"Error"}, FALSE)})]

Standard == DOMAIN baseline_symbols
Known == Standard \cup DOMAIN Additions
Written(key) == IF key \in Standard THEN baseline_symbols[key] ELSE Additions[key]

\* enrich_contract_metadata: what is unset becomes the default, nothing else changes.
Enriched(symbol) ==
    [symbol EXCEPT
        !.documentation = IF @ = "unset" THEN symbol.name ELSE @,
        !.stability = IF @ = "unset" THEN "stable" ELSE @,
        !.members = {IF m.role \in Callables /\ m.behavior = "unset"
                     THEN [m EXCEPT !.behavior = IF m.async THEN "async" ELSE "sync"]
                     ELSE m : m \in @}]

-----------------------------------------------------------------------------
(* Documents *)

\* A surface lists keys of known symbols; those in plain are not enriched yet.
\* interfaces is the version of the schema dependency it was generated from.
Surface(symbols, plain, interfaces) ==
    [symbols |-> symbols, plain |-> plain, interfaces |-> interfaces]

\* The version of the interface dependency, if there is one and it has one.
Versions == {"none", "unversioned", "1", "2"}
Surfaces == [symbols : SUBSET Known, plain : SUBSET Known, interfaces : Versions \cup {"torn"}]

SymbolsOf(surface) ==
    {IF key \in surface.plain THEN Written(key) ELSE Enriched(Written(key)) : key \in surface.symbols}

Names(symbols) == {s.name : s \in symbols}

merge_standard_symbols(surface) ==
    LET missing == {key \in Standard : baseline_symbols[key].name \notin Names(SymbolsOf(surface))}
    IN [surface EXCEPT !.symbols = @ \cup missing, !.plain = @ \cup missing]

baseline_surface(interfaces) == Surface(Standard, Standard, interfaces)

enrich_contract_metadata(surface) == [surface EXCEPT !.plain = {}]

\* What the hardener refuses to write, and reports when it is found.
semantic_errors(surface) ==
    LET symbols == SymbolsOf(surface)
        methods == {m \in UNION {s.members : s \in symbols} : m.role = "method"}
        callables == {m \in UNION {s.members : s \in symbols} : m.role \in Callables}
    IN  {<<"duplicate", s.name>> : s \in {s \in symbols : \E t \in symbols \ {s} : t.name = s.name}}
        \cup {<<"unresolved", s.name>> : s \in
                {s \in symbols : \E m \in s.members : ~(m.refs \subseteq Names(symbols))}}
        \cup {<<"missing", want[1]>> : want \in
                {w \in {"class", "interface", "type", "function"} \X {"public", "private"} :
                    \A s \in symbols : s.kind # w[1] \/ s.visibility # w[2]}}
        \cup {<<"missing", "method">> : v \in
                {v \in {"public", "private"} : \A m \in methods : m.visibility # v}}
        \cup {<<"behavior", m.behavior>> : m \in
                {m \in callables : \/ m.behavior = "sync" /\ m.async
                                   \/ m.behavior \in {"async", "streaming"} /\ ~m.async}}
        \cup {<<"documentation", s.documentation>> : s \in
                {s \in symbols : /\ s.documentation # "unset"
                                 /\ \E t \in symbols \ {s} : t.documentation = s.documentation}}
        \cup {<<"deprecation", s.name>> : s \in
                {s \in symbols : s.stability = "deprecated" /\ ~s.deprecation}}

SchemaErrors(surface) == {s.name : s \in {s \in SymbolsOf(surface) : ~s.valid}}

-----------------------------------------------------------------------------
(* The boundary between public and private symbols *)

named_refs(members) == UNION {m.refs : m \in members}

\* Mutant: only definitions are looked at.
public_fragmentsSkippingMembers(symbol) ==
    IF symbol.visibility # "public" THEN {} ELSE {m \in symbol.members : m.role = "definition"}

public_fragments(symbol) ==
    IF symbol.visibility # "public" THEN {} ELSE {m \in symbol.members : m.visibility = "public"}

private_symbol_names(symbols) == Names({s \in symbols : s.visibility = "private"})

boundary_errors(symbols) ==
    IF symbols = {} THEN {"contract has no symbols"}
    ELSE {s.name : s \in {s \in symbols :
            named_refs(public_fragments(s)) \cap private_symbol_names(symbols) # {}}}

private_leak_canary(symbols) ==
    symbols \cup {Symbol("privateCanary", "opaque", "private", {}),
                  Symbol("publicCanary", "function", "public",
                         {Member("signature", "public", {"privateCanary"}, FALSE)})}

CORE_CLIENT_ALIASES ==
    [dart |-> {"dart"}, rust |-> {"rust"}, typescript |-> {"typescript", "ts", "nodejs"}]

missing_core_targets(names) == {core \in DOMAIN CORE_CLIENT_ALIASES : CORE_CLIENT_ALIASES[core] \cap names = {}}
=============================================================================
