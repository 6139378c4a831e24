---------------------------- MODULE MCFpConformance ---------------------------
(* Instances of FpConformance: five places, and lines with every kind of token. *)
EXTENDS FpConformance

Place(name, lang, entry, lets, exempt) ==
    [name |-> name, lang |-> lang, entry |-> entry, lets |-> lets, exempt |-> exempt]

MCPlaces ==
    {Place("index.ts", "ts", TRUE, {}, FALSE), Place("adapters/log.ts", "ts", FALSE, {"boundary"}, FALSE),
     Place("cache.rs", "rust", FALSE, {"stateful"}, FALSE), Place("client.dart", "dart", FALSE, {}, FALSE),
     Place("tests/client.dart", "dart", FALSE, {}, TRUE)}

MCLines ==
    {<<"throw">>, <<"top let", "let">>, <<"push", "delete">>, <<"console", "unwrap">>,
     <<Quote, "throw", Quote, "static mut">>, <<Slashes, "throw">>, <<Open, "throw">>,
     <<"top var", "let">>, <<Quote, ColonSlashes, Quote, "throw">>,
     <<"throw", Close, "var">>, <<Quote, Open, Quote>>, <<Fn>>, <<"}">>}

MCSources == {<<>>, <<<<Open, "throw">>>>, <<<<Fn>>, <<"throw">>, <<"}">>>>}
===============================================================================
