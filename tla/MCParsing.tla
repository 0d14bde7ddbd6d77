------------------------------ MODULE MCParsing -------------------------------
(* Instances of Parsing for TLC.                                            *)
EXTENDS Parsing

Line(i, k, v) == [idx |-> i, key |-> k, val |-> v]
Lines ==
    {Line(0, "none", "")}
    \cup {Line(i, "name", "vd") : i \in {-1, 0, 1, 3}}
    \cup {Line(i, "allocation", v) : i \in {0, 3}, v \in {"5", "bad"}}
    \cup {Line(1, "physical", "7"), Line(2, "rd.reqs", "5")}

Field(t, v) == [type |-> t, text |-> v]
Fields ==
    {Field("absent", ""), Field("string", ""), Field("string", "5"),
     Field("string", "12x"), Field("number", "7"), Field("other", "")}
\* a line lvm writes to stderr is no JSON
Rows ==
    [json : {TRUE}, name : {"g1"}, size : Fields, free : Fields]
    \cup [json : {FALSE}, name : {""}, size : {Field("absent", "")},
          free : {Field("absent", "")}]

MCSymbols ==
    [size |-> {"1", "9", ".", "K", "M", "G", "T", "i", "b", " ", "x"},
     list |-> {"a", ",", " "},
     domstats |-> Lines,
     report |-> Rows]
MCBound == [size |-> 5, list |-> 8, domstats |-> 4, report |-> 2]
=============================================================================
