------------------------------ MODULE MCPreproc ------------------------------
(* Sources for the preprocessor: every sequence of items over an alphabet, up *)
(* to a length, followed by a token and a semicolon.                          *)
EXTENDS MCPreprocItems

CondSources == SourcesOver(CondItems, 4)
                 \cup {[items |-> s \o Closing] : s \in [1..6 -> NestItems]}

\* No closing bracket without its opening one.
Level0(s) == \A n \in DOMAIN s : \A p \in {<<"{", "}">>, <<"(", ")">>} :
               Cardinality({i \in 1..n : s[i] = Op(p[2])}) <= Cardinality({i \in 1..n : s[i] = Op(p[1])})
StreamSources == {[items |-> s \o Closing] : s \in {r \in Upto(StreamItems, 3) : Level0(r)}}
                   \cup EndSources

AllSources == CondSources \cup StreamSources

MCSources == AllSources
=============================================================================
