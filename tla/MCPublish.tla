----------------------------- MODULE MCPublish -----------------------------
(* Instances of Publish for TLC: a system configuration, groups and rules. *)
EXTENDS Publish

CONSTANTS sys, groups, rules, text, broken

ThreeTables == <<sys, groups, rules>>

\* A rule needs its group; mihomo needs a system configuration.
ValidDocs == {d \in Docs : d[rules] \subseteq d[groups]}
AcceptedTexts == {d \in Docs : d[sys] # {}} \cup {text}

\* One raw text parses to a document, the other does not parse.
ParseTexts ==
  [x \in Texts |-> IF x = text THEN [t \in Tables |-> IF t = rules THEN {} ELSE Items]
                   ELSE NoDoc]
=============================================================================
