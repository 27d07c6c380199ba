------------------------------- MODULE Topics -------------------------------
(***************************************************************************)
(* Topic names and topic filters as sequences of levels, and the matching  *)
(* relation MQTT defines between them: the reference the broker's two      *)
(* trees are compared with.  Parsing and the level type come from the      *)
(* external crate ntex_mqtt; a level is a member of a small set here.      *)
(***************************************************************************)
EXTENDS Integers, SequencesExt

CONSTANTS
    Names,      \* ordinary levels, the blank one among them
    Metadata,   \* levels that start with $
    Depth       \* number of levels of the longest topic

SingleWildcard == "+"
MultiWildcard == "#"
Wildcards == {SingleWildcard, MultiWildcard}

ASSUME TopicsAssumption ==
    /\ Depth \in Nat \ {0}
    /\ (Names \cup Metadata) \cap Wildcards = {}

Paths(levels) == UNION {[1 .. n -> levels] : n \in 1 .. Depth}

TopicNames == Paths(Names \cup Metadata)

\* "#" is the last level or no level
TopicFilters ==
    {f \in Paths(Names \cup Metadata \cup Wildcards) :
        \A i \in DOMAIN f : f[i] = MultiWildcard => i = Len(f)}

(***************************************************************************)
(* The rules of the MQTT specification: "+" stands for one level, a final  *)
(* "#" for any number of levels, none included, and a filter that starts   *)
(* with a wildcard matches no topic that starts with $.                    *)
(***************************************************************************)
FilterMatches(f, t) ==
    /\ IF f[Len(f)] = MultiWildcard THEN Len(t) >= Len(f) - 1
                                    ELSE Len(t) = Len(f)
    /\ \A i \in DOMAIN f \cap DOMAIN t : f[i] \in Wildcards \cup {t[i]}
    /\ t[1] \in Metadata => f[1] \notin Wildcards

\* The branches of a node, in a tree given by the paths of its nodes
Children(t, p) == {q \in DOMAIN t : Len(q) = Len(p) + 1 /\ SubSeq(q, 1, Len(p)) = p}
=============================================================================
