---------------------------- MODULE MCTokenConfig ----------------------------
(* Checks parseTokenLimits over every RATE_LIMIT_TOKENS value built from   *)
(* one or two entries: a token name, zero to three ":"-fields drawn from   *)
(* integers and non-integers, and optional blanks around the entry.  The   *)
(* reference reads the limits off the entries' structure.                  *)
EXTENDS TokenConfig
LOCAL INSTANCE SequencesExt

Names == {<<"a">>, <<"b">>}
IntFields == (<<"1">> :> 1) @@ (<<"-", "1">> :> -1) @@ (<<"+", "1">> :> 1)
                @@ (<<"1", "0">> :> 10)
NonIntFields == {<<>>, <<"x">>, <<" ", "1">>, <<"-">>}
Fields == DOMAIN IntFields \cup NonIntFields
FieldLists == {<<>>} \cup {<<f>> : f \in Fields} \cup {<<f, g>> : f, g \in Fields}
                \cup {<<<<"1">>, <<"1">>, <<"1">>>>}
Blanks == {<<>>, <<" ">>}
Entries == [lead : Blanks, name : Names, fields : FieldLists, trail : Blanks]

\* The text of an entry: lead, name, ":field" for each field, trail.
Render(e) ==
    e.lead \o e.name \o FlattenSeq([i \in 1..Len(e.fields) |-> <<":">> \o e.fields[i]])
        \o e.trail

\* The entries joined with ",".
Env(es) ==
    FlattenSeq([i \in 1..Len(es) |-> IF i = 1 THEN Render(es[i]) ELSE <<",">> \o Render(es[i])])

Valid(e) == Len(e.fields) = 2 /\ \A i \in 1..2 : e.fields[i] \in DOMAIN IntFields

\* Each named token gets the RPS and block time of its last valid entry.
Reference(es) ==
    LET valid == {i \in 1..Len(es) : Valid(es[i])}
        lastOf(n) == CHOOSE i \in valid : es[i].name = n /\
                        \A j \in valid : es[j].name = n => j <= i
    IN [n \in {es[i].name : i \in valid} |->
          [RPS |-> IntFields[es[lastOf(n)].fields[1]],
           BlockTime |-> IntFields[es[lastOf(n)].fields[2]]]]

VARIABLE entries

Init == entries \in {<<e>> : e \in Entries} \cup {<<e, f>> : e, f \in Entries}
Next == UNCHANGED entries
Spec == Init /\ [][Next]_entries

\* parseTokenLimits gives every token the limits of its last entry of the
\* form "name:int:int" (blanks around the entry allowed), and ignores the
\* rest.
ParseTokenLimitsMatchesReference ==
    ParseTokenLimits(Env(entries)) = Reference(entries)
==============================================================================
