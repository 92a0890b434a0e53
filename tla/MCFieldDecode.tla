---------------------------- MODULE MCFieldDecode ----------------------------
(***************************************************************************)
(* Three members; objects of up to three members over their keys and one   *)
(* unknown; hash functions that collide, wrap around the end of the table  *)
(* and spread.                                                             *)
(***************************************************************************)
EXTENDS FieldDecodeProps

MCKeys == {"left", "order", "right", "else"}
MCMembers == {"left", "order", "right"}
MCRank == [k \in MCKeys |-> CASE k = "else" -> 1 [] k = "left" -> 2 [] k = "order" -> 3
                              [] k = "right" -> 4]
\* Up to two members of any value; three, of which the first may be bad.
MCInputs ==
  {[object |-> FALSE, members |-> <<>>]} \cup
  {[object |-> TRUE, members |-> s] :
     s \in UNION {[1 .. n -> Member] : n \in 0 .. 2} \cup
           {s \in [1 .. 3 -> [key : MCKeys, value : {"good", "bad"}]] :
              s[2].value = "good" /\ s[3].value = "good"}}

MCInitials == {[m \in MCMembers |-> IF m = "left" THEN v ELSE "bad"] : v \in {"bad", "none"}}

Own == [m \in MCMembers |-> m]
Plain ==
  [optional |-> {"left", "right"}, lenient |-> {}, constrained |-> {"left"},
   adapted |-> {"order"}, constant |-> {}, names |-> Own,
   order |-> <<"order", "left", "right">>, switched |-> <<"order", "left", "right">>,
   static |-> FALSE, staticNames |-> <<>>, hash |-> [k \in MCKeys |-> 0],
   indexed |-> FALSE]

\* The fields change places once the first is assigned.
Switching == [Plain EXCEPT !.switched = <<"order", "right", "left">>]

\* An index over names known at compile time; either every name hashes to the last
\* of the eight buckets, or an unknown one to where the probing for others passes.
Registered ==
  [Plain EXCEPT !.static = TRUE, !.staticNames = <<"order", "left", "right">>,
                !.hash = [k \in MCKeys |-> 7], !.indexed = TRUE]
Scattered ==
  [Registered EXCEPT !.hash = [k \in MCKeys |-> CASE k = "else" -> 7 [] k = "left" -> 6
                                                   [] k = "order" -> 6 [] k = "right" -> 0]]

\* Two fields of one name, one with a policy; an index made for the call.
Shared ==
  [Plain EXCEPT !.names = [m \in MCMembers |-> IF m = "right" THEN "left" ELSE m],
                !.lenient = {"order"}, !.adapted = {"left"}, !.indexed = TRUE]

Constant == [Plain EXCEPT !.constant = {"right"}]

\* The fields of the object have another name than those known at compile time.
Renamed ==
  [Plain EXCEPT !.static = TRUE, !.staticNames = <<"order", "left", "right">>,
                !.names = [m \in MCMembers |-> IF m = "right" THEN "else" ELSE m]]

MCTypes == {Plain, Switching, Registered, Scattered, Shared, Constant}
RenamedTypes == {Renamed}

\* Proved for all types; here for the names and hashes above.
ASSUME LookupAssumption == IndexesFind

\* One of the runs is about types for which this is not so.
ASSUME RegistrationAssumption == Types = RenamedTypes \/ NamesRegistered
=============================================================================
