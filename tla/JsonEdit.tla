------------------------------ MODULE JsonEdit ------------------------------
(***************************************************************************)
(* Editing a JSON object as text: members are located by their spans and   *)
(* spliced, so that what is not edited keeps its bytes.                    *)
(*                                                                         *)
(* An object is its text, taken apart by the scanner: the members in       *)
(* source order with the whitespace in front of each key (`pre') and       *)
(* behind each value (`post', up to the comma or the brace), or, of an     *)
(* object without members, the whitespace between the braces (`inside').   *)
(* A gap is "", " ", or "line" (a line break and an indentation); a value  *)
(* is whatever the module that uses this one has values be.                *)
(***************************************************************************)
EXTENDS Naturals, Sequences, FiniteSets

Empty == [members |-> <<>>, inside |-> ""]

Keys(obj) == {obj.members[i].key : i \in DOMAIN obj.members}

(* The last member of that key, as JSON.parse has it.                      *)
FindMember(obj, key) ==
    CHOOSE i \in DOMAIN obj.members :
        /\ obj.members[i].key = key
        /\ \A j \in DOMAIN obj.members : obj.members[j].key = key => j <= i

ValueOf(obj, key) == obj.members[FindMember(obj, key)].value

(* An object written by JSON.stringify with an indent.                     *)
Written(entries) ==
    [members |-> [i \in DOMAIN entries |->
                    [key |-> entries[i].key, value |-> entries[i].value, pre |-> "line",
                     post |-> IF i = Len(entries) THEN "line" ELSE ""]],
     inside |-> ""]

\* mutant of AppendMembers: the members go in front of the closing brace, whatever is there
AppendAtBrace(obj, entries) ==
    LET n == Len(obj.members)
    IN  [members |-> [i \in 1..(n + Len(entries)) |->
                        IF i <= n THEN obj.members[i]
                        ELSE [key |-> entries[i - n].key, value |-> entries[i - n].value,
                              pre |-> " ", post |-> ""]],
         inside |-> ""]

(* appendMembers: after the last value, separated as the last member is    *)
(* (on a line of its own or inline); behind them comes what was behind the *)
(* last value, or inside the empty braces.                                 *)
AppendMembers(obj, entries) ==
    LET n == Len(obj.members)
        tail == IF n = 0 THEN obj.inside ELSE obj.members[n].post
        gap(i) == IF n > 0 THEN IF obj.members[n].pre = "line" THEN "line" ELSE " "
                  ELSE IF i = 1 THEN "" ELSE " "
    IN  [members |-> [i \in 1..(n + Len(entries)) |->
                        IF i < n THEN obj.members[i]
                        ELSE IF i = n THEN [obj.members[n] EXCEPT !.post = ""]
                        ELSE [key |-> entries[i - n].key, value |-> entries[i - n].value,
                              pre |-> gap(i - n),
                              post |-> IF i = n + Len(entries) THEN tail ELSE ""]],
         inside |-> ""]

ReplaceMemberValue(obj, key, value) ==
    [obj EXCEPT !.members[FindMember(obj, key)].value = value]

(* The i-th of a set of positions.                                         *)
Nth(S, i) == CHOOSE k \in S : Cardinality({j \in S : j <= k}) = i

(* removeMembers: the interior is rebuilt from the members that stay.  The *)
(* first of them takes the place of the object's first; whitespace between *)
(* a value and its comma is not reproduced.                                *)
RemoveMembers(obj, keys) ==
    LET stay == {i \in DOMAIN obj.members : obj.members[i].key \notin keys}
        n == Cardinality(stay)
        kept(i) == obj.members[Nth(stay, i)]
        tail == obj.members[Len(obj.members)].post
    IN  IF n = Len(obj.members) THEN obj
        ELSE IF n = 0 THEN [members |-> <<>>, inside |-> tail]
        ELSE [members |-> [i \in 1..n |->
                             [kept(i) EXCEPT !.pre = IF i = 1 THEN obj.members[1].pre ELSE @,
                                             !.post = IF i = n THEN tail ELSE ""]],
              inside |-> ""]
=============================================================================
