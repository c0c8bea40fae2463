-------------------------- MODULE MCConfiguration --------------------------
(***************************************************************************)
(* Configuration over documents of up to two vaults in three directories,  *)
(* one of them also reached through a link of another name.                *)
(***************************************************************************)
EXTENDS Integers, Sequences, TLC

Directories == "/p" :> "/p" @@ "/q" :> "/q" @@ "/k" :> "/q" @@ "/r" :> "/r"
LastNames == "/p" :> "p" @@ "/q" :> "q" @@ "/k" :> "k" @@ "/r" :> "r" @@ "/x" :> "x"
SmallNames == [n \in {"p", "q", "k", "r", "x", "n", "N", "1"} |-> IF n = "N" THEN "n" ELSE n]

INSTANCE Configuration WITH
    Canonical <- Directories, Basename <- LastNames, Lower <- SmallNames,
    SchemeNames <- {"p", "q", "k", "r", "n", "N"}, Levels <- {"info", "debug"}, Kinds <- {"stdio", "http"}

Keys(table) == [inline |-> FALSE, keys |-> table]
Searches == {<< >>} \cup {[search |-> Keys(s)] : s \in
    {<< >>, [semantic |-> TRUE], [semantic |-> FALSE, embedding |-> Keys([model_directory |-> "m"])],
     [semantic |-> TRUE, embedding |-> Keys([model_directory |-> "m"])]}}
Inline == {[search |-> [inline |-> TRUE, keys |-> [semantic |-> TRUE]]]}
Tables == {[path |-> p] @@ n @@ m @@ s : p \in {"/p", "/q", "/k"}, n \in {<< >>, [name |-> "n"], [name |-> "q"]},
                                         m \in {<< >>, [managed |-> FALSE]}, s \in Searches}
Second == {[path |-> p] @@ n @@ s : p \in {"/p", "/q"}, n \in {<< >>, [name |-> "N"]}, s \in {<< >>} \cup Inline}
Servers == {NoTable, Keys([log_level |-> "debug", transports |-> <<"http">>])}
Documents == {Blank} \cup {[server |-> v, vaults |-> ts] :
    v \in Servers, ts \in {<<t>> : t \in Tables} \cup {<<t, u>> : t \in Tables, u \in Second}}

Names == {<< >>, [name |-> "N"], [name |-> "q"], [name |-> "r"]}
Places == {<< >>, [path |-> "/q"], [path |-> "/r"]}
Answers == {n @@ p @@ m @@ s : n \in Names, p \in Places, m \in {<< >>, [managed |-> TRUE]},
    s \in {<< >>, [semantic |-> FALSE], [semantic |-> TRUE], [semantic |-> TRUE, model |-> "o"]}}
Talk(edits, added, model) == [edits |-> edits, added |-> added, model |-> model]
New(n, p) == [name |-> n, path |-> p]
Talks == {Talk(<<[do |-> "edit", at |-> 1, answer |-> a]>>, << >>, "") : a \in Answers}
    \cup {Talk(<< >>, ad, m) : ad \in {<<New("n", "/p")>>, <<New("n", "/p"), New("N", "/q")>>, <<New("n", "/p"), New("q", "/q")>>,
                                         <<New("1", "/p")>>, <<New("n", "/x")>>, <<New("n", "/q"), New("q", "/k")>>}, m \in {"", "m"}}
    \cup {Talk(<<[do |-> "edit", at |-> 1, answer |-> a]>>, <<New("n", "/r")>>, m) :
              a \in {<< >>, [name |-> "r"], [semantic |-> FALSE]}, m \in {"", "o"}}
    \cup {Talk(<<[do |-> "all", answers |-> <<a, b>>]>>, << >>, "") : a, b \in
              {<< >>, [name |-> "r", semantic |-> FALSE], [name |-> "N"], [path |-> "/r", semantic |-> TRUE]}}
    \cup {Talk(<<[do |-> "remove", at |-> i]>> \o more, << >>, "") : i \in 1..3,
              more \in {<< >>, <<[do |-> "edit", at |-> 1, answer |-> [name |-> "N"]]>>, <<[do |-> "remove", at |-> 1]>>}}
    \cup {Talk(<<[do |-> "server", answer |-> a]>>, << >>, "") : a \in
              {<< >>, [transports |-> <<"stdio">>], [transports |-> << >>], [log_level |-> "info", log_file |-> "f"],
               [log_level |-> "loud"]}}

=============================================================================
