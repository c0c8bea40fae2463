--------------------------- MODULE MCBaseDocument ---------------------------
(***************************************************************************)
(* BaseDocument over one definition with two views and one formula, every   *)
(* field of which is replaced by good and bad values in turn.               *)
(***************************************************************************)
EXTENDS Integers, Sequences

\* The formulas that an expression names.
Mentions(s) == CASE s = "formula.f" -> {"f"} [] s = "formula.g" -> {"g"} [] OTHER -> {}

INSTANCE BaseDocument WITH Named <- Mentions, BuiltIn <- {"Sum"}

One(k, v) == Obj([x \in {k} |-> v])
Two(k, v, l, w) == With(One(k, v), l, w)
View(name) == With(Two("type", Str("table"), "name", Str(name)), "order", Arr(<<Str("x"), Str("formula.f")>>))
Base == Obj([views |-> Arr(<<View("v"), With(View("w"), "summaries", One("x", Str("Sum")))>>),
             formulas |-> One("f", Str("x")), properties |-> One("x", Obj(<< >>))])
SetView(field, value) == With(Base, "views", Arr(<<With(View("v"), field, value), View("w")>>))

RawFilters == {Null, Num(1), Str(""), Str("e"), Str("formula.g"), Arr(<< >>), Obj(<< >>),
               One("and", Arr(<<Str("e"), One("not", Arr(<<Str("formula.f")>>))>>)), One("or", Str("e")),
               One("xor", Arr(<< >>)), Two("and", Arr(<< >>), "or", Arr(<< >>)), One("not", Arr(<<Num(1)>>))}
RawSort == {Null, Str("x"), Arr(<< >>), Arr(<<Str("x")>>)}
    \cup {Arr(<<One("property", p)>>) : p \in {Str("x"), Str("formula.f"), Str("formula.g"), Num(1)}}
    \cup {Arr(<<Two("property", Str("x"), "direction", d)>>) : d \in {Str("ASC"), Str("DESC"), Str("up"), Null, Num(1)}}
RawOrder == {Null, Str("x"), Arr(<< >>), Arr(<<Str("x")>>), Arr(<<Str("formula.g")>>), Arr(<<Num(1)>>)}
RawSummaries == {One("x", Str("s")), One("formula.g", Str("Sum")), One("x", Null), Null}

Documents ==
    {Base} \cup {SetView("filters", v) : v \in RawFilters} \cup {With(Base, "filters", v) : v \in RawFilters}
    \cup {SetView("sort", v) : v \in RawSort} \cup {SetView("order", v) : v \in RawOrder}
    \cup {SetView("limit", v) : v \in {Null, Num(0), Num(1), Str("x")}}
    \cup {SetView("name", v) : v \in {Null, Str(""), Str("w"), Str("u")}}
    \cup {SetView("type", v) : v \in {Null, Str("board")}}
    \cup {SetView("summaries", v) : v \in RawSummaries}
    \cup {SetView("groupBy", v) : v \in {One("property", Str("x")), One("property", Null), Null}}
    \cup {With(Base, "views", v) : v \in {Null, Arr(<< >>), Arr(<<Null>>)}}
    \cup {With(Base, "summaries", v) : v \in {One("s", Str("formula.g")), One("s", Str("e")), Arr(<< >>)}}
    \cup {Without(Base, k) : k \in {"views", "formulas", "properties"}} \cup {With(Base, "other", Null)}
    \cup {With(Without(Base, "properties"), "views", Arr(<<Without(View("v"), "order")>>))}

Operation(op, name, value) == [op |-> op, name |-> name, value |-> value]
Patches == {Obj(<< >>), One("type", Str("list")), One("order", Null), One("name", Str("z")), One("name", Null),
            One("sort", Arr(<<One("property", Str("formula.f"))>>)),
            Two("type", Str("map"), "groupBy", Two("property", Str("x"), "direction", Null))}
Operations ==
    {Operation("set_filters", "", v) : v \in {Str("e"), Str("formula.f"), One("or", Str("e"))}}
    \cup {Operation(op, n, v) : op \in {"add_formula", "set_summary"}, n \in {"f", "g", ""}, v \in {Str("formula.g"), Str("")}}
    \cup {Operation(op, n, Null) : op \in {"remove_formula", "remove_property", "remove_summary", "remove_view"}, n \in {"f", "x", "v", "s"}}
    \cup {Operation("set_property", n, Obj(<< >>)) : n \in {"y", "formula.g"}}
    \cup {Operation(op, n, v) : op \in {"add_view", "update_view"}, n \in {"v", "u"}, v \in Patches}

\* A definition and the operations on it, up to two.
Edits == {<<d, << >> >> : d \in Documents} \cup {<<Base, <<o>> >> : o \in Operations}
    \cup {<<Base, <<o, p>> >> : o, p \in Operations}

=============================================================================
