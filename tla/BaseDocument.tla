---------------------------- MODULE BaseDocument ----------------------------
(***************************************************************************)
(* The definition of an Obsidian base (contextos-obsidian, base.rs): its   *)
(* schema, the operations base_edit applies to it, and how base_query      *)
(* takes a query out of it (base_query.rs).  Schema and query read the     *)
(* same YAML with two hand-written readers.                                *)
(*                                                                         *)
(* A value of the YAML is a record with its type: "string" with a name,    *)
(* "number", "array" with items, "object" with fields, or "null".  A field *)
(* that is not there is NoValue.                                           *)
(***************************************************************************)
EXTENDS Naturals, Sequences, FiniteSets, SequencesExt

CONSTANTS BuiltIn,   \* BUILT_IN_SUMMARIES
          Named(_)   \* the formula.NAME a string refers to, as a set of names

NoValue == [type |-> "absent"]
Null == [type |-> "null"]
Str(s) == [type |-> "string", s |-> s]
Num(n) == [type |-> "number", n |-> n]
Arr(items) == [type |-> "array", items |-> items]
Obj(fields) == [type |-> "object", fields |-> fields]

Keys(v) == IF v.type = "object" THEN DOMAIN v.fields ELSE {}
Get(v, key) == IF key \in Keys(v) THEN v.fields[key] ELSE NoValue
Items(v) == IF v.type = "array" THEN Range(v.items) ELSE {}

IsA(v, types) == v.type \in types \cup {"absent"}

With(v, key, w) == Obj([k \in Keys(v) \cup {key} |-> IF k = key THEN w ELSE v.fields[k]])
Without(v, key) == Obj([k \in Keys(v) \ {key} |-> v.fields[k]])

-----------------------------------------------------------------------------
(* The schema (diagnostics).                                                *)

\* validate_filters: a non-empty string, or one of and, or, not over filters.
RECURSIVE FilterOk(_)
FilterOk(v) ==
    CASE v.type = "absent" -> TRUE
      [] v.type = "string" -> v.s # ""
      [] v.type = "object" ->
            /\ Cardinality(Keys(v)) = 1 /\ Keys(v) \subseteq {"and", "or", "not"}
            /\ \A k \in Keys(v) : v.fields[k].type = "array"
                                  /\ \A w \in Items(v.fields[k]) : FilterOk(w)
      [] OTHER -> FALSE

\* validate_named_expressions.
ExpressionsOk(v) ==
    /\ IsA(v, {"object"})
    /\ \A k \in Keys(v) : k # "" /\ v.fields[k].type = "string" /\ v.fields[k].s # ""

PropertiesOk(v) ==
    /\ IsA(v, {"object"})
    /\ \A k \in Keys(v) : v.fields[k].type = "object" /\ IsA(Get(v.fields[k], "displayName"), {"string"})

DirectionOk(v) == v \in {NoValue, Str("ASC"), Str("DESC")}

\* validate_sort.
SortOk(v) ==
    /\ IsA(v, {"array"})
    /\ \A e \in Items(v) : /\ e.type = "object" /\ Get(e, "property").type = "string"
                           /\ DirectionOk(Get(e, "direction"))

\* validate_string_array.
OrderOk(v) == IsA(v, {"array"}) /\ \A e \in Items(v) : e.type = "string"

LimitOk(v) == IsA(v, {"number"}) /\ (v.type = "number" => v.n > 0)

GroupOk(v) ==
    /\ IsA(v, {"object"})
    /\ v.type = "object" => Get(v, "property").type = "string" /\ DirectionOk(Get(v, "direction"))

ViewOk(v) ==
    /\ v.type = "object"
    /\ Get(v, "type") \in {Str(t) : t \in {"table", "cards", "list", "map"}}
    /\ Get(v, "name").type = "string" /\ Get(v, "name") # Str("")
    /\ LimitOk(Get(v, "limit")) /\ FilterOk(Get(v, "filters")) /\ OrderOk(Get(v, "order"))
    /\ GroupOk(Get(v, "groupBy")) /\ SortOk(Get(v, "sort"))
    /\ IsA(Get(v, "summaries"), {"object"})

\* validate_views: at least one, and no two with a name.
ViewsOk(v) ==
    /\ v.type = "array" /\ v.items # << >>
    /\ \A w \in Items(v) : ViewOk(w)
    /\ \A i, j \in DOMAIN v.items : v.items[i].fields["name"] = v.items[j].fields["name"] => i = j

\* collect_formula_references: the formulas a value names, at any depth.
RECURSIVE References(_)
References(v) ==
    CASE v.type = "string" -> Named(v.s)
      [] v.type = "array" -> UNION {References(w) : w \in Items(v)}
      [] v.type = "object" -> UNION {References(v.fields[k]) : k \in Keys(v)}
      [] OTHER -> {}

\* Mutant: the columns of a view are not searched.
MutViewReferences(v) ==
    UNION {References(Get(v, f)) : f \in {"filters", "groupBy", "sort"}}
    \cup UNION {Named(k) : k \in Keys(Get(v, "summaries"))}

\* Of a view, the values that hold expressions, and the names its summaries are for.
ViewReferences(v) ==
    UNION {References(Get(v, f)) : f \in {"filters", "order", "groupBy", "sort"}}
    \cup UNION {Named(k) : k \in Keys(Get(v, "summaries"))}

\* validate_formula_references: every formula that is named is defined.
FormulasDefined(doc) ==
    UNION {References(Get(doc, s)) : s \in {"filters", "formulas", "summaries"}}
    \cup UNION {ViewReferences(v) : v \in Items(Get(doc, "views"))}
    \cup UNION {Named(k) : k \in Keys(Get(doc, "properties"))}
    \subseteq Keys(Get(doc, "formulas"))

\* validate_summary_references.
SummariesDefined(doc) ==
    \A v \in Items(Get(doc, "views")) : LET used == Get(v, "summaries") IN
        \A k \in Keys(used) : /\ used.fields[k].type = "string"
                              /\ used.fields[k].s \in BuiltIn \cup Keys(Get(doc, "summaries"))

Valid(doc) ==
    /\ Keys(doc) \subseteq {"filters", "formulas", "properties", "summaries", "views"}
    /\ FilterOk(Get(doc, "filters"))
    /\ ExpressionsOk(Get(doc, "formulas")) /\ ExpressionsOk(Get(doc, "summaries"))
    /\ PropertiesOk(Get(doc, "properties"))
    /\ ViewsOk(Get(doc, "views"))
    /\ FormulasDefined(doc) /\ SummariesDefined(doc)

-----------------------------------------------------------------------------
(* Operations (apply_operation).  Each returns <<>> if it is refused, and   *)
(* the new definition otherwise.                                            *)

Refused == << >>
Section(doc, key, empty) == IF key \in Keys(doc) THEN doc.fields[key] ELSE empty

\* object_section makes a section that is not there.
SetIn(doc, key, name, value) ==
    LET section == Section(doc, key, Obj(<< >>))
    IN  IF section.type # "object" THEN Refused
        ELSE <<With(doc, key, With(section, name, value))>>

\* remove_from_object_section.
RemoveFrom(doc, key, name) ==
    LET section == Section(doc, key, Obj(<< >>))
    IN  IF name \notin Keys(section) THEN Refused ELSE <<With(doc, key, Without(section, name))>>

\* merge_patch: null removes, an object merges, anything else replaces.
RECURSIVE MergePatch(_, _)
MergePatch(target, patch) ==
    LET kept == {k \in Keys(target) \cup Keys(patch) : Get(patch, k) # Null}
    IN  Obj([k \in kept |->
          LET old == Get(target, k)
              new == Get(patch, k)
          IN  CASE new = NoValue -> old
                [] new.type = "object" -> MergePatch(IF old.type = "object" THEN old ELSE Obj(<< >>), new)
                [] OTHER -> new])

Views(doc) == Section(doc, "views", Arr(<< >>))

\* view_index.
At(doc, name) == {i \in DOMAIN Views(doc).items : Get(Views(doc).items[i], "name") = Str(name)}

FirstOf(s) == CHOOSE i \in s : \A j \in s : i <= j

\* Mutant: the patch is merged last, so it may rename the view.
MutPatched(view, patch, name) == MergePatch(With(view, "name", Str(name)), patch)

Patched(view, patch, name) == With(MergePatch(view, patch), "name", Str(name))

ApplyToViews(doc, o) ==
    LET views == Views(doc).items
        here == At(doc, o.name)
        put(items) == <<With(doc, "views", Arr(items))>>
    IN  CASE o.op = "add_view" /\ o.name # "" /\ here = {} ->
                put(Append(views, With(o.value, "name", Str(o.name))))
          [] o.op = "remove_view" /\ here # {} -> put(RemoveAt(views, FirstOf(here)))
          [] o.op = "update_view" /\ here # {} ->
                put([views EXCEPT ![FirstOf(here)] = Patched(@, o.value, o.name)])
          [] OTHER -> Refused

ApplyOperation(doc, o) ==
    CASE o.op = "set_filters" -> <<With(doc, "filters", o.value)>>
      [] o.op = "add_formula" /\ o.name # "" /\ o.value # Str("")
            /\ o.name \notin Keys(Get(doc, "formulas")) -> SetIn(doc, "formulas", o.name, o.value)
      [] o.op = "remove_formula" -> RemoveFrom(doc, "formulas", o.name)
      [] o.op = "set_property" /\ o.name # "" -> SetIn(doc, "properties", o.name, o.value)
      [] o.op = "remove_property" -> RemoveFrom(doc, "properties", o.name)
      [] o.op = "set_summary" /\ o.name # "" /\ o.value # Str("") ->
            SetIn(doc, "summaries", o.name, o.value)
      [] o.op = "remove_summary" -> RemoveFrom(doc, "summaries", o.name)
      [] o.op \in {"add_view", "remove_view", "update_view"} /\ Views(doc).type = "array" ->
            ApplyToViews(doc, o)
      [] OTHER -> Refused

\* apply: all operations on a copy, which takes the place of the definition if
\* all of them are accepted and the result is valid.
Apply(doc, operations) ==
    LET done == FoldLeft(LAMBDA d, o : IF d = Refused THEN Refused ELSE ApplyOperation(d[1], o),
                         <<doc>>, operations)
    IN  IF done # Refused /\ Valid(done[1]) THEN done[1] ELSE doc

-----------------------------------------------------------------------------
(* from_document: the query of a view.                                      *)

\* parse_sort.  A direction that is no string counts as none.
SortParses(v) ==
    /\ IsA(v, {"array"})
    /\ \A e \in Items(v) : /\ e.type = "object" /\ Get(e, "property").type = "string"
                           /\ Get(e, "direction").type = "string" => DirectionOk(Get(e, "direction"))

SortsByFormula(v) ==
    \E e \in Items(v) : Get(e, "property").type = "string" /\ Named(Get(e, "property").s) # {}

\* merge_and, and what evaluate_node makes of it: the first key of an object
\* must be and, or, or not.
RECURSIVE FilterParses(_)
FilterParses(v) ==
    CASE v.type = "string" -> TRUE
      [] v.type = "object" /\ Keys(v) # {} ->
            LET k == CHOOSE k \in Keys(v) : TRUE
            IN  k \in {"and", "or", "not"} /\ v.fields[k].type = "array"
                /\ \A w \in Items(v.fields[k]) : FilterParses(w)
      [] OTHER -> FALSE

Columns(doc, view) ==
    IF Get(view, "order").type = "array" /\ Items(Get(view, "order")) # {}
    THEN {c.s : c \in Items(Get(view, "order"))} ELSE Keys(Get(doc, "properties"))

FromDocument(doc, name) ==
    LET views == Items(Get(doc, "views"))
        named == IF name = "" THEN {v \in views : v = Get(doc, "views").items[1]}
                 ELSE {v \in views : Get(v, "name") = Str(name)}
        view == CHOOSE v \in named : TRUE
        wrong == \/ view.type # "object"
                 \/ ~OrderOk(Get(view, "order")) \/ ~SortParses(Get(view, "sort"))
                 \/ ~LimitOk(Get(view, "limit"))
                 \/ \E v \in {doc, view} : Get(v, "filters") # NoValue /\ ~FilterParses(Get(v, "filters"))
    IN  CASE named = {} -> [error |-> IF name = "" THEN "malformed" ELSE "not found", columns |-> {}]
          [] named # {} /\ wrong -> [error |-> "malformed", columns |-> {}]
          [] named # {} /\ ~wrong /\ SortsByFormula(Get(view, "sort")) -> [error |-> "formula", columns |-> {}]
          [] named # {} /\ ~wrong /\ Columns(doc, view) = {} -> [error |-> "no columns", columns |-> {}]
          [] OTHER -> [error |-> "", columns |-> Columns(doc, view)]

-----------------------------------------------------------------------------
(* Properties of a definition and a list of operations.                     *)

\* After base_edit, as before it, the two readers agree: a definition the schema
\* accepts is never malformed for base_query, every view of it is found under
\* its name, and a formula that a column names is defined.
Queryable(doc) ==
    Valid(doc) =>
        \A v \in Items(Get(doc, "views")) :
            LET query == FromDocument(doc, Get(v, "name").s)
            IN  /\ query.error \in {"", "formula", "no columns"}
                /\ UNION {Named(c) : c \in query.columns} \subseteq Keys(Get(doc, "formulas"))

\* A list of operations keeps every view it does not name, in its order and
\* unchanged, and an update, whatever its patch says, keeps the view's name.
ViewsKept(doc, operations) ==
    LET named == {o.name : o \in Range(operations)}
        others(d) == SelectSeq(Views(d).items, LAMBDA v : Get(v, "name") \notin {Str(n) : n \in named})
        after == Apply(doc, operations)
        updates == \A o \in Range(operations) : o.op = "update_view"
    IN  Valid(doc) => /\ others(after) = others(doc)
                      /\ updates => \A n \in named : At(after, n) = At(doc, n)

=============================================================================
