--------------------------------- MODULE JsonSource ---------------------------------
(***************************************************************************)
(* sing-box sources (targets/json.rs, targets/singbox.rs).  serde_json     *)
(* decides what is JSON; a scanner of the adapter's own finds the span of  *)
(* every member and element, under its RFC 6901 pointer.                   *)
(***************************************************************************)
EXTENDS SourceText

CONSTANT
    MaxDepth  \* recursion limit of serde_json: it reads less deep sources only

ASSUME JsonSourceAssumption == MaxDepth \in Nat /\ MaxDepth > 1

Digits == {"0", "1", "2"}

Fail == [end |-> 0, fields |-> {}]

Ok(r) == r.end # 0

\* A reading that ends before position i, with the fields met on the way.
Read(i, fields) == [end |-> i, fields |-> fields]

---------------------------------------------------------------------------------
\* skip_ws: the next position that is not blank, perhaps past the end.
Skip(t, i) == i + Leading(SubSeq(t, i, Len(t)))

At(t, i, c) == i <= Len(t) /\ t[i] = c

\* Letter j of the string that begins at i comes after an odd number of backslashes.
Escaped(t, i, j) ==
    \E k \in i..(j - 1) :
        /\ t[k] # "\\" /\ \A m \in (k + 1)..(j - 1) : t[m] = "\\"
        /\ (j - 1 - k) % 2 = 1

\* parse_string from the quotation mark at i; 0 when it does not end.
StringEnd(t, i) ==
    LET ends == {j \in (i + 1)..Len(t) : t[j] = "\"" /\ ~Escaped(t, i, j)}
    IN IF ends = {} THEN 0 ELSE Min(ends) + 1

\* The name a key spells, as serde_json reads it: of the escapes, those that stand
\* for the letter behind the backslash.
Spelled(t, i, after) ==
    LET Letter(j) == IF t[j] = "\\" /\ ~Escaped(t, i, j) THEN <<>> ELSE <<t[j]>>
    IN FlattenSeq([k \in 1..(after - i - 2) |-> Letter(i + k)])

\* parse_number over the letters used here, all integers.
NumberEnd(t, i) ==
    LET first == IF t[i] = "-" THEN i + 1 ELSE i
        end   == Min({j \in first..(Len(t) + 1) : j > Len(t) \/ t[j] \notin Digits})
    IN IF end = first \/ (t[first] = "0" /\ end > first + 1) THEN 0 ELSE end

RECURSIVE Value(_, _, _), Members(_, _, _), Elements(_, _, _, _)

\* parse_value: whatever has a path is a field, the root is not one.
Value(t, at, path) ==
    LET i == Skip(t, at)
        r == CASE At(t, i, "{") -> IF At(t, Skip(t, i + 1), "}")
                                     THEN Read(Skip(t, i + 1) + 1, {})
                                     ELSE Members(t, i + 1, path)
               [] At(t, i, "[") -> IF At(t, Skip(t, i + 1), "]")
                                     THEN Read(Skip(t, i + 1) + 1, {})
                                     ELSE Elements(t, i + 1, path, 0)
               [] At(t, i, "\"") -> Read(StringEnd(t, i), {})
               [] i <= Len(t) /\ t[i] \in Digits \cup {"-"} -> Read(NumberEnd(t, i), {})
               [] At(t, i, "null") -> Read(i + 1, {})   \* a literal is one letter
               [] OTHER -> Fail
    IN IF path = <<>> \/ ~Ok(r) THEN r
       ELSE Read(r.end, r.fields \cup {[path |-> path, span |-> <<i - 1, r.end - 1>>]})

\* The loop of parse_object.
Members(t, at, path) ==
    LET i     == Skip(t, at)
        after == IF At(t, i, "\"") THEN StringEnd(t, i) ELSE 0
        colon == Skip(t, after)
        value == Value(t, colon + 1, Child(path, Spelled(t, i, after)))
        next  == Skip(t, value.end)
        rest  == Members(t, next + 1, path)
    IN IF after = 0 \/ ~At(t, colon, ":") \/ ~Ok(value) THEN Fail
       ELSE IF At(t, next, "}") THEN Read(next + 1, value.fields)
       ELSE IF ~At(t, next, ",") \/ ~Ok(rest) THEN Fail
       ELSE Read(rest.end, value.fields \cup rest.fields)

\* The loop of parse_array.
Elements(t, at, path, index) ==
    LET value == Value(t, at, Child(path, <<ToString(index)>>))
        next  == Skip(t, value.end)
        rest  == Elements(t, next + 1, path, index + 1)
    IN IF ~Ok(value) THEN Fail
       ELSE IF At(t, next, "]") THEN Read(next + 1, value.fields)
       ELSE IF ~At(t, next, ",") \/ ~Ok(rest) THEN Fail
       ELSE Read(rest.end, value.fields \cup rest.fields)

\* Objects and arrays that are open at once in the deepest place of a text, a root of
\* no depth counted as one.
Nesting(t) ==
    LET fields == Value(t, 1, <<>>).fields
        open   == {f \in fields : t[f.span[1] + 1] \in {"{", "["}}
    IN Max({1} \cup {Len(Segments(f.path)) + 1 : f \in open})

\* serde_json::from_slice, but for its recursion limit as strict as the scanner over
\* the letters used here.
IsJson(t) ==
    LET r == Value(t, 1, <<>>)
    IN Ok(r) /\ Skip(t, r.end) > Len(t) /\ Nesting(t) < MaxDepth

\* The checks of parse_json_document.
JsonValid(s) == LET t == Body(s) IN IsJson(t) /\ At(t, Skip(t, 1), "{")

\* Its fields, with the base offset of the mark.
JsonFields(s) ==
    IF ~JsonValid(s) THEN {}
    ELSE {[f EXCEPT !.span = <<@[1] + Offset(s), @[2] + Offset(s)>>] :
            f \in Value(Body(s), 1, <<>>).fields}

\* validate_json_literal: the literal by itself, wherever it is going to be put.
IsLiteral(r) == IsJson(r)

\* SingBoxAdapter::apply_edit: the new source, or <<>> when the edit is refused.
JsonEdit(s, path, r) ==
    LET matches == {f \in JsonFields(s) : f.path = path}
    IN IF Cardinality(matches) # 1 \/ ~IsLiteral(r) THEN <<>>
       ELSE Splice(s, (CHOOSE f \in matches : TRUE).span, r)
=================================================================================
