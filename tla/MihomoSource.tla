-------------------------------- MODULE MihomoSource --------------------------------
(***************************************************************************)
(* Mihomo sources (targets/mihomo.rs).  yaml-rust2 decides what is YAML    *)
(* and which values the top-level key mixed-port (one letter here, "mp")   *)
(* has; a line scanner of the adapter's own finds the span of a decimal.   *)
(* The YAML here are block mappings: keys at the first column, with a      *)
(* scalar of one line or a mapping indented below; comments, quoted keys.  *)
(***************************************************************************)
EXTENDS SourceText

Decimal == <<"1", "2", "3", "4", "5", "6", "7", "8", "9">>

IsDigit(c) == c = "0" \/ Contains(Decimal, c)

DigitValue(c) == IF c = "0" THEN 0 ELSE CHOOSE i \in DOMAIN Decimal : Decimal[i] = c

AllDigits(t) == t # <<>> /\ \A i \in DOMAIN t : IsDigit(t[i])

NumberOf(t) == FoldLeft(LAMBDA n, c : 10 * n + DigitValue(c), 0, t)

Unsigned(t) == IF IsPrefix(<<"+">>, t) THEN Tail(t) ELSE t

Port == 1..65535

MixedPort == <<"/", "mp">>

---------------------------------------------------------------------------------
(* Mistakes a change to the code could make, to see that the properties      *)
(* notice.                                                                   *)

\* Zero is a u16.
IsPortText0(r) == AllDigits(Unsigned(r)) /\ NumberOf(Unsigned(r)) <= 65535

---------------------------------------------------------------------------------
(* What yaml-rust2 makes of the source.                                      *)

\* A # opens a comment at the start of a line and behind a blank.
Uncommented(t) ==
    LET opens == {i \in DOMAIN t : t[i] = "#" /\ (i = 1 \/ t[i - 1] \in Blank)}
    IN IF opens = {} THEN t ELSE SubSeq(t, 1, Min(opens) - 1)

\* The line that starts at i without its comment.
Code(t, i) == TrimEnd(Uncommented(Content(t, i)))

\* The colon of a key is followed by a blank or by nothing.
Colons(line) == {i \in DOMAIN line : line[i] = ":" /\ (i = Len(line) \/ line[i + 1] \in Blank)}

KeyLines(t) == {i \in LineStarts(t) : Code(t, i) # <<>> /\ Code(t, i)[1] # " "}

KeyOf(t, i) == SubSeq(Code(t, i), 1, Min(Colons(Code(t, i))) - 1)

ScalarOf(t, i) == Trim(SubSeq(Code(t, i), Min(Colons(Code(t, i))) + 1, Len(Code(t, i))))

\* A mapping; the indented lines are mappings too, of a key without a scalar.
IsYaml(t) ==
    /\ KeyLines(t) # {}
    /\ \A i \in LineStarts(t) : Code(t, i) # <<>> => Colons(Code(t, i)) # {}
    /\ \A i \in LineStarts(t) \ KeyLines(t) :
          LET keys == {k \in KeyLines(t) : k < i}
          IN Code(t, i) # <<>> => keys # {} /\ ScalarOf(t, Max(keys)) = <<>>

\* inspect_top_level_mixed_ports: the scalars of the key, quoted or not.
PortLines(t) ==
    {i \in KeyLines(t) : KeyOf(t, i) \in {<<"mp">>, <<"\"", "mp", "\"">>}}

\* classify_mixed_port: a plain decimal in range, as validate asks.
IsPortScalar(scalar) == AllDigits(Unsigned(scalar)) /\ NumberOf(Unsigned(scalar)) \in Port

\* parse_yaml_root and validate.
MihomoValid(s) ==
    LET t == Body(s)
    IN /\ IsYaml(t)
       /\ Cardinality(PortLines(t)) <= 1
       /\ \A i \in PortLines(t) : IsPortScalar(ScalarOf(t, i))

---------------------------------------------------------------------------------
\* scan_mixed_port: the lines that begin with the key.
Occurrences(t) == {i \in LineStarts(t) : IsPrefix(<<"mp", ":">>, Content(t, i))}

\* How many digits open a value, and whether only a comment may follow them.
DigitRun(value) == Min({i \in 1..(Len(value) + 1) : i > Len(value) \/ ~IsDigit(value[i])}) - 1

SafelyTerminated(value) ==
    LET rest == Trim(SubSeq(value, DigitRun(value) + 1, Len(value)))
    IN DigitRun(value) > 0 /\ (rest = <<>> \/ rest[1] = "#")

\* replacement.parse::<u16>(), and not zero.
IsPortText(r) == AllDigits(Unsigned(r)) /\ NumberOf(Unsigned(r)) \in Port

\* MihomoAdapter::apply_edit: the new source, or <<>> when the edit is refused.
MihomoEdit(s, path, r) ==
    LET t     == Body(s)
        i     == CHOOSE j \in Occurrences(t) : TRUE
        after == SubSeq(Content(t, i), 3, Len(Content(t, i)))
        start == Offset(s) + i + 1 + Leading(after)
        value == Trim(after)
    IN IF \/ path # MixedPort
          \/ ~IsYaml(t)
          \/ Cardinality(PortLines(t)) > 1 \/ Cardinality(Occurrences(t)) # 1
          \/ ~SafelyTerminated(value)
          \/ ~IsPortText(r)
         THEN <<>>
         ELSE Splice(s, <<start, start + DigitRun(value)>>, r)
=================================================================================
