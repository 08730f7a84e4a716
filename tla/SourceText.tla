-------------------------------- MODULE SourceText --------------------------------
(***************************************************************************)
(* What the adapters of confdock-core share (document.rs, patch.rs,        *)
(* path.rs): a source is a sequence of bytes, here one letter each, with   *)
(* an optional byte order mark of three; it is looked at line by line and  *)
(* changed by replacing one span.  A span <<a, b>> is the half-open range  *)
(* a..b-1 of the code, counted from 0 in the source with its mark.         *)
(***************************************************************************)
EXTENDS Integers, Sequences, FiniteSets, SequencesExt

Bom == <<"EF", "BB", "BF">>

\* char::is_whitespace over the letters used here.
Blank == {" ", "CR", "LF"}

---------------------------------------------------------------------------------
(* Mistakes a change to the code could make, to see that the properties      *)
(* notice.                                                                   *)

\* Spans are counted from the end of the mark.
OffsetFromText(s) == 0

---------------------------------------------------------------------------------
\* The elements of S in the order Lt; the library's sort tries every arrangement.
\* The concatenation has TLC order them once and not at every application.
Ordered(S, Lt(_, _)) ==
    <<>> \o [k \in 1..Cardinality(S) |->
                CHOOSE x \in S : Cardinality({y \in S : Lt(y, x)}) = k - 1]

HasBom(s) == IsPrefix(Bom, s)

\* The base offset of the line scanners and of the JSON scanner.
Offset(s) == IF HasBom(s) THEN 3 ELSE 0

\* NativeDocument::as_str.
Body(s) == IF HasBom(s) THEN SubSeq(s, 4, Len(s)) ELSE s

\* detect_line_ending.
LineEnding(s) ==
    LET feeds == {i \in DOMAIN s : s[i] = "LF"}
        pairs == {i \in feeds : i > 1 /\ s[i - 1] = "CR"}
    IN CASE feeds = {}     -> "none"
         [] feeds = pairs  -> "crlf"
         [] pairs = {}     -> "lf"
         [] OTHER          -> "mixed"

TrailingNewline(s) == s # <<>> /\ Last(s) = "LF"

\* Where the pieces of split_inclusive('\n') begin, and where one ends.
LineStarts(t) == ({1} \cup {i + 1 : i \in {j \in DOMAIN t : t[j] = "LF"}}) \ {Len(t) + 1}

LineEnd(t, i) == CHOOSE j \in i..Len(t) :
    /\ \A k \in i..(j - 1) : t[k] # "LF"
    /\ t[j] = "LF" \/ j = Len(t)

StripLast(t, c) == IF t # <<>> /\ Last(t) = c THEN Front(t) ELSE t

\* The line that starts at i without its terminator.
Content(t, i) == StripLast(StripLast(SubSeq(t, i, LineEnd(t, i)), "LF"), "CR")

Solid(t) == {i \in DOMAIN t : t[i] \notin Blank}

\* How many letters trim_start takes from t; nothing is left of a blank text.
Leading(t) == IF Solid(t) = {} THEN Len(t) ELSE Min(Solid(t)) - 1

TrimEnd(t) == IF Solid(t) = {} THEN <<>> ELSE SubSeq(t, 1, Max(Solid(t)))

Trim(t) == TrimEnd(SubSeq(t, Leading(t) + 1, Len(t)))

Text(s, span) == SubSeq(s, span[1] + 1, span[2])

\* apply_span_patch, of a span inside the source.
Splice(s, span, r) == SubSeq(s, 1, span[1]) \o r \o SubSeq(s, span[2] + 1, Len(s))

---------------------------------------------------------------------------------
(* RFC 6901 pointers.                                                        *)

Put(t, c, r) == FlattenSeq([i \in DOMAIN t |-> IF t[i] = c THEN r ELSE <<t[i]>>])

Escape(seg) == Put(Put(seg, "~", <<"~", "0">>), "/", <<"~", "1">>)

\* append_pointer, and one step of ConfigPath::from_segments.
Child(path, seg) == path \o <<"/">> \o Escape(seg)

\* ConfigPath::new.
IsPointer(p) ==
    /\ p = <<>> \/ p[1] = "/"
    /\ \A i \in DOMAIN p : p[i] = "~" => i < Len(p) /\ p[i + 1] \in {"0", "1"}

Unescape(seg) ==
    FlattenSeq([i \in DOMAIN seg |->
        IF i > 1 /\ seg[i - 1] = "~" THEN <<>>
        ELSE IF seg[i] # "~" THEN <<seg[i]>>
        ELSE IF seg[i + 1] = "0" THEN <<"~">> ELSE <<"/">>])

\* decoded_segments.
Segments(p) ==
    LET cuts == Ordered({i \in DOMAIN p : p[i] = "/"}, <)
    IN [k \in DOMAIN cuts |->
          Unescape(SubSeq(p, cuts[k] + 1, IF k = Len(cuts) THEN Len(p) ELSE cuts[k + 1] - 1))]
=================================================================================
