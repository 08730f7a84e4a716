--------------------------------- MODULE IniSource ---------------------------------
(***************************************************************************)
(* The line format of Surge, Loon, Shadowrocket and Quantumult X           *)
(* (targets/common.rs).  Each adapter names the sections it may edit, all  *)
(* of them case sensitive; any other section is opaque.                    *)
(***************************************************************************)
EXTENDS SourceText

\* is_safe_key: ASCII letters, digits, _ - and the dot, as far as used here.
KeyLetter == {"k", "l", "v", "w", "G", "g", "R", "_", "-", "."}

SafeKey(key) == key # <<>> /\ \A i \in DOMAIN key : key[i] \in KeyLetter

---------------------------------------------------------------------------------
(* Mistakes a change to the code could make, to see that the properties      *)
(* notice.                                                                   *)

\* The value keeps the blanks before the terminator.
ValueEndAtTerminator(content) == Len(content)

---------------------------------------------------------------------------------
Skipped(trimmed) ==
    \/ trimmed = <<>>
    \/ trimmed[1] \in {"#", ";"}
    \/ IsPrefix(<<"/", "/">>, trimmed)

IsHeader(trimmed) ==
    ~Skipped(trimmed) /\ trimmed[1] = "[" /\ Last(trimmed) = "]"

HeaderName(trimmed) == Trim(SubSeq(trimmed, 2, Len(trimmed) - 1))

\* The lines of t that are headers, and what a header names.
Headers(t) == {i \in LineStarts(t) : IsHeader(Trim(Content(t, i)))}

NameAt(t, i) == HeaderName(Trim(Content(t, i)))

\* The last header above line i decides its section; lines above all are in none.
SectionAt(t, i) ==
    LET above == {h \in Headers(t) : h < i}
    IN IF above = {} THEN <<>> ELSE NameAt(t, Max(above))

ValueEnd(content) == Len(TrimEnd(content))

\* What a line of a section contributes: a key, and the value after the first
\* equals sign without the blanks around it, at most one.
IniFieldsOf(section, offset, content) ==
    LET equals == {i \in DOMAIN content : content[i] = "="}
        equal  == Min(equals)
        key    == Trim(SubSeq(content, 1, equal - 1))
        start  == equal + Leading(SubSeq(content, equal + 1, Len(content)))
        end    == IF ValueEnd(content) < start THEN start ELSE ValueEnd(content)
    IN IF equals = {} \/ Skipped(Trim(content)) \/ IsHeader(Trim(content)) \/ ~SafeKey(key)
         THEN {}
         ELSE {[path |-> Child(Child(<<>>, section), key),
                span |-> <<offset + start, offset + end>>]}

\* parse_ini_like.
IniFields(s, editable) ==
    LET t == Body(s)
        lines == {i \in LineStarts(t) : SectionAt(t, i) \in editable}
    IN UNION {IniFieldsOf(SectionAt(t, i), Offset(s) + i - 1, Content(t, i)) : i \in lines}

DuplicateSections(s, editable) ==
    LET t == Body(s)
    IN {name \in editable : Cardinality({h \in Headers(t) : NameAt(t, h) = name}) > 1}

UnsafeIni(r) == r = <<>> \/ \E i \in DOMAIN r : r[i] \in {"CR", "LF"}

\* value_edit: the new source, or <<>> when the edit is refused.
IniEdit(s, editable, path, r) ==
    LET segments == Segments(path)
        matches  == {f \in IniFields(s, editable) : f.path = path}
        field    == CHOOSE f \in matches : TRUE
        current  == Text(s, field.span)
    IN IF \/ Len(segments) # 2 \/ segments[1] \notin editable
          \/ segments[1] \in DuplicateSections(s, editable)
          \/ Cardinality(matches) # 1
          \/ \E i \in DOMAIN current : current[i] \in {"#", ";"}
          \/ UnsafeIni(r)
         THEN <<>>
         ELSE Splice(s, field.span, r)
=================================================================================
