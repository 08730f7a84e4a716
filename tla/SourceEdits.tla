-------------------------------- MODULE SourceEdits --------------------------------
(***************************************************************************)
(* A source on its way from one revision to the next: the editor changes   *)
(* it field by field through the adapter of its target (WasmConfigCore,    *)
(* TargetRegistry), or as text, and saves what the adapter finds valid;    *)
(* other clients of the service save bytes of their own.  The service then *)
(* shows the difference of the two revisions.                              *)
(***************************************************************************)
EXTENDS IniSource, JsonSource, MihomoSource, LineDiff

CONSTANTS
    Drafts,        \* Drafts[t]: whole sources of target t
    Paths,         \* Paths[t]: the paths edits of target t name
    Replacements,  \* Replacements[t]: the texts they put there
    MaxSize,       \* max_config_bytes, a letter standing for one byte
    MaxEdits,      \* bound: field edits of one behaviour
    MaxRevisions   \* bound: revisions of the project

ASSUME SourceEditsAssumption ==
    /\ DOMAIN Drafts = {"surge", "quantumult-x", "sing-box", "mihomo"}
    /\ DOMAIN Paths = DOMAIN Drafts /\ DOMAIN Replacements = DOMAIN Drafts
    /\ MaxSize \in Nat
    /\ MaxEdits \in Nat /\ MaxRevisions \in Nat \ {0}

VARIABLES
    target,     \* the target of the project
    saved,      \* the source of its current revision
    source,     \* workingBytes of the editor
    preference, \* rawLineEndingPreference of the editor
    edits,      \* field edits so far
    revisions   \* revisions so far

vars == <<target, saved, source, preference, edits, revisions>>

---------------------------------------------------------------------------------
(* TargetRegistry.  Loon and Shadowrocket edit the same section as Surge.    *)

Editable == [t \in {"surge", "quantumult-x"} |-> IF t = "surge" THEN {<<"G">>} ELSE {<<"g">>}]

\* validate_source; any UTF-8 is valid in the line format.
Valid(t, s) ==
    CASE t = "sing-box" -> JsonValid(s)
      [] t = "mihomo"   -> MihomoValid(s)
      [] OTHER          -> TRUE

\* What the service lets a project be created with and save: source_base64 and
\* validate_source.
Savable(t, s) == Len(s) <= MaxSize /\ Valid(t, s)

\* WasmConfigCore::apply_edit: the new source, or <<>> when the edit is refused.
ApplyEdit(t, s, path, r) ==
    CASE ~IsPointer(path) -> <<>>
      [] t = "sing-box" /\ IsPointer(path) -> JsonEdit(s, path, r)
      [] t = "mihomo" /\ IsPointer(path)   -> MihomoEdit(s, path, r)
      [] t \in DOMAIN Editable /\ IsPointer(path) -> IniEdit(s, Editable[t], path, r)

---------------------------------------------------------------------------------
(* The text of the raw editor (bytes.ts).                                    *)

Encoded(text, ending, bom) ==
    (IF bom THEN Bom ELSE <<>>)
      \o (IF ending = "crlf" THEN Put(text, "LF", <<"CR", "LF">>) ELSE text)

\* decodeToEditor: the body with line feeds for line endings.
Decoded(s) ==
    LET b == Body(s)
        Letter(i) == IF b[i] = "CR" /\ i < Len(b) /\ b[i + 1] = "LF" THEN <<>> ELSE <<b[i]>>
    IN FlattenSeq([i \in DOMAIN b |-> Letter(i)])

\* What a page that loads s prefers.
Preference(s) == IF LineEnding(s) = "none" THEN "lf" ELSE LineEnding(s)

---------------------------------------------------------------------------------
Init ==
    /\ target \in DOMAIN Drafts
    /\ saved \in {s \in Drafts[target] : Savable(target, s)}
    /\ source = saved
    /\ preference = Preference(saved)
    /\ edits = 0
    /\ revisions = 1

\* applyEdit of useProject.
StructuredEdit(path, r) ==
    /\ edits < MaxEdits
    /\ edits' = edits + 1
    /\ UNCHANGED <<target, saved, preference, revisions>>
    /\ source' \in {ApplyEdit(target, source, path, r)} \ {<<>>}

\* setText of useProject: a source with mixed line endings cannot be edited as text.
RawEdit(text) ==
    /\ preference # "mixed"
    /\ UNCHANGED <<target, saved, preference, edits, revisions>>
    /\ source' = Encoded(text, preference, HasBom(source))

\* save of useProject, accepted by save_revision: an unchanged source makes no revision.
Save ==
    /\ revisions < MaxRevisions
    /\ source # saved /\ Savable(target, source)
    /\ saved' = source
    /\ revisions' = revisions + 1
    /\ UNCHANGED <<target, source, preference, edits>>

\* Another client saves its bytes as they are, and the page loads them.
Elsewhere(s) ==
    /\ revisions < MaxRevisions
    /\ s # saved /\ Savable(target, s)
    /\ saved' = s /\ source' = s /\ preference' = Preference(s)
    /\ revisions' = revisions + 1
    /\ UNCHANGED <<target, edits>>

Next ==
    \/ \E path \in Paths[target], r \in Replacements[target] : StructuredEdit(path, r)
    \/ \E s \in Drafts[target] : RawEdit(Decoded(s))
    \/ Save
    \/ \E s \in Drafts[target] : Elsewhere(s)

Spec == Init /\ [][Next]_vars

---------------------------------------------------------------------------------
(* What a reader of the source finds, spans and the mark left aside.         *)

Readings(t, s) ==
    LET b == Body(s)
        Ini(i) == {[path |-> f.path, value |-> Trim(Text(Content(b, i), f.span))] :
                      f \in IniFieldsOf(SectionAt(b, i), 0, Content(b, i))}
    IN CASE t = "sing-box" ->
              {[path |-> f.path, value |-> Text(b, f.span)] : f \in Value(b, 1, <<>>).fields}
         [] t = "mihomo" ->
              {[path |-> <<"/">> \o KeyOf(b, i), value |-> ScalarOf(b, i)] : i \in KeyLines(b)}
         [] OTHER ->
              UNION {Ini(i) : i \in {i \in LineStarts(b) : SectionAt(b, i) \in Editable[t]}}

ValuesAt(t, s, path) == {f.value : f \in {f \in Readings(t, s) : f.path = path}}

\* serde_json reads a replacement by itself and the source as a whole: each may be
\* within its limit while the first inside the second is not.
NestsTooDeep(t, s) == t = "sing-box" /\ Nesting(Body(s)) >= MaxDepth

\* Neither path contains the other.
Apart(p, q) == ~IsPrefix(Segments(p), Segments(q)) /\ ~IsPrefix(Segments(q), Segments(p))

OnOneLine(r) == \A i \in DOMAIN r : r[i] \notin {"CR", "LF"}

\* A field edit of a valid source replaces one value and nothing else: the path then
\* reads the replacement and only it, every path apart from it reads what it read, the
\* mark and the last newline stay, and so do the line endings unless a value of several
\* lines comes or goes (apply_span_patch and the spans of the three scanners).
EditIsLocal ==
    [][\A path \in Paths[target], r \in Replacements[target] :
         StructuredEdit(path, r) /\ Valid(target, source) =>
            /\ ValuesAt(target, source', path) = {Trim(r)}
            /\ \A f \in Readings(target, source) \cup Readings(target, source') :
                  Apart(f.path, path) =>
                    ValuesAt(target, source', f.path) = ValuesAt(target, source, f.path)
            /\ HasBom(source') = HasBom(source)
            /\ TrailingNewline(source') = TrailingNewline(source)
            /\ (\A v \in ValuesAt(target, source, path) \cup {r} : OnOneLine(v)) =>
                  LineEnding(source') = LineEnding(source)]_vars

\* Editing a field back to the value it had restores the source byte by byte; that edit
\* is refused only where the adapters say so: an empty value, a text with what could
\* open a comment, a signed port, a source that the first edit made nest too deep to be
\* read.  So does typing the old text back in the raw editor, unless a field edit
\* brought other line endings than those the page loaded (ADR-001).
EditUndone ==
    [][/\ \A path \in Paths[target], r \in Replacements[target] :
            StructuredEdit(path, r) /\ Valid(target, source) /\ r = Trim(r) =>
               \A old \in ValuesAt(target, source, path) :
                  LET undone == ApplyEdit(target, source', path, old)
                  IN \/ undone = source
                     \/ /\ undone = <<>>
                        /\ \/ old = <<>>
                           \/ \E i \in DOMAIN r : r[i] \in {"#", ";", "+"}
                           \/ NestsTooDeep(target, source')
       /\ \A s \in Drafts[target] :
            RawEdit(Decoded(s)) /\ LineEnding(source) \in {"none", preference} =>
               Encoded(Decoded(source), preference', HasBom(source')) = source]_vars

\* A field edit turns a source that can be saved into one that cannot in two ways only:
\* it outgrows the limit of the service, or nests deeper than serde_json reads, neither
\* of which apply_edit looks at.  Nothing else that the adapters put into a source makes
\* them refuse it as a whole.
EditKeepsValid ==
    [][\A path \in Paths[target], r \in Replacements[target] :
         StructuredEdit(path, r) /\ Savable(target, source) =>
            \/ Savable(target, source')
            \/ Len(source') > MaxSize
            \/ NestsTooDeep(target, source')]_vars

---------------------------------------------------------------------------------
(* The difference of a revision and its parent in the history, whichever     *)
(* edit script the deadline leaves.                                          *)

Differences(from, to) == {Diff(from, to, m) : m \in Scripts(Parsed(from), Parsed(to))} \ {<<>>}

\* The page accepts whatever the service answers: no difference is an invalid response
\* (build_hunk against decodeRevisionDiff).
DiffIsAccepted ==
    [][saved' # saved => \A d \in Differences(saved, saved') : DecodesDiff(d)]_vars

\* The old lines above hunk k that no hunk shows.
Between(d, old, k) ==
    LET from == IF k = 1 THEN 1 ELSE d.hunks[k - 1].oldStart + d.hunks[k - 1].oldCount
        to   == IF k > Len(d.hunks) THEN Len(old) ELSE d.hunks[k].oldStart - 1
    IN SubSeq(old, from, to)

NewLines(hunk) ==
    LET lines == SelectSeq(hunk.lines, LAMBDA line : line.new # 0)
    IN [i \in DOMAIN lines |-> lines[i].token]

\* What the page shows leads from one revision to the other: the lines of the old one,
\* with each hunk's old lines replaced by its new ones, are the lines of the new one,
\* terminators included.
DiffRebuilds ==
    [][saved' # saved =>
         \A d \in Differences(saved, saved') :
            FlattenSeq([k \in DOMAIN d.hunks |->
                          Between(d, Parsed(saved), k) \o NewLines(d.hunks[k])])
              \o Between(d, Parsed(saved), Len(d.hunks) + 1) = Parsed(saved')]_vars

\* The budgets hold for what they stand for: the lines counted before parsing are the
\* lines parsed, and an answer has no more rows than the page is promised.
DiffBounded ==
    [][saved' # saved =>
         /\ \A s \in {saved, saved'} : LogicalLineCount(s) = Len(Parsed(s))
         /\ \A d \in Differences(saved, saved') :
               /\ Len(Parsed(saved)) + Len(Parsed(saved')) <= MaxLines
               /\ FoldLeft(LAMBDA n, hunk : n + Len(hunk.lines), 0, d.hunks) <= MaxRows]_vars
=================================================================================
