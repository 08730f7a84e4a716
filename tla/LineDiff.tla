----------------------------------- MODULE LineDiff -----------------------------------
(***************************************************************************)
(* The difference of two sources (diff.rs), and what the page demands of   *)
(* one before it shows it (decodeRevisionDiff of httpApi.ts).  The crate   *)
(* `similar` finds the edit script: Myers within two seconds, anything     *)
(* coarser after them, so that a script is any common subsequence, given   *)
(* as the set of pairs of line numbers it matches.  Rows are what the      *)
(* hunks are cut from: every line of both sources in the order shown.      *)
(***************************************************************************)
EXTENDS SourceText

CONSTANTS
    MaxBytes,  \* MAX_DIFF_INPUT_BYTES, a letter standing for one byte
    MaxLines,  \* MAX_DIFF_INPUT_LINES
    MaxRows,   \* MAX_DIFF_OUTPUT_LINES
    Context    \* DIFF_CONTEXT_LINES

ASSUME LineDiffAssumption ==
    /\ MaxBytes \in Nat /\ MaxLines \in Nat
    /\ MaxRows \in Nat /\ Context \in Nat

---------------------------------------------------------------------------------
(* Mistakes a change to the code could make, to see that the properties      *)
(* notice.                                                                   *)

\* The hunk starts where its first changed row is.
StartOfChange(rows, side, first) ==
    1 + Cardinality({k \in 1..first : rows[k][side] # 0})

\* A last line without terminator is not counted.
LineCountOfFeeds(s) == Cardinality({i \in DOMAIN Body(s) : Body(s)[i] = "LF"})

\* Lines are compared without their terminators.
SameText(a, b) == a.text = b.text

---------------------------------------------------------------------------------
\* parse_source: the lines of the body with the terminator of each.
Parsed(s) ==
    LET t == Body(s)
        starts == Ordered(LineStarts(t), <)
        Line(i) == LET whole  == SubSeq(t, i, LineEnd(t, i))
                       ending == LineEnding(whole)
                   IN [text |-> IF ending = "none" THEN whole ELSE Content(t, i),
                       ending |-> ending]
    IN <<>> \o [k \in DOMAIN starts |-> Line(starts[k])]

\* logical_line_count, taken before any line is parsed.
LogicalLineCount(s) ==
    LET feeds == Cardinality({i \in DOMAIN Body(s) : Body(s)[i] = "LF"})
    IN IF Body(s) = <<>> \/ TrailingNewline(Body(s)) THEN feeds ELSE feeds + 1

\* document_metadata.
Document(s) ==
    [hash |-> s, bom |-> HasBom(s), ending |-> LineEnding(s), newline |-> TrailingNewline(s)]

---------------------------------------------------------------------------------
(* capture_diff_slices_deadline and group_diff_ops of `similar`.             *)

SameLine(a, b) == a = b

\* Pairs of equal lines, in the same order on both sides.
Scripts(old, new) ==
    {m \in SUBSET {<<i, j>> \in (DOMAIN old) \X (DOMAIN new) : SameLine(old[i], new[j])} :
        \A p, q \in m : p # q => (p[1] < q[1] /\ p[2] < q[2]) \/ (q[1] < p[1] /\ q[2] < p[2])}

\* Line numbers of a row: <<i, j>> is context, <<i, 0>> deleted, <<0, j>> inserted.
Changed(row) == row[1] = 0 \/ row[2] = 0

\* Between two matches, what is deleted comes before what is inserted.
Before(m, r, q) ==
    LET Ahead(row) == Cardinality({p \in m : \/ row[1] # 0 /\ p[1] < row[1]
                                             \/ row[2] # 0 /\ p[2] < row[2]})
        Class(row) == IF ~Changed(row) THEN 2 ELSE IF row[2] = 0 THEN 0 ELSE 1
    IN \/ Ahead(r) < Ahead(q)
       \/ Ahead(r) = Ahead(q) /\ Class(r) < Class(q)
       \/ Ahead(r) = Ahead(q) /\ Class(r) = Class(q) /\ (r[1] < q[1] \/ r[2] < q[2])

Rows(old, new, m) ==
    LET deleted  == {<<i, 0>> : i \in {i \in DOMAIN old : \A p \in m : p[1] # i}}
        inserted == {<<0, j>> : j \in {j \in DOMAIN new : \A p \in m : p[2] # j}}
    IN Ordered(m \cup deleted \cup inserted, LAMBDA r, q : Before(m, r, q))

\* A row is shown when at most Context rows lie between it and a change.
Shown(rows) ==
    {k \in DOMAIN rows : \E c \in DOMAIN rows :
        Changed(rows[c]) /\ c \in (k - Context)..(k + Context)}

\* The first and last row of each stretch of shown rows.
Stretches(rows) ==
    LET shown == Shown(rows)
        heads == {k \in shown : k - 1 \notin shown}
    IN {<<k, Max({l \in shown : k..l \subseteq shown})>> : k \in heads}

---------------------------------------------------------------------------------
\* Lines of one side above row k, and the number the hunk starts with.
StartOf(rows, side, first) ==
    1 + Cardinality({k \in 1..(first - 1) : rows[k][side] # 0})

\* build_hunk.
Hunk(old, new, rows, first, last) ==
    LET Count(side) == Cardinality({k \in first..last : rows[k][side] # 0})
        Line(row) == [old |-> row[1], new |-> row[2],
                      token |-> IF row[1] = 0 THEN new[row[2]] ELSE old[row[1]]]
    IN [oldStart |-> StartOf(rows, 1, first), oldCount |-> Count(1),
        newStart |-> StartOf(rows, 2, first), newCount |-> Count(2),
        lines |-> [k \in 1..(last - first + 1) |-> Line(rows[first + k - 1])]]

Counted(rows, side) == Cardinality({k \in DOMAIN rows : Changed(rows[k]) /\ rows[k][side] # 0})

\* build_revision_diff_with_deadline with edit script m: a difference, or <<>> when
\* a limit is exceeded.
Diff(from, to, m) ==
    LET old  == Parsed(from)
        new  == Parsed(to)
        rows == Rows(old, new, m)
        cuts == Ordered(Stretches(rows), LAMBDA a, b : a[1] < b[1])
        documents == [from |-> Document(from), to |-> Document(to)]
    IN IF Len(from) + Len(to) > MaxBytes THEN <<>>
       ELSE IF LogicalLineCount(from) + LogicalLineCount(to) > MaxLines THEN <<>>
       ELSE IF from = to
         THEN documents @@ [identical |-> TRUE, additions |-> 0, deletions |-> 0, hunks |-> <<>>]
       ELSE IF Cardinality(Shown(rows)) > MaxRows THEN <<>>
       ELSE documents @@
            [identical |-> FALSE,
             additions |-> Counted(rows, 2), deletions |-> Counted(rows, 1),
             hunks |-> [k \in DOMAIN cuts |-> Hunk(old, new, rows, cuts[k][1], cuts[k][2])]]

---------------------------------------------------------------------------------
(* The decoder of the page.                                                  *)

\* Lines of a hunk that count on one side, and those above line k.
On(hunk, side) == {k \in DOMAIN hunk.lines : hunk.lines[k][side] # 0}

Above(hunk, side, k) == Cardinality({l \in On(hunk, side) : l < k})

ChangedLine(line) == line.old = 0 \/ line.new = 0

\* decodeDiffHunk.
DecodesHunk(hunk) ==
    /\ hunk.oldStart >= 1 /\ hunk.newStart >= 1
    /\ Len(hunk.lines) \in 1..MaxRows
    /\ \A k \in On(hunk, "old") : hunk.lines[k].old = hunk.oldStart + Above(hunk, "old", k)
    /\ \A k \in On(hunk, "new") : hunk.lines[k].new = hunk.newStart + Above(hunk, "new", k)
    /\ \E k \in DOMAIN hunk.lines : ChangedLine(hunk.lines[k])
    /\ Cardinality(On(hunk, "old")) = hunk.oldCount
    /\ Cardinality(On(hunk, "new")) = hunk.newCount

\* Inserted or deleted lines of all hunks together.
LinesOf(hunks, side) ==
    FoldLeft(LAMBDA n, hunk : n + Cardinality({k \in On(hunk, side) : ChangedLine(hunk.lines[k])}),
             0, hunks)

\* decodeRevisionDiff.
DecodesDiff(d) ==
    LET total == FoldLeft(LAMBDA n, hunk : n + Len(hunk.lines), 0, d.hunks) IN
    /\ d.additions <= MaxRows /\ d.deletions <= MaxRows /\ total <= MaxRows
    /\ \A k \in DOMAIN d.hunks : DecodesHunk(d.hunks[k])
    /\ LinesOf(d.hunks, "new") = d.additions
    /\ LinesOf(d.hunks, "old") = d.deletions
    /\ \A k \in 1..(Len(d.hunks) - 1) :
          /\ d.hunks[k + 1].oldStart >= d.hunks[k].oldStart + d.hunks[k].oldCount
          /\ d.hunks[k + 1].newStart >= d.hunks[k].newStart + d.hunks[k].newCount
    /\ d.identical = (d.from.hash = d.to.hash)
    /\ d.identical => d.from = d.to /\ d.additions = 0 /\ d.deletions = 0 /\ d.hunks = <<>>
=================================================================================
