----------------------------- MODULE JsonColumn -----------------------------
(***************************************************************************)
(* get_json_object over a column: one GPU thread per row and path runs     *)
(* evaluate_path, all rows of a path write into one scratch buffer, each   *)
(* from the position of its input row on.  A row whose output is longer    *)
(* than its input runs into its neighbours: then the kernel is launched    *)
(* again, with room for the sizes the first launch found.                  *)
(***************************************************************************)
EXTENDS JsonPath, FiniteSets

CONSTANTS
    Columns,        \* queries: [docs, cut, paths, parallel, budget, beyond], documents and how
                    \* many of their last bytes are missing, paths, parallel_override,
                    \* memory_budget_bytes in scratch buffers (0 for none), and the byte
                    \* after the column's last one
    PathLess(_, _), \* the order of paths (that of vectors of instructions)
    padding_rows

VARIABLES
    column,     \* [rows, query]: the texts, and the query they come from
    starting,   \* starting_path: how many paths, in sorted order, are done
    batch,      \* the paths of the batch, << >> between batches
    launch,     \* 1 or 2, the kernel launch of the batch
    slots,      \* offsets: slots[k][r] is where row r of path k may write, first and last
    thread,     \* evaluation of row r for path k
    scratch,    \* output buffer of path k
    views,      \* out_stringviews: [valid, size] of row r, path k
    flagged,    \* paths with an out-of-bound write
    output,     \* texts of path k, << >> while unknown
    failure     \* the exception thrown

jsonVars == <<column, starting, batch, launch, slots, thread, scratch, views, flagged, output, failure>>

Rows == DOMAIN column.rows
paths == column.query.paths
Paths == DOMAIN paths
Null == <<"null">>
Idle == [status |-> "idle"]

\* sorted_indices.
sorted_indices ==
    SortSeq([k \in Paths |-> k], LAMBDA i, j : PathLess(paths[i], paths[j]))

text_offset(rows, r) == FoldLeft(LAMBDA n, row : n + Len(row), 0, SubSeq(rows, 1, r - 1))
slot(sizes, r) == LET first == FoldLeft(LAMBDA n, s : n + s, 0, SubSeq(sizes, 1, r - 1))
                  IN  [first |-> first, last |-> first + sizes[r] - 1]
input_sizes(rows) == [r \in DOMAIN rows |-> Len(rows[r])]

\* A mutant: no room beyond the input's size.
calc_scratch_size_unpadded(rows) == text_offset(rows, Len(rows) + 1)

\* calc_scratch_size.
calc_scratch_size(rows) ==
    text_offset(rows, Len(rows) + 1) + Max({Len(rows[r]) : r \in DOMAIN rows}) * padding_rows

blank(size) == [k \in 0 .. size - 1 |-> 0]

\* Documents are [kind, text, names, items].  Their text has gap after every
\* colon and comma, and control characters escaped or as they are.
Joined(texts) == FoldLeft(LAMBDA s, t : IF s = << >> THEN t ELSE s \o <<COMMA>> \o t, << >>, texts)

RECURSIVE Text(_, _, _)
Text(doc, gap, escaped) ==
    LET write(c) == IF c \in {QUOTE, BACKSLASH} THEN <<BACKSLASH, c>>
                    ELSE IF escaped /\ is_control(c) THEN escape_char(c) ELSE <<c>>
        spell(str) == <<QUOTE>> \o FlattenSeq([i \in DOMAIN str |-> write(str[i])]) \o <<QUOTE>>
        parts == [i \in DOMAIN doc.items |->
                    (IF doc.kind = "object" THEN gap \o spell(doc.names[i]) \o <<COLON>> \o gap ELSE gap)
                      \o Text(doc.items[i], gap, escaped)]
    IN  CASE doc.kind = "object" -> <<LBRACE>> \o Joined(parts) \o <<RBRACE>>
          [] doc.kind = "array"  -> <<LBRACKET>> \o Joined(parts) \o <<RBRACKET>>
          [] doc.kind = "string" -> spell(doc.text)
          [] doc.kind = "float"  -> IF escaped THEN double_normalization(doc.text) ELSE doc.text
          [] OTHER -> doc.text

\* The rows of a query: its documents, with control characters as they are
\* (which Spark allows), without the bytes that are cut off.
RowsOf(query) ==
    [r \in DOMAIN query.docs |->
        LET text == Text(query.docs[r], <<32>>, FALSE) IN SubSeq(text, 1, Len(text) - query.cut[r])]

JsonInit ==
    /\ \E query \in Columns : column = [rows |-> RowsOf(query), query |-> query]
    /\ starting = 0 /\ batch = << >> /\ launch = 0
    /\ slots = << >> /\ thread = << >> /\ scratch = << >> /\ views = << >>
    /\ flagged = {} /\ failure = "none"
    /\ output = [k \in DOMAIN column.query.paths |-> << >>]

\* A kernel launch: the evaluation of a non-empty row begins at its slot.
kernel(chosen, at, buffers) ==
    [k \in chosen |-> [r \in Rows |->
        IF Len(column.rows[r]) = 0 THEN Idle
        ELSE LET row == column.rows[r]
                 next == IF r < Len(column.rows) /\ column.rows[r + 1] # << >> THEN column.rows[r + 1][1]
                         ELSE column.query.beyond
             IN  new_evaluation(row, next, paths[k], buffers[k], at[k][r].first)]]

\* get_json_object's loop and get_json_object_batch up to the first launch.
start_batch ==
    LET order == sorted_indices
        query == column.query
        wanted == IF query.parallel > 0 THEN query.parallel ELSE IF query.budget > 0 THEN query.budget ELSE Len(order)
        ids == SubSeq(order, starting + 1, Min({starting + wanted, Len(order)}))
        chosen == {ids[i] : i \in DOMAIN ids}
        at == [k \in chosen |-> [r \in Rows |-> slot(input_sizes(column.rows), r)]]
        buffers == [k \in chosen |-> blank(calc_scratch_size(column.rows))]
    IN  /\ batch = << >> /\ starting < Len(order) /\ failure = "none"
        /\ IF \E k \in chosen : Len(paths[k]) > MAX_JSON_PATH_DEPTH
           THEN /\ failure' = "path too deep"
                /\ UNCHANGED <<column, starting, batch, launch, slots, thread, scratch, views, flagged, output>>
           ELSE /\ batch' = ids /\ launch' = 1
                /\ slots' = at /\ scratch' = buffers
                /\ thread' = kernel(chosen, at, buffers)
                /\ views' = [k \in chosen |-> [r \in Rows |-> [valid |-> FALSE, size |-> 0]]]
                /\ flagged' = {}
                /\ UNCHANGED <<column, starting, output, failure>>

\* One turn of evaluate_path in one thread; the buffer is the path's.
evaluate(k, r) ==
    /\ batch # << >> /\ k \in DOMAIN thread /\ thread[k][r].status = "run"
    /\ \E ev \in {evaluate_step([thread[k][r] EXCEPT !.buf = scratch[k]])} :
          /\ scratch' = [scratch EXCEPT ![k] = ev.buf]
          /\ thread' = [thread EXCEPT ![k][r] = [ev EXCEPT !.buf = << >>]]
    /\ UNCHANGED <<column, starting, batch, launch, slots, views, flagged, output, failure>>

\* The rest of get_json_object_kernel.
record_row(k, r) ==
    LET ev == thread[k][r]
    IN  /\ batch # << >> /\ k \in DOMAIN thread /\ ev.status \in {"done", "failed"}
        /\ IF ev.p.deep
           THEN failure' = "nesting too deep" /\ UNCHANGED <<views, flagged>>
           ELSE /\ failure' = IF ev.exceeded THEN "nesting too deep" ELSE failure
                /\ flagged' = IF out_size(ev) > slots[k][r].last - slots[k][r].first + 1 THEN flagged \cup {k} ELSE flagged
                /\ views' = IF launch = 1 THEN [views EXCEPT ![k][r] = [valid |-> is_valid(ev), size |-> out_size(ev)]]
                            ELSE views
        /\ thread' = [thread EXCEPT ![k][r] = Idle]
        /\ UNCHANGED <<column, starting, batch, launch, slots, scratch, output>>

AllIdle == \A k \in DOMAIN thread, r \in Rows : thread[k][r].status = "idle"

\* The strings of a path: views into its buffer.
gather(k) ==
    [r \in Rows |-> IF ~views[k][r].valid THEN Null
                    ELSE [i \in 1 .. views[k][r].size |-> scratch[k][slots[k][r].first + i - 1]]]

\* After the first launch: the paths without out-of-bound write are done, the
\* others are run again with slots of the sizes found.
finish_first ==
    LET sizes(k) == [r \in Rows |-> views[k][r].size]
        chosen == DOMAIN thread
        at == [k \in flagged |-> [r \in Rows |-> slot(sizes(k), r)]]
        buffers == [k \in flagged |-> blank(slot(sizes(k), Len(column.rows)).last + 1)]
    IN  /\ batch # << >> /\ launch = 1 /\ AllIdle /\ failure = "none"
        /\ output' = [k \in Paths |-> IF k \in chosen \ flagged THEN gather(k) ELSE output[k]]
        /\ IF flagged = {}
           THEN /\ starting' = starting + Len(batch) /\ batch' = << >> /\ launch' = 0
                /\ UNCHANGED <<slots, thread, scratch, flagged>>
           ELSE /\ launch' = 2 /\ slots' = at /\ scratch' = buffers
                /\ thread' = kernel(flagged, at, buffers)
                /\ flagged' = {}
                /\ UNCHANGED <<starting, batch>>
        /\ UNCHANGED <<column, views, failure>>

finish_second ==
    /\ batch # << >> /\ launch = 2 /\ AllIdle /\ failure = "none"
    /\ IF flagged # {} THEN failure' = "unexpected out-of-bound write" /\ UNCHANGED output
       ELSE /\ output' = [k \in Paths |-> IF k \in DOMAIN thread THEN gather(k) ELSE output[k]]
            /\ UNCHANGED failure
    /\ starting' = starting + Len(batch) /\ batch' = << >> /\ launch' = 0
    /\ UNCHANGED <<column, slots, thread, scratch, views, flagged>>

JsonNext ==
    \/ start_batch \/ finish_first \/ finish_second
    \/ \E k \in Paths, r \in Rows : evaluate(k, r) \/ record_row(k, r)

-----------------------------------------------------------------------------
(* The reference: what Spark gives for a path, by recursion over the document *)
(* as Hive's UDFJson has it.  The answer is [n, out]: how many matches count, *)
(* and the texts written, in order.                                           *)

\* The text get_json_object writes for a document.
Render(doc) == Text(doc, << >>, TRUE)

Nothing == [n |-> 0, out |-> << >>]
Bracketed(texts) == <<LBRACKET>> \o Joined(texts) \o <<RBRACKET>>

RECURSIVE Answer(_, _, _)
Answer(doc, path, style) ==
    LET all(rest, st) == FoldLeft(LAMBDA a, item : LET b == Answer(item, rest, st)
                                                   IN  [n |-> a.n + b.n, out |-> a.out \o b.out],
                                  Nothing, doc.items)
        atMost1(a) == [a EXCEPT !.n = IF @ > 0 THEN 1 ELSE 0]
        is(k, type) == path_match_element(path, k, type)
        array == doc.kind = "array"
        named == {i \in DOMAIN doc.names : doc.names[i] = path[1].name}
    IN  CASE path = << >> /\ doc.kind = "string" /\ style = "RAW" -> [n |-> 1, out |-> <<doc.text>>]
          [] path = << >> /\ array /\ style = "FLATTEN" -> atMost1(all(<< >>, style))
          [] path = << >> -> [n |-> 1, out |-> <<Render(doc)>>]
          [] doc.kind = "object" /\ is(1, "NAMED") ->
               LET found == named
               IN  IF found = {} \/ doc.items[Min(found)].kind = "null" THEN Nothing
                   ELSE Answer(doc.items[Min(found)], Tail(path), style)
          [] array /\ is(1, "WILDCARD") /\ is(2, "WILDCARD") ->
               LET a == atMost1(all(Tail(Tail(path)), "FLATTEN")) IN [a EXCEPT !.out = <<Bracketed(@)>>]
          [] array /\ is(1, "WILDCARD") /\ style = "QUOTED" ->
               LET a == atMost1(all(Tail(path), "QUOTED")) IN [a EXCEPT !.out = <<Bracketed(@)>>]
          [] array /\ is(1, "WILDCARD") ->
               LET a == all(Tail(path), IF style = "RAW" THEN "QUOTED" ELSE style)
               IN  IF a.n = 0 THEN Nothing
                   ELSE [a EXCEPT !.out = IF a.n > 1 THEN <<Bracketed(@)>> ELSE <<Joined(@)>>]
          [] array /\ is(1, "INDEX") ->
               IF path[1].index >= Len(doc.items) THEN Nothing
               ELSE Answer(doc.items[path[1].index + 1], Tail(path), IF is(2, "WILDCARD") THEN "QUOTED" ELSE style)
          [] OTHER -> Nothing

\* The whole query is answered with what the recursive reference gives for
\* each row and path on its own: null for an invalid text or a path without
\* match.  The rows of a path are written concurrently into one buffer, so an
\* overrun that is not noticed, a match moved wrongly or a batch written to
\* another path's output shows here.
ResultsAreReference ==
    (starting = Len(paths) /\ failure = "none") =>
        \A k \in Paths, r \in Rows :
            LET query == column.query
                answer == Answer(query.docs[r], paths[k], "RAW")
            IN  output[k][r] = IF query.cut[r] > 0 \/ answer.n = 0 THEN Null ELSE Joined(answer.out)

\* "so that we will not write output strings into an out-of-bound position"
\* (calc_scratch_size): the generator of a row never goes past the end of the
\* path's buffer, whatever it escapes, in either launch.
ScratchSuffices ==
    \A k \in DOMAIN thread : \A r \in DOMAIN thread[k] :
        LET ev == thread[k][r]
        IN  ev.status \in {"run", "done"} =>
                \A i \in DOMAIN ev.stack :
                    LET g == ev.stack[i].g IN ev.dst + g.offset + g.len <= Cardinality(DOMAIN scratch[k])
=============================================================================
