------------------------------ MODULE JsonPath ------------------------------
(***************************************************************************)
(* evaluate_path of get_json_object.cu: one pass over a JSON text by a     *)
(* stack of contexts, writing into the output buffer as it goes.           *)
(*                                                                         *)
(* A path is a sequence of [type, name, index], type "NAMED", "INDEX" or   *)
(* "WILDCARD".  The buffer is a function from positions to bytes, shared   *)
(* by all rows.  An evaluation is [p, stack, buf, dst, status, exceeded]:  *)
(* parser, contexts, buffer, where the row's output begins, "run", "done"  *)
(* or "failed" (return {false, 0}), and max_path_depth_exceeded.           *)
(***************************************************************************)
EXTENDS JsonParser

CONSTANT MAX_JSON_PATH_DEPTH

\* json_generator.
new_generator(offset) == [offset |-> offset, len |-> 0, depth |-> 0, empty |-> TRUE]

\* Bytes of text at the end of what g has written.
write_at(buf, pos, text) ==
    [k \in DOMAIN buf |-> IF k \in pos .. pos + Len(text) - 1 THEN text[k - pos + 1] ELSE buf[k]]

\* [g, buf] after a write.
written(g, buf, dst, text) ==
    [g |-> [g EXCEPT !.len = @ + Len(text)], buf |-> write_at(buf, dst + g.offset + g.len, text)]

need_comma(g) == g.depth > 0 /\ ~g.empty
comma_if_needed(g) == IF need_comma(g) THEN <<COMMA>> ELSE << >>
not_empty(g) == [g EXCEPT !.empty = IF g.depth > 0 THEN FALSE ELSE @]

write_start_array(g, buf, dst) ==
    written([g EXCEPT !.depth = @ + 1, !.empty = TRUE], buf, dst, comma_if_needed(g) \o <<LBRACKET>>)
write_end_array(g, buf, dst) ==
    written([g EXCEPT !.depth = @ - 1, !.empty = FALSE], buf, dst, <<RBRACKET>>)

\* A mutant: the end of the block is not moved behind a comma.
write_child_raw_value_commaless(g, buf, dst, child, outer) ==
    LET block == [k \in 1 .. child.len |-> buf[dst + child.offset + k - 1]]
        brackets(text) == IF outer THEN <<LBRACKET>> \o text \o <<RBRACKET>> ELSE text
    IN  written(g, buf, dst, comma_if_needed(g) \o brackets(IF need_comma(g) THEN Tail(block) ELSE block))

\* The child wrote directly after the parent: its block moves by what is put
\* before it, a comma and the bracket of an outer array.
write_child_raw_value(g, buf, dst, child, outer) ==
    LET block == [k \in 1 .. child.len |-> buf[dst + child.offset + k - 1]]
        brackets(text) == IF outer THEN <<LBRACKET>> \o text \o <<RBRACKET>> ELSE text
    IN  written(not_empty(g), buf, dst, comma_if_needed(g) \o brackets(block))

-----------------------------------------------------------------------------

\* push_context; beyond MAX_JSON_PATH_DEPTH it only leaves a mark.
push(ev, case, g, style, path) ==
    IF Len(ev.stack) > MAX_JSON_PATH_DEPTH THEN [ev EXCEPT !.exceeded = TRUE]
    ELSE [ev EXCEPT !.stack = Append(@,
            [g |-> g, child_g |-> new_generator(0), path |-> path, dirty |-> 0, case |-> case,
             token |-> ev.p.token, style |-> style, first |-> TRUE, done |-> FALSE])]

fail(ev) == [ev EXCEPT !.status = "failed"]
top(ev) == Last(ev.stack)
update(ev, ctx) == [ev EXCEPT !.stack = Append(Front(@), ctx)]

new_evaluation(chars, beyond, path, buf, dst) ==
    LET begun(ev) == IF ev.p.token = "ERROR" THEN fail(ev)
                     ELSE push(ev, "ROOT", new_generator(0), "RAW", path)
    IN  begun([p |-> next_token(new_parser(chars, beyond)), stack |-> << >>, buf |-> buf, dst |-> dst,
               status |-> "run", exceeded |-> FALSE])

\* The context has written w and is done.
finish(ev, w, dirty) ==
    update([ev EXCEPT !.buf = w.buf], [top(ev) EXCEPT !.g = w.g, !.dirty = dirty, !.done = TRUE])

\* Case paths 1 and 3.
write_raw(ev) ==
    finish(ev, written(not_empty(top(ev).g), ev.buf, ev.dst, write_unescaped_text(ev.p)), 1)

copy_structure(ev) ==
    LET after(copy, w) == IF copy.ok THEN finish([ev EXCEPT !.p = copy.p], w, 1)
                          ELSE fail([ev EXCEPT !.p = copy.p, !.buf = w.buf])
        copied(copy, g) == after(copy, written(not_empty(g), ev.buf, ev.dst, comma_if_needed(g) \o copy.out))
    IN  copied(copy_current_structure(ev.p), top(ev).g)

\* Case paths 2, 5 and 7: the elements of an array go to the same generator,
\* in an array of its own for 5 and 7.
each_element(ev, case, style, drop, own_array) ==
    LET after(now, ctx) ==
          IF now.p.token = "END_ARRAY"
          THEN finish(now, IF own_array THEN write_end_array(ctx.g, now.buf, now.dst)
                           ELSE [g |-> ctx.g, buf |-> now.buf], ctx.dirty)
          ELSE IF now.p.token = "ERROR" THEN fail(now)
          ELSE push(now, case, ctx.g, style, SubSeq(ctx.path, drop + 1, Len(ctx.path)))
        moved(now) == after(now, top(now))
        opened(ctx, w) == moved(update([ev EXCEPT !.p = next_token(@), !.buf = w.buf],
                                       [ctx EXCEPT !.g = w.g, !.first = FALSE]))
        begun(ctx) == opened(ctx, IF own_array /\ ctx.first THEN write_start_array(ctx.g, ev.buf, ev.dst)
                                  ELSE [g |-> ctx.g, buf |-> ev.buf])
    IN  begun(top(ev))

\* Past all fields of an object from the current token on.
RECURSIVE skip_fields(_)
skip_fields(p) ==
    LET skip(q, skipped) == IF skipped.ok THEN skip_fields(skipped.p) ELSE [ok |-> FALSE, p |-> q]
        next(q) == IF q.token = "END_OBJECT" THEN [ok |-> TRUE, p |-> q]
                   ELSE IF q.token = "ERROR" THEN [ok |-> FALSE, p |-> q]
                   ELSE skip(q, try_skip_children(next_token(q)))
    IN  next(next_token(p))

\* [ok, p, found]: at the value of the first field with the name, or at the
\* end of the object.
RECURSIVE find_field(_, _)
find_field(p, name) ==
    LET answer(ok, r, found) == [ok |-> ok, p |-> r, found |-> found]
        skip(value, skipped) == IF skipped.ok THEN find_field(skipped.p, name) ELSE answer(FALSE, value, FALSE)
        field(matched, value) ==
          IF value.token = "ERROR" THEN answer(FALSE, value, FALSE)
          ELSE IF matched THEN answer(TRUE, value, TRUE) ELSE skip(value, try_skip_children(value))
        next(q) == CASE q.token = "END_OBJECT" -> answer(TRUE, q, FALSE)
                     [] q.token = "ERROR" -> answer(FALSE, q, FALSE)
                     [] OTHER -> field(q.matched, next_token(q))
    IN  next(parse_next_token_and_set_current(p, name))

\* Case path 4.  The rest of the object is skipped only after a match that
\* wrote something; a null under the name ends the whole evaluation.
named_field(ev) ==
    LET leave(ctx, skip) ==
          IF skip.ok THEN update([ev EXCEPT !.p = skip.p], [ctx EXCEPT !.done = TRUE]) ELSE fail(ev)
        entered(ctx, find) ==
          update([ev EXCEPT !.p = find.p], [ctx EXCEPT !.first = FALSE, !.done = ~find.found])
        enter(ctx, find) ==
          IF ~find.ok \/ (find.found /\ find.p.token = "VALUE_NULL") THEN fail(ev)
          ELSE IF find.found THEN push(entered(ctx, find), "NAMED", ctx.g, ctx.style, Tail(ctx.path))
          ELSE entered(ctx, find)
        step(ctx) == IF ctx.first THEN enter(ctx, find_field(ev.p, ctx.path[1].name))
                     ELSE IF ctx.dirty = 0 THEN leave(ctx, [ok |-> TRUE, p |-> ev.p])
                     ELSE leave(ctx, skip_fields(ev.p))
    IN  step(top(ev))

\* Case path 6: matches are collected by a child generator; they become an
\* array only when there is more than one.
wildcard(ev) ==
    LET after(now, ctx, child) ==
          IF now.p.token = "END_ARRAY"
          THEN IF ctx.dirty = 0 THEN update(now, [ctx EXCEPT !.done = TRUE])
               ELSE finish(now, write_child_raw_value(ctx.g, now.buf, now.dst, child, ctx.dirty > 1), ctx.dirty)
          ELSE IF now.p.token = "ERROR" THEN fail(now)
          ELSE push(now, "WILDCARD", child, IF ctx.style = "RAW" THEN "QUOTED" ELSE ctx.style, Tail(ctx.path))
        moved(now, child) == after(now, top(now), child)
        begun(ctx) == moved(update([ev EXCEPT !.p = next_token(@)], [ctx EXCEPT !.first = FALSE]),
                            IF ctx.first THEN [new_generator(ctx.g.offset + ctx.g.len) EXCEPT !.depth = 1]
                            ELSE ctx.child_g)
    IN  begun(top(ev))

\* The i-th element from here; running out of elements fails.
RECURSIVE skip_elements(_, _)
skip_elements(p, i) ==
    LET skip(skipped) == IF skipped.ok THEN skip_elements(next_token(skipped.p), i - 1) ELSE skipped
    IN  IF p.token = "ERROR" THEN [ok |-> FALSE, p |-> p]
        ELSE IF i = 0 THEN [ok |-> TRUE, p |-> p]
        ELSE IF p.token = "END_ARRAY" THEN [ok |-> FALSE, p |-> p] ELSE skip(try_skip_children(p))

\* Case paths 8 and 9.
indexed_element(ev, style) ==
    LET enter(ctx, at) ==
          IF ~at.ok THEN fail(ev)
          ELSE push(update([ev EXCEPT !.p = at.p], [ctx EXCEPT !.first = FALSE]), "INDEX", ctx.g, style, Tail(ctx.path))
    IN  enter(top(ev), skip_elements(next_token(ev.p), top(ev).path[1].index))

no_match(ev) ==
    LET leave(skipped) ==
          IF skipped.ok THEN update([ev EXCEPT !.p = skipped.p], [top(ev) EXCEPT !.dirty = 0, !.done = TRUE])
          ELSE fail(ev)
    IN  leave(try_skip_children(ev.p))

\* The case of a context that is not done.
path_match_element(path, k, type) == Len(path) >= k /\ path[k].type = type

evaluate_case(ev) ==
    LET ctx == top(ev)
        array == ctx.token = "START_ARRAY"
        at(k, type) == path_match_element(ctx.path, k, type)
        raw == ctx.token = "VALUE_STRING" /\ ctx.style = "RAW"
        flat == array /\ ctx.style = "FLATTEN"
        wild == array /\ at(1, "WILDCARD")
    IN  CASE ctx.path = << >> /\ raw -> write_raw(ev)
          [] ctx.path = << >> /\ flat -> each_element(ev, "FLATTEN", ctx.style, 0, FALSE)
          [] ctx.path = << >> /\ ~raw /\ ~flat -> copy_structure(ev)
          [] ctx.token = "START_OBJECT" /\ at(1, "NAMED") -> named_field(ev)
          [] wild /\ at(2, "WILDCARD") -> each_element(ev, "EACH", "FLATTEN", 2, TRUE)
          [] wild /\ ~at(2, "WILDCARD") /\ ctx.style # "QUOTED" -> wildcard(ev)
          [] wild /\ ~at(2, "WILDCARD") /\ ctx.style = "QUOTED" -> each_element(ev, "EACH", "QUOTED", 1, TRUE)
          [] array /\ at(1, "INDEX") -> indexed_element(ev, IF at(2, "WILDCARD") THEN "QUOTED" ELSE ctx.style)
          [] OTHER -> no_match(ev)

\* Past the rest of an array.
RECURSIVE skip_rest(_)
skip_rest(p) ==
    LET skip(skipped) == IF skipped.ok THEN skip_rest(skipped.p) ELSE skipped
        next(q) == IF q.token = "END_ARRAY" THEN [ok |-> TRUE, p |-> q]
                   ELSE IF q.token = "ERROR" THEN [ok |-> FALSE, p |-> q] ELSE skip(try_skip_children(q))
    IN  next(next_token(p))

\* A context that is done is taken off the stack and tells its parent.
return_to_parent(ev) ==
    LET ctx == top(ev)
        rest == [ev EXCEPT !.stack = Front(@)]
        parent == top(rest)
        skip(skipped) ==
          IF skipped.ok
          THEN update([rest EXCEPT !.p = skipped.p],
                      [parent EXCEPT !.dirty = @ + ctx.dirty, !.g = ctx.g, !.done = TRUE])
          ELSE fail(ev)
    IN  IF Len(ev.stack) = 1 THEN [ev EXCEPT !.status = "done"]
        ELSE CASE ctx.case \in {"FLATTEN", "EACH"} ->
                    update(rest, [parent EXCEPT !.dirty = IF @ + ctx.dirty > 0 THEN 1 ELSE 0, !.g = ctx.g])
               [] ctx.case = "NAMED" -> update(rest, [parent EXCEPT !.dirty = ctx.dirty, !.g = ctx.g])
               [] ctx.case = "WILDCARD" -> update(rest, [parent EXCEPT !.dirty = @ + ctx.dirty, !.child_g = ctx.g])
               [] ctx.case = "INDEX" -> skip(skip_rest(ev.p))

\* One turn of the loop of evaluate_path.
evaluate_step(ev) == IF top(ev).done THEN return_to_parent(ev) ELSE evaluate_case(ev)

\* What it returns: a context left on the stack is the root.
is_valid(ev) == ev.status = "done" /\ ev.stack[1].dirty > 0
out_size(ev) == IF is_valid(ev) THEN ev.stack[1].g.len ELSE 0
=============================================================================
