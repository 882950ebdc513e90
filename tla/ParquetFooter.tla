--------------------------- MODULE ParquetFooter ---------------------------
(***************************************************************************)
(* NativeParquetJni.cpp and ParquetFooter.java: the footer of a file cut   *)
(* down to the columns that are asked for and to the row groups of a split.*)
(*                                                                         *)
(* A schema is a tree flattened depth first into elements [name, leaf,     *)
(* repeated, map, kids, id]; id tells leaves apart and the code never      *)
(* reads it.  What is asked for is a tree [tag, names, items].  A pruner   *)
(* maps the path of names to each of its nodes to that node's tag.         *)
(***************************************************************************)
EXTENDS Integers, Sequences, SequencesExt, FiniteSetsExt, TLC

LowerCase == [A |-> "a", B |-> "b"]
unicode_to_lower(name) == IF name \in DOMAIN LowerCase THEN LowerCase[name] ELSE name
get_name(elem, ignore_case) == IF ignore_case THEN unicode_to_lower(elem.name) ELSE elem.name

-----------------------------------------------------------------------------
(* What is asked for: flattened by Java, a tree again behind JNI.             *)

RECURSIVE depthFirstNamesHelper(_, _, _)
depthFirstNamesHelper(se, name, lower) ==
    <<[name |-> IF lower THEN unicode_to_lower(name) ELSE name, tag |-> se.tag, num |-> Len(se.items)]>>
        \o FlattenSeq([k \in DOMAIN se.items |-> depthFirstNamesHelper(se.items[k], se.names[k], lower)])
depthFirstNames(schema, lower) ==
    FlattenSeq([k \in DOMAIN schema.items |-> depthFirstNamesHelper(schema.items[k], schema.names[k], lower)])

\* Back up the stack to a parent that expects another child.
Unwound(stack) ==
    LET open == {k \in DOMAIN stack : stack[k].left > 1}
    IN  IF open = {} THEN << >> ELSE [SubSeq(stack, 1, Max(open)) EXCEPT ![Max(open)].left = @ - 1]

\* << >> stands for the exception.
add_depth_first(flat, parent_num_children) ==
    LET add(s, e, path) == [tree  |-> s.tree @@ (path :> e.tag),
                            stack |-> IF e.num > 0 THEN Append(s.stack, [path |-> path, left |-> e.num]) ELSE Unwound(s.stack)]
        all == FoldLeft(LAMBDA s, e : add(s, e, Append(Last(s.stack).path, e.name)),
                        [tree |-> << >> :> "STRUCT", stack |-> <<[path |-> << >>, left |-> parent_num_children]>>], flat)
    IN  IF parent_num_children = 0 THEN << >> :> "STRUCT" ELSE IF all.stack = << >> THEN all.tree ELSE << >>

-----------------------------------------------------------------------------
(* filter_schema.  s: the input element i, the chunk of the next leaf, and    *)
(* what is kept: elements, their new number of children, and chunks.          *)

ThrowIn(s) == [s EXCEPT !.failed = TRUE]
KeepElement(s, kids) == [s EXCEPT !.i = @ + 1, !.schema_map = Append(@, s.i), !.num_children = Append(@, kids)]

skip(schema, s) ==
    LET step(t, k) ==
          IF t.left = 0 THEN t
          ELSE [i |-> k + 1, left |-> t.left + schema[k].kids - 1, chunk |-> IF schema[k].leaf THEN t.chunk + 1 ELSE t.chunk]
        end == FoldLeft(step, [i |-> s.i, left |-> 1, chunk |-> s.chunk], [k \in 1 .. Len(schema) - s.i + 1 |-> s.i + k - 1])
    IN  [s EXCEPT !.i = end.i, !.chunk = end.chunk]

filter_schema_value(schema, s) ==
    IF ~schema[s.i].leaf \/ schema[s.i].kids # 0 THEN ThrowIn(s)
    ELSE [KeepElement(s, 0) EXCEPT !.chunk_map = Append(@, s.chunk), !.chunk = @ + 1]

RECURSIVE filter_schema(_, _, _, _, _)

filter_schema_struct(schema, ignore_case, pruner, path, s) ==
    LET position == Len(s.schema_map) + 1
        counted(t, u) == IF ~u.failed /\ Len(u.schema_map) > Len(t.schema_map) THEN [u EXCEPT !.num_children[position] = @ + 1] ELSE u
        named(t, name) == IF Append(path, name) \in DOMAIN pruner
                          THEN counted(t, filter_schema(schema, ignore_case, pruner, Append(path, name), t))
                          ELSE skip(schema, t)
        child(t, k) == IF t.failed \/ t.i > Len(schema) THEN t ELSE named(t, get_name(schema[t.i], ignore_case))
        ended(t) == IF t.failed \/ t.num_children[position] > 0 THEN t
                    ELSE [t EXCEPT !.schema_map = Front(@), !.num_children = Front(@)]
    IN  IF schema[s.i].leaf THEN ThrowIn(s)
        ELSE ended(FoldLeft(child, KeepElement(s, 0), [k \in 1 .. schema[s.i].kids |-> k]))

filter_schema_list(schema, ignore_case, pruner, path, s) ==
    LET list == schema[s.i]
        element(t) == filter_schema(schema, ignore_case, pruner, Append(path, "element"), t)
        standard(field) == ~field.leaf /\ field.kids = 1 /\ field.name # "array" /\ field.name # list.name \o "_tuple"
        inner(t) == IF ~schema[t.i].repeated THEN ThrowIn(t)
                    ELSE IF standard(schema[t.i]) THEN element(KeepElement(t, 1)) ELSE element(t)
    IN  IF list.leaf \/ list.kids > 1
        THEN IF ~list.repeated THEN ThrowIn(s) ELSE IF list.leaf THEN filter_schema_value(schema, s) ELSE element(s)
        ELSE IF list.kids # 1 THEN ThrowIn(s) ELSE inner(KeepElement(s, 1))

filter_schema_map(schema, ignore_case, pruner, path, s) ==
    LET map == schema[s.i]
        of(name, t) == IF t.failed THEN t ELSE filter_schema(schema, ignore_case, pruner, Append(path, name), t)
        fields(t, kids) == IF kids = 2 THEN of("value", of("key", t)) ELSE of("key", t)
        inner(t, field) == IF ~field.repeated \/ field.kids \notin {1, 2} THEN ThrowIn(t)
                           ELSE fields(KeepElement(t, field.kids), field.kids)
    IN  IF map.leaf \/ ~map.map \/ map.kids # 1 THEN ThrowIn(s) ELSE inner(KeepElement(s, 1), schema[s.i + 1])

filter_schema(schema, ignore_case, pruner, path, s) ==
    CASE pruner[path] = "STRUCT" -> filter_schema_struct(schema, ignore_case, pruner, path, s)
      [] pruner[path] = "VALUE" -> filter_schema_value(schema, s)
      [] pruner[path] = "LIST" -> filter_schema_list(schema, ignore_case, pruner, path, s)
      [] pruner[path] = "MAP" -> filter_schema_map(schema, ignore_case, pruner, path, s)

column_pruning_maps(schema, ignore_case, pruner) ==
    filter_schema(schema, ignore_case, pruner, << >>,
                  [i |-> 1, chunk |-> 1, schema_map |-> << >>, num_children |-> << >>, chunk_map |-> << >>, failed |-> FALSE])

-----------------------------------------------------------------------------
(* Row groups [columns, file_offset, total, rows], total = -1 if it is not    *)
(* set; chunks [id, meta, data, dict, size], dict = -1 if there is none.      *)

invalid_file_offset(start, pre_start, pre_size) ==
    IF pre_start = 0 /\ start # 4 THEN TRUE ELSE start < pre_start + pre_size

get_offset(chunk) == IF chunk.dict >= 0 /\ chunk.data > chunk.dict THEN chunk.dict ELSE chunk.data

filter_groups(groups, part_offset, part_length) ==
    LET with_metadata == groups # << >> /\ groups[1].columns[1].meta
        corrected(s, start) == IF ~invalid_file_offset(start, s.start, s.size) THEN start
                               ELSE IF s.start = 0 THEN 4 ELSE s.start + s.size
        total(g) == IF g.total >= 0 THEN g.total ELSE FoldLeft(LAMBDA sum, chunk : sum + chunk.size, 0, g.columns)
        kept(s, g, middle) == IF middle >= part_offset /\ middle < part_offset + part_length THEN Append(s.kept, g) ELSE s.kept
        at(s, g, start) == [start |-> IF with_metadata THEN s.start ELSE start, size |-> IF with_metadata THEN s.size ELSE Max({g.total, 0}),
                            kept |-> kept(s, g, start + (total(g) \div 2))]
        step(s, g) == at(s, g, IF with_metadata THEN get_offset(g.columns[1]) ELSE corrected(s, g.file_offset))
    IN  FoldLeft(step, [start |-> 0, size |-> 0, kept |-> << >>], groups).kept

filter_columns(groups, chunk_filter) ==
    [g \in DOMAIN groups |-> [groups[g] EXCEPT !.columns = [k \in DOMAIN chunk_filter |-> groups[g].columns[chunk_filter[k]]]]]

\* A mutant: the columns are filtered first, and the groups by what is left of them.
filtered_footer_late(meta, maps, part_offset, part_length) ==
    LET pruned == filter_columns(meta.groups, maps.chunk_map)
    IN  [schema |-> [k \in DOMAIN maps.schema_map |-> [meta.schema[maps.schema_map[k]] EXCEPT !.kids = maps.num_children[k]]],
         orders |-> IF meta.orders = << >> THEN << >> ELSE [k \in DOMAIN maps.chunk_map |-> meta.orders[maps.chunk_map[k]]],
         groups |-> IF part_length >= 0 /\ maps.chunk_map # << >> THEN filter_groups(pruned, part_offset, part_length) ELSE pruned]

filtered_footer(meta, maps, part_offset, part_length) ==
    [schema |-> [k \in DOMAIN maps.schema_map |-> [meta.schema[maps.schema_map[k]] EXCEPT !.kids = maps.num_children[k]]],
     orders |-> IF meta.orders = << >> THEN << >> ELSE [k \in DOMAIN maps.chunk_map |-> meta.orders[maps.chunk_map[k]]],
     groups |-> filter_columns(IF part_length >= 0 THEN filter_groups(meta.groups, part_offset, part_length) ELSE meta.groups,
                               maps.chunk_map)]

\* The footer, or << >> for an exception.
readAndFilter(meta, part_offset, part_length, asked, ignore_case) ==
    LET mapped(pruner) == IF pruner = << >> THEN [failed |-> TRUE] ELSE column_pruning_maps(meta.schema, ignore_case, pruner)
        footer(maps) == IF maps.failed THEN << >> ELSE filtered_footer(meta, maps, part_offset, part_length)
    IN  footer(mapped(add_depth_first(depthFirstNames(asked, ignore_case), Len(asked.items))))

getNumRows(footer) == FoldLeft(LAMBDA sum, g : sum + g.rows, 0, footer.groups)
getNumColumns(footer) == IF footer.schema = << >> THEN 0 ELSE footer.schema[1].kids

-----------------------------------------------------------------------------
(* The reference, on trees: a node is an element whose kids are nodes.        *)

RECURSIVE Flattened(_)
Flattened(node) == <<[node EXCEPT !.kids = Len(@)]>> \o FlattenSeq([k \in DOMAIN node.kids |-> Flattened(node.kids[k])])

Folded(name, lower) == IF lower THEN unicode_to_lower(name) ELSE name
Asks(asked, node, lower) == {k \in DOMAIN asked.items : Folded(asked.names[k], lower) = Folded(node.name, lower)}
AskedItem(asked, node, lower) == asked.items[Min(Asks(asked, node, lower))]
AskedKids(asked, node, lower) == SelectSeq(node.kids, LAMBDA kid : Asks(asked, kid, lower) # {})

\* A list's elements are in a group of their own, unless the inner group is an old-style element.
HasMiddleGroup(list) ==
    LET inner == list.kids[1]
    IN  Len(inner.kids) = 1 /\ inner.name # "array" /\ inner.name # list.name \o "_tuple"
ElementOf(list) == IF HasMiddleGroup(list) THEN list.kids[1].kids[1] ELSE list.kids[1]

\* Whether the file has the shape that is asked for.
RECURSIVE Fits(_, _, _)
Fits(node, asked, lower) ==
    CASE asked.tag = "VALUE" -> node.leaf
      [] asked.tag = "STRUCT" -> ~node.leaf /\ \A kid \in Range(AskedKids(asked, node, lower)) : Fits(kid, AskedItem(asked, kid, lower), lower)
      [] asked.tag = "LIST" -> CASE node.leaf -> node.repeated
                                 [] Len(node.kids) > 1 -> node.repeated /\ Fits(node, asked.items[1], lower)
                                 [] Len(node.kids) = 1 -> node.kids[1].repeated /\ Fits(ElementOf(node), asked.items[1], lower)
                                 [] OTHER -> FALSE
      [] asked.tag = "MAP" -> /\ node.map /\ Len(node.kids) = 1
                              /\ node.kids[1].repeated /\ Len(node.kids[1].kids) \in {1, 2}
                              /\ \A k \in DOMAIN node.kids[1].kids : Fits(node.kids[1].kids[k], asked.items[k], lower)

Rebuilt(node, kids) == IF kids = << >> THEN << >> ELSE <<[node EXCEPT !.kids = kids]>>

\* The part of the tree that is asked for: a node, or none.
RECURSIVE Wanted(_, _, _)
Wanted(node, asked, lower) ==
    LET wanted(kids, item(_)) == FlattenSeq([k \in DOMAIN kids |-> Wanted(kids[k], item(k), lower)])
        kept == AskedKids(asked, node, lower)
        element == Wanted(ElementOf(node), asked.items[1], lower)
    IN  CASE asked.tag = "VALUE" \/ node.leaf -> <<node>>
          [] asked.tag = "STRUCT" -> Rebuilt(node, wanted(kept, LAMBDA k : AskedItem(asked, kept[k], lower)))
          [] asked.tag = "LIST" /\ Len(node.kids) > 1 -> Wanted(node, asked.items[1], lower)
          [] asked.tag = "LIST" -> Rebuilt(node, IF HasMiddleGroup(node) THEN Rebuilt(node.kids[1], element) ELSE element)
          [] asked.tag = "MAP" -> Rebuilt(node, Rebuilt(node.kids[1], wanted(node.kids[1].kids, LAMBDA k : asked.items[k])))

\* Lists and maps of structs of which no field is asked for: the code keeps the
\* groups around them, with a count of children that are not there.
RECURSIVE LosesElement(_, _, _)
LosesElement(node, asked, lower) ==
    LET lost(kid, item) == Wanted(kid, item, lower) = << >> \/ LosesElement(kid, item, lower)
    IN  CASE asked.tag = "VALUE" \/ node.leaf -> FALSE
          [] asked.tag = "STRUCT" -> \E kid \in Range(AskedKids(asked, node, lower)) : LosesElement(kid, AskedItem(asked, kid, lower), lower)
          [] asked.tag = "LIST" /\ Len(node.kids) > 1 -> LosesElement(node, asked.items[1], lower)
          [] asked.tag = "LIST" -> lost(ElementOf(node), asked.items[1])
          [] asked.tag = "MAP" -> \E k \in DOMAIN node.kids[1].kids : lost(node.kids[1].kids[k], asked.items[k])

\* Row groups by where they really are in the file: [start, size].
InSplit(place, split) ==
    split.length < 0 \/ (place.start + (place.size \div 2)) \in split.offset .. split.offset + split.length - 1
=============================================================================
