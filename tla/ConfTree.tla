------------------------------ MODULE ConfTree ------------------------------
(***************************************************************************)
(* yaml_conf.c: a configuration file is read into a tree of ConfNodes,     *)
(* which the reload functions then look values up in.                      *)
(*                                                                         *)
(* A tree is the sequence of its nodes in the order they were appended,    *)
(* each with the place of its parent in that sequence; 0 is the root.      *)
(* libyaml (external) turns a file into events.  ConfYamlParse calls       *)
(* itself for every sequence and mapping; its frames are kept in a stack.  *)
(* Nothing sets allow_override to 0, and memory does not run out.          *)
(***************************************************************************)
EXTENDS Integers, Sequences, SequencesExt

CONSTANT Mangle(_)      \* a key with its underscores replaced

NULL == "NULL"
None == -1

EmptyTree == <<>>

ConfNode(parent, name, val, is_seq) ==
    [parent |-> parent, name |-> name, val |-> val, is_seq |-> is_seq]

-----------------------------------------------------------------------------
(* Looking up *)

Children(tree, n) == SelectSeq([k \in DOMAIN tree |-> k], LAMBDA k : tree[k].parent = n)

(* The first child of that name. *)
ConfNodeLookupChild(tree, n, name) ==
    LET same == SelectSeq(Children(tree, n), LAMBDA k : tree[k].name = name)
    IN  IF same = <<>> THEN None ELSE Head(same)

(* A dotted name is the sequence of its parts. *)
ConfGetNode(tree, path) ==
    FoldLeft(LAMBDA n, name : IF n = None THEN None ELSE ConfNodeLookupChild(tree, n, name), 0, path)

(* Not found, or a value, which is NULL at a node that never got one. *)
NotFound == "not found"

ConfGet(tree, path) ==
    LET n == ConfGetNode(tree, path) IN IF n = None THEN NotFound ELSE tree[n].val

(* What the loops over a list see: each item's value and its named children. *)
Items(tree, key) ==
    LET n == ConfGetNode(tree, <<key>>)
        item(k) == [val |-> tree[k].val,
                    subs |-> [j \in DOMAIN Children(tree, k) |->
                                 LET c == tree[Children(tree, k)[j]] IN <<c.name, c.val>>]]
    IN  IF n = None THEN <<>>
        ELSE [j \in DOMAIN Children(tree, n) |-> item(Children(tree, n)[j])]

-----------------------------------------------------------------------------
(* Reading a file *)

(* A call of ConfYamlParse: the node it fills, the node of the last key,     *)
(* whether a key comes next, the number of the next item, and inseq.         *)
Frame(n, inseq) == [parent |-> n, node |-> n, state |-> "key", idx |-> 0, inseq |-> inseq]

Start(tree) == [tree |-> tree, stack |-> <<Frame(0, FALSE)>>]

LOCAL Top(st)       == Head(st.stack)
LOCAL SetTop(st, f) == [st EXCEPT !.stack = <<f>> \o Tail(st.stack)]
LOCAL Push(st, f)   == [st EXCEPT !.stack = <<f>> \o st.stack]

(* A scalar in a sequence is an item of its own. *)
SeqItem(st, v) ==
    LET f == Top(st)
    IN  [SetTop(st, [f EXCEPT !.idx = @ + 1])
            EXCEPT !.tree = Append(@, ConfNode(f.parent, ToString(f.idx), v, FALSE))]

(* The first key of an item becomes the item's value. *)
NameItem(tree, n, v) ==
    IF n # 0 /\ tree[n].is_seq /\ tree[n].val = NULL
    THEN [tree EXCEPT ![n].val = Mangle(v)] ELSE tree

always_new_Key(st, v) ==
    LET f == Top(st)
        tree == NameItem(st.tree, f.parent, v)
    IN  [SetTop(st, [f EXCEPT !.node = Len(tree) + 1, !.state = "val"])
                 EXCEPT !.tree = Append(tree, ConfNode(f.parent, Mangle(v), NULL, FALSE))]

(* A key: the node of that name is used again.  It is looked for under the   *)
(* name in the file, but stored under the mangled one.                       *)
Key(st, v) ==
    LET f == Top(st)
        tree == NameItem(st.tree, f.parent, v)
        n0 == ConfNodeLookupChild(tree, f.parent, v)
    IN  IF n0 # None
        THEN [SetTop(st, [f EXCEPT !.node = n0, !.state = "val"]) EXCEPT !.tree = tree]
        ELSE [SetTop(st, [f EXCEPT !.node = Len(tree) + 1, !.state = "val"])
                 EXCEPT !.tree = Append(tree, ConfNode(f.parent, Mangle(v), NULL, FALSE))]

Value(st, v) ==
    LET f == Top(st)
    IN  [SetTop(st, [f EXCEPT !.state = "key"]) EXCEPT !.tree[f.node].val = v]

(* A mapping in a sequence gets a node of its own. *)
MappingStart(st) ==
    LET f == Top(st)
    IN  IF f.inseq
        THEN Push([SetTop(st, [f EXCEPT !.idx = @ + 1, !.state = "key"])
                      EXCEPT !.tree = Append(@, ConfNode(f.node, ToString(f.idx), NULL, TRUE))],
                  Frame(Len(st.tree) + 1, FALSE))
        ELSE Push(SetTop(st, [f EXCEPT !.state = "key"]), Frame(f.node, FALSE))

SequenceStart(st) ==
    Push(SetTop(st, [Top(st) EXCEPT !.state = "key"]), Frame(Top(st).node, TRUE))

(* One turn of the loop of ConfYamlParse. *)
ConfYamlParse(st, e) ==
    CASE e.type = "scalar" ->
             (IF Top(st).inseq THEN SeqItem(st, e.value)
              ELSE IF Top(st).state = "key" THEN Key(st, e.value) ELSE Value(st, e.value))
      [] e.type = "map_start" -> MappingStart(st)
      [] e.type = "seq_start" -> SequenceStart(st)
      [] e.type \in {"map_end", "seq_end"} -> [st EXCEPT !.stack = Tail(@)]
      [] OTHER -> st

(* The tree after the first n events; a file that is not read to its end     *)
(* leaves what was read so far.                                              *)
ConfYamlLoadFile(tree, events, n) == FoldLeft(ConfYamlParse, Start(tree), SubSeq(events, 1, n)).tree

-----------------------------------------------------------------------------
(* Files (external): a sequence of keys, each with a scalar, a mapping of    *)
(* scalars or a list of such mappings, and the events libyaml makes of it.   *)
Event(t, v) == [type |-> t, value |-> v]

PairEvents(pairs) ==
    FlattenSeq([j \in DOMAIN pairs |-> <<Event("scalar", pairs[j][1]), Event("scalar", pairs[j][2])>>])

MapEvents(pairs) == <<Event("map_start", "")>> \o PairEvents(pairs) \o <<Event("map_end", "")>>

EntryEvents(e) ==
    <<Event("scalar", e.key)>> \o
        CASE e.kind = "scalar" -> <<Event("scalar", e.val)>>
          [] e.kind = "map"    -> MapEvents(e.val)
          [] e.kind = "list"   -> <<Event("seq_start", "")>>
                                      \o FlattenSeq([j \in DOMAIN e.val |-> MapEvents(e.val[j])])
                                      \o <<Event("seq_end", "")>>

Events(doc) ==
    <<Event("document_start", ""), Event("map_start", "")>>
        \o FlattenSeq([j \in DOMAIN doc |-> EntryEvents(doc[j])])
        \o <<Event("map_end", ""), Event("stream_end", "")>>

(* What a file says, without any tree: the reference for the reader above. *)
DocEntries(doc, key) == SelectSeq(doc, LAMBDA e : Mangle(e.key) = key)

DocScalar(doc, path) ==
    LET es == DocEntries(doc, path[1])
        subs == IF es = <<>> THEN <<>>
                ELSE IF Len(path) = 1 THEN << <<path[1], es[1].val>> >>
                ELSE SelectSeq(es[1].val, LAMBDA s : Mangle(s[1]) = path[2])
    IN  IF subs = <<>> THEN NotFound ELSE subs[1][2]

DocItems(doc, key) ==
    LET es == DocEntries(doc, key)
        item(m) == [val |-> Mangle(m[1][1]), subs |-> [j \in DOMAIN m |-> <<Mangle(m[j][1]), m[j][2]>>]]
    IN  IF es = <<>> THEN <<>> ELSE [j \in DOMAIN es[1].val |-> item(es[1].val[j])]
=============================================================================
