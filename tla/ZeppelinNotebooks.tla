------------------------- MODULE ZeppelinNotebooks -------------------------
(***************************************************************************)
(* list_notebooks: the entries of Zeppelin's flat list, read one after the *)
(* other into a tree of folders.  A path is the sequence of its non-empty  *)
(* segments.  A tree is the sequence of its nodes' paths, in the order in  *)
(* which they were made, and the notebook each of them carries.            *)
(***************************************************************************)
EXTENDS Integers, Sequences, SequencesExt, FiniteSets, FiniteSetsExt

CONSTANTS
  Segments,    \* names of folders and notebooks
  MaxDepth,    \* bound: segments of a path
  MaxEntries   \* bound: entries of the list

VARIABLES
  listed,    \* what Zeppelin lists; an entry's id is its position
  read,      \* entries read so far
  tree       \* what has been built of them

vars == <<listed, read, tree>>

Paths == BoundedSeq(Segments, MaxDepth)

\* An entry without an id or a path is skipped, and so is the path "/".
Entries == [readable : BOOLEAN, path : Paths]
Upto(path) == {SubSeq(path, 1, n) : n \in 1..Len(path)}
NodesOf(t) == ToSet(t.order)

Init ==
  /\ listed \in BoundedSeq(Entries, MaxEntries)
  /\ read = 0
  /\ tree = [order |-> <<>>, id |-> [p \in {} |-> 0]]

\* Segments of a path on whose way all folders are there.
Found(t, path) == Max({0} \cup {n \in 1..Len(path) : SubSeq(path, 1, n) \in NodesOf(t)})

\* The nodes below them, which the loop makes: a new folder has none.
Missing(t, path) ==
  [k \in 1..(Len(path) - Found(t, path)) |-> SubSeq(path, 1, Found(t, path) + k)]

\* Variant: the id is written down at every segment of the path.
InsertEverywhere(t, path, id) ==
  [order |-> t.order \o Missing(t, path),
   id |-> [p \in NodesOf(t) \cup Upto(path) |->
             IF p \in Upto(path) THEN id ELSE t.id[p]]]

\* The loop of build_notebook_tree; 0: a node that carries no notebook.
Insert(t, path, id) ==
  [order |-> t.order \o Missing(t, path),
   id |-> [p \in NodesOf(t) \cup Upto(path) |->
             IF p = path THEN id ELSE IF p \in NodesOf(t) THEN t.id[p] ELSE 0]]

ReadEntry ==
  /\ read < Len(listed)
  /\ read' = read + 1
  /\ LET entry == listed[read + 1]
     IN  tree' = IF entry.readable /\ entry.path # <<>> THEN Insert(tree, entry.path, read + 1)
                 ELSE tree
  /\ UNCHANGED listed

Next == ReadEntry
Spec == Init /\ [][Next]_vars

-----------------------------------------------------------------------------
Taken == {i \in 1..read : listed[i].readable /\ listed[i].path # <<>>}

(* A listed path leads to the last notebook that is listed with it, also where
   a notebook is named like a folder that holds others, and a node whose path
   is not listed leads to none: of the notebooks that share a path all but the
   last are lost, and nothing else is. *)
LastNotebookFound ==
  /\ \A i \in Taken : listed[i].path \in NodesOf(tree)
  /\ \A p \in NodesOf(tree) : tree.id[p] = Max({0} \cup {i \in Taken : listed[i].path = p})

(* Stronger, and broken by two notebooks with one path (build_notebook_tree
   writes the id of the second over that of the first). *)
EveryNotebookFound == \A i \in Taken : tree.id[listed[i].path] = i

(* Every folder on the way to a node is there, once, and was made before it. *)
FoldersComplete ==
  \A i \in DOMAIN tree.order :
    /\ \A n \in 1..(Len(tree.order[i]) - 1) :
         \E j \in 1..(i - 1) : tree.order[j] = SubSeq(tree.order[i], 1, n)
    /\ \A j \in 1..(i - 1) : tree.order[j] # tree.order[i]
=============================================================================
