---------------------------- MODULE DolphinPages ----------------------------
(***************************************************************************)
(* list_objects and search_objects of DolphinSchedulerStatusService, used  *)
(* the way their answers invite to: a caller walks from page to page while *)
(* an answer says truncated, and takes what it was shown for the whole     *)
(* collection when one does not.  Objects come and go on the server        *)
(* between two calls.                                                      *)
(*                                                                         *)
(* An object is its number and whether the adapter can read it: it drops   *)
(* one that has no integer code or id.  The fields of a summary play no    *)
(* part.  "project" stands for the two types the server lists in one piece *)
(* (project, workflow), "node" for the three it lists in pages.            *)
(***************************************************************************)
EXTENDS Integers, Sequences, SequencesExt, FiniteSets, Orders

CONSTANTS
  DefaultPageSize,    \* default_page_size
  MaxPageSize,        \* max_page_size
  MaxDetailItems,     \* max_detail_items
  Asked,              \* page sizes callers give; 0: none given, or one below 1
  MaxObjects,         \* bound: objects that ever exist
  MaxPages            \* bound: pages asked for in one walk

VARIABLES
  objects,     \* what the server holds, in its order
  walk,        \* the walk: what was asked for and what has been shown
  created      \* objects that have existed, to number the next

vars == <<objects, walk, created>>

Operations == {"list_objects", "search_objects"}
Types == {"project", "node"}

Smaller(m, n) == IF m < n THEN m ELSE n
First(n, s) == SubSeq(s, 1, Smaller(n, Len(s)))

-----------------------------------------------------------------------------
(* The adapter and the service. *)

\* The entries of an answer that have an integer code or id.
Readable == [id : Nat, readable : {TRUE}]
Parsed(items) == Picked(items, Readable)

\* What a summary keeps of an object: here, which one it is.
Summaries(items) == [i \in DOMAIN items |-> items[i].id]

CappedPageSize(asked) ==
  IF asked < 1 THEN DefaultPageSize ELSE Smaller(asked, MaxPageSize)

\* The entries the server selects for a request with pageNo and pageSize.
ServerPage(pageNo, size) ==
  SubSeq(objects, (pageNo - 1) * size + 1, Smaller(pageNo * size, Len(objects)))

\* A page as the adapter reads it; a total that is no integer counts as 0.
ParsePage(items, counts) ==
  [items |-> Parsed(items), total |-> IF counts THEN Len(objects) ELSE 0]

Answer(items, size, total, truncated) ==
  [items |-> Summaries(First(MaxDetailItems, items)), size |-> size, total |-> total,
   truncated |-> truncated, cut |-> Len(items) > MaxDetailItems]

\* A collection the server returned in one piece.
Unpaginated(size) ==
  LET items == Parsed(objects)
  IN  Answer(items, size, Len(items), Len(items) > MaxDetailItems)

\* Variant: a page that is exactly full is taken for the last.
PagedOffByOne(pageNo, size, counts) ==
  LET page == ParsePage(ServerPage(pageNo, size), counts)
  IN  Answer(page.items, size, page.total, page.total > (pageNo + 1) * size)

\* A collection the server returned one page of.
Paged(pageNo, size, counts) ==
  LET page == ParsePage(ServerPage(pageNo, size), counts)
  IN  Answer(page.items, size, page.total, page.total > pageNo * size)

ListObjects(type, pageNo, size, counts) ==
  IF type = "project" THEN Unpaginated(size) ELSE Paged(pageNo, size, counts)

SearchObjects(pageNo, size, counts) == Paged(pageNo, size, counts)

Page(operation, type, pageNo, asked, counts) ==
  LET size == CappedPageSize(asked)
  IN  IF operation = "list_objects" THEN ListObjects(type, pageNo, size, counts)
      ELSE SearchObjects(pageNo, size, counts)

-----------------------------------------------------------------------------
(* The walk.  extent is the number of objects at the last answer, steady says
   that objects only came at the end, counted that every answer had a total,
   lost that max_detail_items cut an answer. *)

NewWalk(operation, type, asked) ==
  [operation |-> operation, type |-> type, asked |-> asked, next |-> 1, shown |-> <<>>,
   size |-> 0, got |-> 0, cut |-> FALSE, more |-> TRUE, extent |-> 0, steady |-> TRUE,
   counted |-> TRUE, lost |-> FALSE]

Init ==
  /\ objects = <<>>
  /\ created = 0
  /\ walk \in {NewWalk(op, type, asked) : op \in Operations, type \in Types, asked \in Asked}

StartWalk(operation, type, asked) ==
  /\ walk' = NewWalk(operation, type, asked)
  /\ UNCHANGED <<objects, created>>

NextPage(counts) ==
  /\ walk.more /\ walk.next <= MaxPages
  /\ LET answer == Page(walk.operation, walk.type, walk.next, walk.asked, counts)
     IN  walk' = [walk EXCEPT !.next = @ + 1, !.shown = @ \o answer.items,
                              !.size = answer.size, !.got = Len(answer.items), !.cut = answer.cut,
                              !.more = answer.truncated, !.extent = Len(objects),
                              !.counted = @ /\ counts, !.lost = @ \/ answer.cut]
  /\ UNCHANGED <<objects, created>>

\* An object appears at one end of the server's order.
Appears(readable, atEnd) ==
  LET o == [id |-> created + 1, readable |-> readable]
  IN  /\ created < MaxObjects
      /\ created' = created + 1
      /\ objects' = IF atEnd THEN Append(objects, o) ELSE <<o>> \o objects
      /\ walk' = [walk EXCEPT !.steady = @ /\ atEnd]

Vanishes(i) ==
  /\ objects' = RemoveAt(objects, i)
  /\ walk' = [walk EXCEPT !.steady = FALSE]
  /\ UNCHANGED created

Next ==
  \/ \E op \in Operations, type \in Types, asked \in Asked : StartWalk(op, type, asked)
  \/ \E counts \in BOOLEAN : NextPage(counts)
  \/ \E readable, atEnd \in BOOLEAN : Appears(readable, atEnd)
  \/ \E i \in 1..Len(objects) : Vanishes(i)

Spec == Init /\ [][Next]_vars

-----------------------------------------------------------------------------
Done == ~walk.more

(* A caller who follows the pages until one is not truncated has been shown
   every readable object, once and in order, also when objects were added at
   the end meanwhile: no object falls between two pages, and truncated is
   FALSE on the last page and on no page before it.  The one thing that may
   come between is max_detail_items, when it cuts a page, and the caller is
   not told of it (CutIsTold). *)
WalkComplete ==
  Done /\ walk.steady /\ walk.counted /\ ~walk.lost
    => walk.shown = Summaries(Parsed(SubSeq(objects, 1, walk.extent)))

(* An answer holds no more objects than the page size it reports. *)
PageBounded == walk.got <= walk.size

(* An answer that max_detail_items has cut says that it is truncated. *)
CutIsTold == walk.cut => walk.more

(* No page size a caller gives makes a page larger than max_page_size. *)
SizeCapped == walk.asked >= 1 => walk.size <= MaxPageSize

(* Stronger: nor does the default, of a caller who gives none. *)
DefaultCapped == walk.size <= MaxPageSize
=============================================================================
