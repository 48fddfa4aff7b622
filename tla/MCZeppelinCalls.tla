--------------------------- MODULE MCZeppelinCalls ---------------------------
(***************************************************************************)
(* The plain tools of the Zeppelin plugin for TLC: the calls and their      *)
(* session (ZeppelinParagraphs), and three specifications of what one call  *)
(* computes.  They share no state, so that one of them runs from the start: *)
(* `part' names it, the variables of the others stay Unused.                *)
(***************************************************************************)
EXTENDS ZeppelinParagraphs

CONSTANTS
  MaxResultBytes, MaxOutputBytes, MaxErrorBytes,   \* limits of a result
  Widths, MaxChars, MaxItems,                      \* its texts and outputs
  BodyInterpreters,      \* names of interpreters a body may give
  BodySqlInterpreters,   \* those of SQL
  AllowedInterpreters,   \* what the configuration allows
  ForbiddenKeywords, WriteDatabases, ShellCommands,
  BodyStatements,        \* statements of a text
  Names,                 \* segments of paths
  PathDepth,             \* segments of a path
  ListedAtMost           \* entries of the list

\* A character has a byte or more; the limits are numbers.
ASSUME ResultsAssumption ==
  /\ Widths \subseteq Nat \ {0}
  /\ MaxResultBytes \in Nat /\ MaxChars \in Nat /\ MaxItems \in Nat

\* "none" and "malformed" stand for a body that gives no name.
ASSUME ToolsAssumption ==
  /\ {"none", "malformed"} \cap (BodyInterpreters \cup AllowedInterpreters) = {}
  /\ BodyStatements \in Nat /\ PathDepth \in Nat /\ ListedAtMost \in Nat

VARIABLES
  part,
  held, answer,         \* ZeppelinResults
  request, outcome,     \* ParagraphGate
  listed, read, tree    \* ZeppelinNotebooks

resultVars == <<held, answer>>
gateVars == <<request, outcome>>
notebookVars == <<listed, read, tree>>
allVars == <<part, vars, resultVars, gateVars, notebookVars>>

Results == INSTANCE ZeppelinResults WITH paragraph <- held

Gate == INSTANCE ParagraphGate WITH
  Interpreters <- BodyInterpreters, SqlInterpreters <- BodySqlInterpreters,
  Allowed <- AllowedInterpreters, Forbidden <- ForbiddenKeywords,
  AllowedDatabases <- WriteDatabases, AllowedCommands <- ShellCommands,
  MaxStatements <- BodyStatements

Notebooks == INSTANCE ZeppelinNotebooks WITH
  Segments <- Names, MaxDepth <- PathDepth, MaxEntries <- ListedAtMost

-----------------------------------------------------------------------------

Unused == "unused"
ResultsUnused == held = Unused /\ answer = Unused
GateUnused == request = Unused /\ outcome = Unused
NotebooksUnused == listed = Unused /\ read = Unused /\ tree = Unused

\* The parts that are not `calls' start from one state of ZeppelinParagraphs.
ToolsInit ==
  /\ Init
  /\ \/ part = "calls" /\ ResultsUnused /\ GateUnused /\ NotebooksUnused
     \/ /\ paragraph = "READY"
        /\ \/ part = "results" /\ Results!Init /\ GateUnused /\ NotebooksUnused
           \/ part = "gate" /\ Gate!Init /\ ResultsUnused /\ NotebooksUnused
           \/ part = "notebooks" /\ Notebooks!Init /\ ResultsUnused /\ GateUnused

CallStep ==
  part = "calls" /\ UNCHANGED <<part, resultVars, gateVars, notebookVars>> /\ Next
ResultStep ==
  part = "results" /\ UNCHANGED <<part, vars, gateVars, notebookVars>> /\ Results!Next
GateStep ==
  part = "gate" /\ UNCHANGED <<part, vars, resultVars, notebookVars>> /\ Gate!Next
NotebookStep ==
  part = "notebooks" /\ UNCHANGED <<part, vars, resultVars, gateVars>> /\ Notebooks!Next

ToolsNext == CallStep \/ ResultStep \/ GateStep \/ NotebookStep

ToolsSpec == ToolsInit /\ [][ToolsNext]_allVars

-----------------------------------------------------------------------------

\* Outputs are cut where a character ends, what is cut is told, and a failed
\* paragraph comes with its error (get_paragraph_result).
ResultsHonest ==
  part = "results" => /\ Results!OutputsFit
                      /\ Results!TruncatedIsHonest
                      /\ Results!FailuresExplained

\* A paragraph reaches Zeppelin exactly if all its statements may, and the
\* gravest reason is the one that is told (PolicyEnforcer, build_checkers).
BodiesGated ==
  part = "gate" => Gate!SentIffAllowed /\ Gate!ForbiddenIsTheReason

\* Every listed path is in the tree, below all its folders, and leads to the
\* last notebook listed with it (list_notebooks, build_notebook_tree).
NotebooksListed ==
  part = "notebooks" => Notebooks!LastNotebookFound /\ Notebooks!FoldersComplete

\* Stronger, and broken by two notebooks with one path.
NoneLost == part = "notebooks" => Notebooks!EveryNotebookFound
=============================================================================
