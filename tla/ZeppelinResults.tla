-------------------------- MODULE ZeppelinResults --------------------------
(***************************************************************************)
(* get_paragraph_result: what the adapter makes of a paragraph's results,  *)
(* what the service makes of that, and the limits on the way.  A text is   *)
(* the sequence of the widths in bytes of its UTF-8 characters; a limit in *)
(* bytes may fall inside one.                                              *)
(***************************************************************************)
EXTENDS Integers, Sequences, SequencesExt, FiniteSetsExt, Orders

CONSTANTS
  MaxResultBytes,    \* max_result_bytes, at most MaxOutputBytes
  MaxOutputBytes,    \* _MAX_OUTPUT_BYTES
  MaxErrorBytes,     \* _MAX_ERROR_MESSAGE_BYTES
  Widths,            \* widths of the characters that occur
  MaxChars,          \* bound: characters of a text
  MaxItems           \* bound: output items

VARIABLES
  paragraph,    \* what Zeppelin holds
  answer        \* what the tool answers

vars == <<paragraph, answer>>

Texts == BoundedSeq(Widths, MaxChars)
Bytes(text) == SumFunctionOnSet(text, 1..Len(text))
Prefix(text, n) == SubSeq(text, 1, n)

\* A message entry that is no object is "junk"; "other" is an unknown type.
Objects == [kind : {"TABLE", "other"}, data : Texts]
Messages == Objects \cup [kind : {"junk"}, data : {<<>>}]
States == {"READY", "RUNNING", "FINISHED", "ERROR", "ABORT"}
Exceptions == ({"none", "blank"} \X {<<>>}) \cup ({"text"} \X (Texts \ {<<>>}))
Paragraphs == [status : States, msg : BoundedSeq(Messages, MaxItems), exception : Exceptions]

-----------------------------------------------------------------------------
(* The adapter. *)

\* truncate_utf8: cut at the limit, and drop the character that is cut in two.
Truncate(text) ==
  Prefix(text, Max({k \in 0..Len(text) : Bytes(Prefix(text, k)) <= MaxResultBytes}))

Cut(text) == Bytes(text) > MaxResultBytes

Kind(raw) == IF raw = "other" THEN "TEXT" ELSE raw

Outputs(p) ==
  LET entries == Picked(p.msg, Objects)
  IN  [i \in DOMAIN entries |->
         [kind |-> Kind(entries[i].kind), text |-> Truncate(entries[i].data)]]

HasError(p) == p.exception[1] = "text"
ErrorText(p) == Truncate(p.exception[2])

\* Variant: a flag of the last item only.
SomethingCutLast(p) ==
  \/ p.msg # <<>> /\ Cut(Last(p.msg).data)
  \/ HasError(p) /\ Cut(p.exception[2])

SomethingCut(p) ==
  \/ \E i \in DOMAIN p.msg : Cut(p.msg[i].data)
  \/ HasError(p) /\ Cut(p.exception[2])

\* The models refuse a text over their own ceiling.
FitsModels(p) ==
  /\ \A i \in DOMAIN Outputs(p) : Bytes(Outputs(p)[i].text) <= MaxOutputBytes
  /\ HasError(p) => Bytes(ErrorText(p)) <= MaxErrorBytes

-----------------------------------------------------------------------------
(* The service and the tool. *)

Result(category, status, outputs, error, truncated) ==
  [category |-> category, status |-> status, outputs |-> outputs, error |-> error,
   truncated |-> truncated]
Failure(category) == Result(category, "none", <<>>, "none", FALSE)

Failed(p) ==
  Result("OK", "ERROR", Outputs(p), IF HasError(p) THEN "upstream" ELSE "fallback",
         SomethingCut(p))

Answer(p) ==
  IF ~FitsModels(p) THEN Failure("UPSTREAM_ERROR")
  ELSE CASE p.status = "ERROR" -> Failed(p)
         [] p.status = "FINISHED" -> Result("OK", "FINISHED", Outputs(p), "none", SomethingCut(p))
         [] OTHER -> Failure("INVALID_INPUT")

Init == paragraph \in Paragraphs /\ answer = Failure("none")

GetParagraphResult ==
  /\ answer' = Answer(paragraph)
  /\ UNCHANGED paragraph

Next == GetParagraphResult
Spec == Init /\ [][Next]_vars

-----------------------------------------------------------------------------
OK == answer.category = "OK"
Given == Picked(paragraph.msg, Objects)

(* Each output is what Zeppelin gave, in its order, cut at a character and
   within max_result_bytes, and no longer piece would have fitted. *)
OutputsFit ==
  OK => /\ Len(answer.outputs) = Len(Given)
        /\ \A i \in DOMAIN Given :
             LET whole == Given[i].data
                 text == answer.outputs[i].text
             IN  /\ IsPrefix(text, whole)
                 /\ Bytes(text) <= MaxResultBytes
                 /\ text # whole => Bytes(text) + whole[Len(text) + 1] > MaxResultBytes

(* truncated says whether something Zeppelin gave is missing: an answer that
   says FALSE is complete. *)
TruncatedIsHonest ==
  OK /\ ~answer.truncated => \A i \in DOMAIN Given : answer.outputs[i].text = Given[i].data

(* A failed paragraph that is answered comes with an error, and a finished one
   comes without. *)
FailuresExplained == OK => ((answer.status = "ERROR") <=> (answer.error # "none"))

(* The outputs of a result hold max_result_bytes together. *)
TotalBounded ==
  OK => FoldSeq(LAMBDA o, total : Bytes(o.text) + total, 0, answer.outputs) <= MaxResultBytes

(* A paragraph in the ERROR state is answered with ERROR. *)
FailureReported ==
  paragraph.status = "ERROR" /\ answer.category # "none" => answer.status = "ERROR"
=============================================================================
