----------------------------- MODULE BoundedXml ------------------------------
(***************************************************************************)
(* The bounded XML layer (src/src/protocol): what a body the service sent  *)
(* becomes, and how a document to send is written under a bound.           *)
(*                                                                         *)
(* A body is its size, whether it is UTF-8, the events the XML reader      *)
(* yields before the root, the local name of the root, a declaration of a  *)
(* document type or an entity somewhere in it (in capitals or not), whether *)
(* the rest is well formed, and the fields.  The deserializer is a         *)
(* library's: it does not look at the name of the root, which is why the   *)
(* parsers do.                                                             *)
(***************************************************************************)
EXTENDS Integers, Sequences, FiniteSets, SequencesExt

CONSTANTS
  Bodies,    \* the bodies
  Maximum,   \* max_xml_response_size
  MaxPart,   \* PartNumber::MAX
  Documents  \* documents to send: where each write of the serializer ends in them

(* What the constants have to be: the numbers of a listing of parts are read
   as numbers, and a write of the serializer ends where it began or later. *)
XmlAssumption ==
  /\ Maximum \in Nat /\ MaxPart \in Nat
  /\ \A b \in Bodies : b.fields.numbers \in Seq(Nat)
  /\ \A d \in Documents : /\ d \in Seq(Nat)
                          /\ \A i, j \in 1 .. Len(d) : i <= j => d[i] <= d[j]

VARIABLES
  job,      \* the parser and its body, or the document to send
  result,   \* "none", the error, or what the parser returned
  written,  \* LimitedString::value: its length
  exceeded  \* LimitedString::exceeded

vars == <<job, result, written, exceeded>>

\* The parsers and the root each of them takes.
Root ==
  [parse_s3_error |-> "Error",
   parse_complete_multipart_upload |-> "CompleteMultipartUploadResult",
   parse_copy_object |-> "CopyObjectResult",
   parse_upload_part_copy |-> "CopyPartResult",
   parse_create_multipart_upload |-> "InitiateMultipartUploadResult",
   parse_list_objects_v2 |-> "ListBucketResult",
   parse_list_multipart_uploads |-> "ListMultipartUploadsResult",
   parse_list_parts |-> "ListPartsResult",
   parse_delete_objects |-> "DeleteResult"]

Parsers == DOMAIN Root

\* The operations that S3 answers with 200 and an error in the body.
Embedding == {"parse_complete_multipart_upload", "parse_copy_object",
              "parse_upload_part_copy"}

Init ==
  /\ job \in [kind : {"parse"}, parser : Parsers, body : Bodies]
              \cup [kind : {"serialize"}, ends : Documents, done : {0}]
  /\ result = "none"
  /\ written = 0
  /\ exceeded = FALSE

-----------------------------------------------------------------------------
(* Reading. *)

\* Mutant of reject_dangerous_declarations: only capitals are looked for.
reject_dangerous_declarations_exact(body) == body.declared # "capitals"

reject_dangerous_declarations(body) == body.declared = "no"

\* The reader goes on over declarations, text, comments and instructions; it
\* stops at the root (its name), a document type, the end or an error (no name).
Skipped == {"Decl", "Text", "Comment", "PI"}
FirstRoot(body) ==
  IF Range(body.prolog) \subseteq Skipped THEN body.root ELSE {}

\* Mutant of expect_root: any root will do.
expect_root_any(body, root) ==
  body.size <= Maximum /\ reject_dangerous_declarations(body) /\ body.utf8

\* expect_root succeeds.
expect_root(body, root) ==
  /\ body.size <= Maximum
  /\ reject_dangerous_declarations(body)
  /\ body.utf8
  /\ FirstRoot(body) = {root}

\* Mutant of root_is_error: only the first event is looked at.
root_is_error_first(body) ==
  IF body.size <= Maximum /\ body.utf8 /\ FirstRoot(body) # {}
  THEN {body.prolog = <<>> /\ FirstRoot(body) = {"Error"}} ELSE {}

\* root_is_error: {} is its error.
root_is_error(body) ==
  IF body.size <= Maximum /\ body.utf8 /\ FirstRoot(body) # {}
  THEN {FirstRoot(body) = {"Error"}} ELSE {}

\* What the schema of each parser requires the deserializer to find.
Required(parser, fields) ==
  /\ parser \in {"parse_create_multipart_upload", "parse_list_objects_v2",
                 "parse_list_multipart_uploads", "parse_delete_objects"}
       => fields.key # "absent"
  /\ parser \in {"parse_create_multipart_upload", "parse_list_multipart_uploads"}
       => fields.id # "absent"
  /\ parser = "parse_list_parts" => fields.e_tag # "absent"

\* parse_bounded succeeds.
parse_bounded(body, parser) ==
  /\ body.size <= Maximum
  /\ reject_dangerous_declarations(body)
  /\ body.utf8
  /\ body.wellFormed /\ Range(body.prolog) \subseteq Skipped
  /\ Required(parser, body.fields)

\* Mutant of Ascending: a number may come twice.
AscendingWeakly(numbers) ==
  /\ Range(numbers) \subseteq 1 .. MaxPart
  /\ \A i \in 1 .. Len(numbers) - 1 : numbers[i] <= numbers[i + 1]

\* The loop of parse_list_parts.
Ascending(numbers) ==
  /\ Range(numbers) \subseteq 1 .. MaxPart
  /\ \A i \in 1 .. Len(numbers) - 1 : numbers[i] < numbers[i + 1]

\* The checks of the parsers themselves on the fields of a document or of one
\* of its entries: ObjectKey::new, parse_upload_id, the entity tag, the dates.
CreateIsValid(f) == f.id # "empty" /\ f.key # "empty"
CompleteIsValid(f) == f.key # "empty"
CopyIsValid(f) == f.time # "bad"
PartCopyIsValid(f) == f.e_tag = "good" /\ f.time # "bad"
ListIsValid(f) == f.encoding = "url" /\ f.key # "empty" /\ f.time # "bad"
UploadsAreValid(f) == f.id # "empty" /\ f.time # "bad" /\ f.key # "empty"
PartsAreValid(f) == Ascending(f.numbers) /\ f.e_tag # "blank" /\ f.time # "bad"
DeletedAreValid(f) == f.key # "empty"

FieldsAreValid(parser, f) ==
  CASE parser = "parse_create_multipart_upload" -> CreateIsValid(f)
    [] parser = "parse_complete_multipart_upload" -> CompleteIsValid(f)
    [] parser = "parse_copy_object" -> CopyIsValid(f)
    [] parser = "parse_upload_part_copy" -> PartCopyIsValid(f)
    [] parser = "parse_list_objects_v2" -> ListIsValid(f)
    [] parser = "parse_list_multipart_uploads" -> UploadsAreValid(f)
    [] parser = "parse_list_parts" -> PartsAreValid(f)
    [] parser = "parse_delete_objects" -> DeletedAreValid(f)
    [] OTHER -> TRUE

\* What is wrong with a body the parser does not return.
Refusal(body, parser, root) ==
  CASE body.size > Maximum -> "Oversized"
    [] ~(expect_root(body, root) /\ parse_bounded(body, parser)) -> "InvalidXml"
    [] OTHER -> "InvalidField"

\* A parser, after root_is_error where the operation may embed an error.
Parsed(body, parser) ==
  IF parser \in Embedding /\ root_is_error(body) = {TRUE}
  THEN IF expect_root(body, "Error") /\ parse_bounded(body, "parse_s3_error")
       THEN "EmbeddedError" ELSE Refusal(body, "parse_s3_error", "Error")
  ELSE IF /\ parser \in Embedding => root_is_error(body) # {}
          /\ expect_root(body, Root[parser])
          /\ parse_bounded(body, parser)
          /\ FieldsAreValid(parser, body.fields)
       THEN "Complete" ELSE Refusal(body, parser, Root[parser])

Parse ==
  /\ job.kind = "parse" /\ result = "none"
  /\ result' = Parsed(job.body, job.parser)
  /\ UNCHANGED <<job, written, exceeded>>

-----------------------------------------------------------------------------
(* Writing. *)

\* The offset at which the first writes of a document end.
End(ends, writes) == IF writes = 0 THEN 0 ELSE ends[writes]

\* What is written once the next write is added to it.
NewLength == written + (End(job.ends, job.done + 1) - End(job.ends, job.done))

\* Mutant of write_str: the text is cut at the maximum.
write_str_cutting ==
  /\ job.kind = "serialize" /\ result = "none" /\ job.done < Len(job.ends)
  /\ written' = IF NewLength > Maximum THEN Maximum ELSE NewLength
  /\ job' = [job EXCEPT !.done = @ + 1]
  /\ UNCHANGED <<result, exceeded>>

\* LimitedString::write_str, and the end serialize_bounded makes of its error.
write_str ==
  /\ job.kind = "serialize" /\ result = "none" /\ job.done < Len(job.ends)
  /\ IF NewLength > Maximum
     THEN exceeded' = TRUE /\ result' = "Oversized" /\ UNCHANGED <<job, written>>
     ELSE /\ written' = NewLength
          /\ job' = [job EXCEPT !.done = @ + 1]
          /\ UNCHANGED <<result, exceeded>>

\* serialize_bounded returns the document.
Serialized ==
  /\ job.kind = "serialize" /\ result = "none" /\ job.done = Len(job.ends)
  /\ result' = "Complete"
  /\ UNCHANGED <<job, written, exceeded>>

Next == Parse \/ write_str \/ Serialized

Spec == Init /\ [][Next]_vars

-----------------------------------------------------------------------------
(* What is checked. *)

\* The shape of the state; the text written stays under its maximum at every
\* moment (LimitedString).
TypeOK ==
  /\ result \in {"none", "Oversized", "InvalidXml", "InvalidField",
                 "EmbeddedError", "Complete"}
  /\ written \in 0 .. Maximum /\ exceeded \in BOOLEAN

\* An error of the service is never taken for a result: a body whose root is
\* Error is an error in every parser, though the deserializer does not look at
\* the root and most schemas have no required field; and a parser returns only
\* a body with its own root.
ErrorsAreNeverResults ==
  job.kind = "parse" /\ result \in {"Complete", "EmbeddedError"} =>
    job.body.root = {IF result = "Complete" THEN Root[job.parser] ELSE "Error"}

\* An error a service may embed in a 200 answer is returned as that error when
\* the document is within its bound and well formed, whatever fields it lacks:
\* it can then be classified and retried (root_is_error, parse_s3_error).
EmbeddedErrorsAreRead ==
  /\ job.kind = "parse" /\ result # "none"
  /\ job.parser \in Embedding /\ job.body.root = {"Error"}
  /\ job.body.size <= Maximum /\ job.body.utf8 /\ job.body.wellFormed
  /\ job.body.declared = "no" /\ Range(job.body.prolog) \subseteq Skipped
  => result = "EmbeddedError"

\* No body with a document type or an entity declaration anywhere is used, in
\* the order the parsers look at it in: root_is_error reads events before
\* reject_dangerous_declarations has run.
DeclarationsAreRefused ==
  job.kind = "parse" /\ job.body.declared # "no"
    => result \notin {"Complete", "EmbeddedError"}

\* The parts of a listing can be given back to complete the upload:
\* CompleteMultipartUploadRequest::new accepts the entries of every page
\* parse_list_parts returns.
ListedPartsCanBeCompleted ==
  job.kind = "parse" /\ job.parser = "parse_list_parts" /\ result = "Complete" =>
    LET numbers == job.body.fields.numbers
    IN  /\ \A i, j \in DOMAIN numbers : i < j => numbers[i] < numbers[j]
        /\ Range(numbers) \subseteq 1 .. MaxPart

\* A document is written whole or not at all, however the serializer cuts it
\* into writes: it is refused exactly when it is longer than the maximum
\* (serialize_bounded, LimitedString).
DocumentsAreWhole ==
  job.kind = "serialize" /\ result # "none" =>
    LET length == End(job.ends, Len(job.ends))
    IN  /\ result = "Complete" => ~exceeded /\ written = length
        /\ result = "Oversized" => exceeded /\ length > Maximum

=============================================================================
