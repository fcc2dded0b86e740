-------------------------------- MODULE MCParts --------------------------------
(***************************************************************************)
(* PartSource: files of up to four bytes in parts of one to three, with one *)
(* part too many for the limit, and two edits.  UploadBody: bodies of up to *)
(* three bytes in chunks of one or two, two attempts, and a file that       *)
(* changes twice, so that a snapshot is torn and the file differs from it   *)
(* later.  Checksums: bodies around chunks of two bytes.  MultipartSession: *)
(* the owner of an upload and another caller.                               *)
(***************************************************************************)
EXTENDS Parts

(* Bytes 0x00, 0x01, 0x80, 0x5a and 0xff. *)
SomeBytes == {{}, {0}, {7}, {1, 3, 4, 6}, 0..7}

(* The last characters of a supplied checksum: no bit, the lowest, a middle   *)
(* and the highest bits, the padding and a character outside the alphabet.    *)
Characters == {65, 66, 69, 81, 103, 47, 61, 45}    \* A B E Q g / = -

SomeBodies == UNION {[1..n -> SomeBytes] : n \in 0..3} \cup [1..4 -> {{0}, {7}}] \cup [1..5 -> {{}, 0..7}]
SomeTails == [1..4 -> Characters] \cup [1..3 -> {65, 61}] \cup [1..5 -> {65, 61}]

-------------------------------------------------------------------------------
TwoCallers == {"owner", "other"}
OwnerAndOther ==
    [owner |-> <<{"create"}, {"upload_part", "upload_part_copy"}, {"complete", "abort"}>>,
     other |-> <<{"upload_part", "list_parts", "list_uploads", "abort"}>>]
TwoContents == {<<1>>, <<2>>}

(* A checksum that is right for one of the contents, and one that is none. *)
TwoSums == {{sha256_base64(<<1>>)}, {<<"malformed">>}}

(* The last byte of the copied source, and a range that ends behind it. *)
CopiedData == <<1, 2>>
TwoRanges == {{<<1, 1>>}, {<<1, 2>>}}
===============================================================================
