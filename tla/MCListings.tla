------------------------------ MODULE MCListings ------------------------------
(***************************************************************************)
(* Listing: four entries in pages of at most two, one change by other       *)
(* clients, page bounds from none to one more than are needed.  BoundedXml: *)
(* bodies at the bound and one byte over it, with every kind of event       *)
(* before the root, every root, and the fields the parsers tell apart.      *)
(* ArtifactStore: two tenants, one of whose identifiers spells a path below *)
(* the other's; a payload that is there, one that rotted, one in upper      *)
(* case, a name that is no digest, one of the other tenant; stale, fresh    *)
(* and undated multipart uploads, two of them under one key.                *)
(***************************************************************************)
EXTENDS Listings

XmlRoots == {"Error", "ListBucketResult", "ListPartsResult", "ListMultipartUploadsResult",
             "InitiateMultipartUploadResult", "CompleteMultipartUploadResult",
             "CopyObjectResult", "CopyPartResult", "DeleteResult", "Other"}

(* What may come before the root: nothing, what is skipped, a document type   *)
(* (which is a declaration) and something the reader cannot read.             *)
XmlProlog == {<<>>, <<"Decl", "Text">>, <<"Comment">>, <<"PI">>, <<"Decl", "DocType">>, <<"Text", "Bad">>}

GoodFields == [key |-> "good", id |-> "good", e_tag |-> "good", time |-> "good",
               encoding |-> "url", numbers |-> <<1, 2>>]
XmlFields ==
    {[GoodFields EXCEPT !.key = k, !.id = i] :
        k \in {"absent", "empty", "good"}, i \in {"absent", "empty", "good"}}
    \cup {[GoodFields EXCEPT !.e_tag = e, !.time = t] :
        e \in {"absent", "blank", "good"}, t \in {"absent", "bad", "good"}}
    \cup {[GoodFields EXCEPT !.encoding = "none"]}
    \cup {[GoodFields EXCEPT !.numbers = n] :
        n \in {<<>>, <<0>>, <<2, 1>>, <<1, 1>>, <<1, 3>>, <<2, 4>>}}

XmlBodies ==
    {b \in [size : {3, 4}, utf8 : BOOLEAN, prolog : XmlProlog, root : {{}} \cup {{r} : r \in XmlRoots},
            declared : {"no", "capitals", "small"}, wellFormed : BOOLEAN, fields : {GoodFields}] :
        "DocType" \in ToSet(b.prolog) => b.declared # "no"}
    \cup [size : {3}, utf8 : {TRUE}, prolog : {<<>>}, root : {{}} \cup {{r} : r \in XmlRoots},
          declared : {"no"}, wellFormed : {TRUE}, fields : XmlFields]

(* Documents of up to three writes, some of them of nothing.                  *)
SomeDocuments ==
    {d \in UNION {[1..n -> 0..6] : n \in 0..3} : \A i, j \in DOMAIN d : i <= j => d[i] <= d[j]}

-------------------------------------------------------------------------------
TenantA == <<"x">>
TenantB == <<"x", "blobs", "sha256">>

StoredObjects ==
    {[tenant |-> o[1], digest |-> o[2], spelling |-> o[3], content |-> o[4]] : o \in {
        <<TenantA, 2, "lower", <<2, 2>>>>, <<TenantA, 3, "lower", <<3, 1>>>>,
        <<TenantA, 2, "upper", <<2, 2>>>>, <<TenantA, 3, "other", <<3, 3>>>>,
        <<TenantB, 2, "lower", <<2, 2>>>>}}
OpenUploads ==
    {[tenant |-> u[1], digest |-> u[2], id |-> u[3], initiated |-> u[4]] : u \in {
        <<TenantA, 1, 1, {1}>>, <<TenantA, 1, 2, {2}>>, <<TenantA, 2, 3, {}>>,
        <<TenantA, 3, 4, {3}>>, <<TenantA, 3, 5, {1}>>, <<TenantB, 2, 6, {1}>>}}

(* A publication, and one whose bytes are not its digest's. *)
Publications == [p1 |-> [digest |-> 1, content |-> <<1, 1>>],
                 p2 |-> [digest |-> 2, content |-> <<1, 2>>]]

(* Publishers beside the collection, a deletion and a download; and a         *)
(* publisher of the uploaded payload beside the upload and the stale pass.    *)
TwoPublishers == {"p1", "p2"}
TwoCrews == {TwoPublishers \cup {"collect", "delete", "download"}, {"p1", "upload", "abort"}}
===============================================================================
