------------------------------ MODULE MCResponses ------------------------------
(***************************************************************************)
(* Download: an object of two bytes in chunks of one or two, so that bodies *)
(* are short, exact and too long; the idle timer fires before the deadline  *)
(* or after it.  ResponseHandling: a limit of two bytes and a peer that     *)
(* sends three, with every status class and code.  ObjectOperations: two    *)
(* callers, two attempts each, an empty bucket or one with a single-part    *)
(* object beside the two versions of a multipart one.                       *)
(***************************************************************************)
EXTENDS Responses

SomeCodes ==
    {"", "ExpiredToken", "AccessDenied", "NoSuchKey", "PreconditionFailed",
     "OperationAborted", "SlowDown", "InternalError", "RequestTimeout"}

OurBucket == <<98>>

(* "a", and "a?%" whose copy source must be encoded *)
KeyA == <<97>>
KeyB == <<97, QUERY, PERCENT>>

OldVersion(data, type) == [data |-> data, type |-> type, metadata |-> {<<"owner", <<"me">>>>},
                        modified |-> -1, marker |-> FALSE, alive |-> TRUE]
Free == [if_match |-> {}, if_none_match |-> {}, if_modified_since |-> {}, if_unmodified_since |-> {}]
AnyETag == <<"*">>
TagA == <<"etag", <<1, 2, 3>>, "FULL_OBJECT">>
NoHeaders == [n \in {} |-> <<>>]

Put(conditions, metadata, algorithm, headers, replayable) ==
    [op |-> "put", key |-> KeyA, conditions |-> conditions, headers |-> headers, replayable |-> replayable,
     data |-> <<7>>, content_type |-> {}, metadata |-> metadata, algorithm |-> algorithm]
Read(op, key, conditions, range, version) ==
    [op |-> op, key |-> key, conditions |-> conditions, headers |-> NoHeaders, replayable |-> TRUE,
     range |-> range, version |-> version]
Delete(conditions, version) ==
    [op |-> "delete", key |-> KeyA, conditions |-> conditions, headers |-> NoHeaders, replayable |-> TRUE,
     version |-> version]
Copy(conditions, directive, version) ==
    [op |-> "copy", key |-> KeyA, conditions |-> conditions, headers |-> NoHeaders, replayable |-> TRUE,
     source |-> [bucket |-> OurBucket, key |-> KeyB, version |-> version], directive |-> directive]
Batch(named, quiet) ==
    [op |-> "delete_objects", key |-> KeyA, conditions |-> Free, headers |-> NoHeaders, replayable |-> TRUE,
     objects |-> named, quiet |-> quiet]
Identifier(key, version, if_match) == [key |-> key, version |-> version, if_match |-> if_match]

Asked == {
    Put(Free, << <<<<"owner", "lower">>, <<"you">>>> >>, {"SHA256"}, NoHeaders, TRUE),
    Put([Free EXCEPT !.if_none_match = {AnyETag}], <<>>, {}, NoHeaders, TRUE),
    Put([Free EXCEPT !.if_match = {TagA}], <<>>, {}, NoHeaders, FALSE),
    Put(Free, << <<<<"owner", "lower">>, <<"you">>>>, <<<<"owner", "upper">>, <<"me">>>> >>, {}, NoHeaders, TRUE),
    Put(Free, <<>>, {"SHA1"}, NoHeaders, TRUE),
    Put([Free EXCEPT !.if_match = {TagA}], <<>>, {}, [n \in {Name("if-match")} |-> AnyETag], TRUE),
    Read("get", KeyA, [Free EXCEPT !.if_unmodified_since = {1}], {<<"inclusive", 1, 5>>}, {}),
    Read("get", KeyA, Free, {<<"inclusive", 0, 1>>}, {}),
    Read("get", KeyB, Free, {<<"suffix", 1>>}, {}),
    Read("get", KeyB, [Free EXCEPT !.if_none_match = {TagA}], {}, {1}),
    Read("get", KeyA, Free, {<<"from", 1>>}, {}),
    Read("head", KeyA, [Free EXCEPT !.if_modified_since = {1}], {}, {}),
    Delete([Free EXCEPT !.if_match = {TagA}], {}),
    Delete(Free, {1}),
    Copy([Free EXCEPT !.if_match = {<<"etag", <<5, 6>>, "COMPOSITE">>}], {}, {}),
    Copy([Free EXCEPT !.if_none_match = {TagA}], {<<>>}, {1}),
    Copy([Free EXCEPT !.if_match = {TagA}], {}, {}),
    Batch({}, FALSE),
    Batch({Identifier(KeyA, {}, {TagA}), Identifier(KeyB, {1}, {})}, TRUE),
    Batch({Identifier(KeyA, {}, {}), Identifier(KeyB, {}, {TagA})}, FALSE)}

TwoKeys == {KeyA, KeyB}
TwoStores ==
    {[k \in TwoKeys |-> <<>>],
     [k \in TwoKeys |-> IF k = KeyA THEN <<OldVersion(<<1, 2, 3>>, "FULL_OBJECT")>>
                         ELSE <<OldVersion(<<4>>, "COMPOSITE"), OldVersion(<<5, 6>>, "COMPOSITE")>>]}
===============================================================================
