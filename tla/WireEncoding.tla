----------------------------- MODULE WireEncoding -----------------------------
(***************************************************************************)
(* Percent-encoding and the canonical forms of SigV4 (signing/canonical.rs, *)
(* the encoders of endpoint/mod.rs, decode_url_field of                     *)
(* protocol/listing.rs).  A string is the sequence of its bytes, so that    *)
(* encoding, splitting and byte order are the real ones.  A result that may *)
(* be an error is a set: empty is Err, one element is Ok.                   *)
(***************************************************************************)
EXTENDS Integers, Sequences, SequencesExt, FiniteSets

TAB     == 9
SPACE   == 32
PERCENT == 37
AND     == 38
SLASH   == 47
EQUALS  == 61
QUERY   == 63

Digits   == 48..57
Upper    == 65..90
Lower    == 97..122
Alphanumeric == Digits \cup Upper \cup Lower

(* is_unreserved *)
Unreserved == Alphanumeric \cup {45, 46, 95, 126}

HexDigits == Digits \cup 65..70 \cup 97..102

hex_value(byte) ==
    IF byte \in Digits THEN byte - 48
    ELSE IF byte \in Upper THEN byte - 55 ELSE byte - 87

HexDigit(value) == IF value < 10 THEN 48 + value ELSE 55 + value

push_percent_encoded(byte) == <<PERCENT, HexDigit(byte \div 16), HexDigit(byte % 16)>>

-------------------------------------------------------------------------------
(* aws_uri_encode; without encode_slash it is encode_object_key, with it    *)
(* encode_path_component.                                                   *)
aws_uri_encode(input, encode_slash) ==
    FlattenSeq([i \in DOMAIN input |->
        IF input[i] \in Unreserved \/ (input[i] = SLASH /\ ~encode_slash)
        THEN <<input[i]>>
        ELSE push_percent_encoded(input[i])])

(* Every percent sign begins a triplet. *)
WellEncoded(path) ==
    \A i \in DOMAIN path : path[i] = PERCENT =>
        /\ i + 2 <= Len(path)
        /\ path[i + 1] \in HexDigits /\ path[i + 2] \in HexDigits

InTriplet(path, i) == \E k \in {i - 1, i - 2} : k \in DOMAIN path /\ path[k] = PERCENT

(* canonical_uri_from_encoded: triplets are kept, with upper-case digits,    *)
(* and every other byte is encoded.                                          *)
canonical_uri_from_encoded(path) ==
    LET Piece(i) ==
            IF path[i] = PERCENT THEN <<PERCENT>>
            ELSE IF InTriplet(path, i) THEN <<HexDigit(hex_value(path[i]))>>
            ELSE IF path[i] \in Unreserved \cup {SLASH} THEN <<path[i]>>
            ELSE push_percent_encoded(path[i])
        rooted == IF path # <<>> /\ path[1] = SLASH THEN <<>> ELSE <<SLASH>>
    IN  IF WellEncoded(path)
        THEN {rooted \o FlattenSeq([i \in DOMAIN path |-> Piece(i)])}
        ELSE {}

(* decode_url_field: the bytes a percent-encoded string stands for. *)
decode_url_field(value) ==
    IF ~WellEncoded(value) THEN {}
    ELSE {FlattenSeq([i \in DOMAIN value |->
            IF value[i] = PERCENT
            THEN <<16 * hex_value(value[i + 1]) + hex_value(value[i + 2])>>
            ELSE IF InTriplet(value, i) THEN <<>> ELSE <<value[i]>>])}

-------------------------------------------------------------------------------
(* The order of byte strings, and of pairs of them. *)
Before(a, b) ==
    \/ \E i \in DOMAIN a \cap DOMAIN b :
          a[i] < b[i] /\ \A k \in 1..(i - 1) : a[k] = b[k]
    \/ Len(a) < Len(b) /\ \A i \in DOMAIN a : a[i] = b[i]

PairBefore(p, q) == Before(p[1], q[1]) \/ (p[1] = q[1] /\ Before(p[2], q[2]))

Joined(parts, separator) ==
    FlattenSeq([i \in DOMAIN parts |-> IF i = 1 THEN parts[i] ELSE <<separator>> \o parts[i]])

QueryPair(pair) == pair[1] \o <<EQUALS>> \o pair[2]

(* The pairs with one more, before the first that comes after it. *)
Inserted(sorted, pair) ==
    LET at == CHOOSE k \in 1..(Len(sorted) + 1) :
                 /\ \A i \in 1..(k - 1) : ~PairBefore(pair, sorted[i])
                 /\ k <= Len(sorted) => PairBefore(pair, sorted[k])
    IN  SubSeq(sorted, 1, at - 1) \o <<pair>> \o SubSeq(sorted, at, Len(sorted))

(* sort_unstable: pairs that are equal can not be told apart. *)
sort_unstable(pairs) ==
    LET upTo[n \in 0..Len(pairs)] == IF n = 0 THEN <<>> ELSE Inserted(upTo[n - 1], pairs[n])
    IN  upTo[Len(pairs)]

(* Mutant of canonical_query: the parameters are sorted before encoding. *)
canonical_query_sorted_raw(parameters) ==
    LET sorted == sort_unstable(parameters)
    IN  Joined([i \in DOMAIN sorted |->
                   QueryPair(<<aws_uri_encode(sorted[i][1], TRUE), aws_uri_encode(sorted[i][2], TRUE)>>)], AND)

(* canonical_query: encode, sort by encoded name and value, join. *)
canonical_query(parameters) ==
    LET encoded == [i \in DOMAIN parameters |->
            <<aws_uri_encode(parameters[i][1], TRUE), aws_uri_encode(parameters[i][2], TRUE)>>]
        sorted == sort_unstable(encoded)
    IN  Joined([i \in DOMAIN sorted |-> QueryPair(sorted[i])], AND)

-------------------------------------------------------------------------------
(* The fields of a string between separators. *)
Fields(string, separator) ==
    LET upTo[n \in 0..Len(string)] ==
            IF n = 0 THEN << <<>> >>
            ELSE LET fields == upTo[n - 1]
                 IN  IF string[n] = separator THEN Append(fields, <<>>)
                     ELSE Append(Front(fields), Append(Last(fields), string[n]))
    IN  upTo[Len(string)]

Blank == {SPACE, TAB}

(* normalize_header_value: the loop over the characters, with what is        *)
(* normalized so far and pending_space.                                      *)
normalize_header_value(value) ==
    LET upTo[n \in 0..Len(value)] ==
            IF n = 0 THEN [normalized |-> <<>>, pending_space |-> FALSE]
            ELSE LET last == upTo[n - 1]
                 IN  IF value[n] \in Blank
                     THEN [last EXCEPT !.pending_space = last.normalized # <<>>]
                     ELSE [normalized |-> last.normalized \o (IF last.pending_space THEN <<SPACE>> ELSE <<>>)
                                            \o <<value[n]>>,
                           pending_space |-> FALSE]
    IN  upTo[Len(value)].normalized

(* canonical_headers: each name with its normalized values in the order in   *)
(* which they were given.  A BTreeMap is a function, so the order of names   *)
(* is fixed by the names.                                                    *)
canonical_headers(headers) ==
    [name \in DOMAIN headers |->
        [i \in DOMAIN headers[name] |-> normalize_header_value(headers[name][i])]]
===============================================================================
