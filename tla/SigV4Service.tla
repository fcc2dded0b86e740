---------------------------- MODULE SigV4Service ------------------------------
(***************************************************************************)
(* How the service reads a signed request.  It knows the encoding rules of   *)
(* SigV4 and computes what it checks from the bytes it received, so these    *)
(* definitions share nothing with the client's encoder but the alphabet.     *)
(***************************************************************************)
EXTENDS WireEncoding

Byte == 0..255

(* A path that writes no byte as a triplet which the service writes as it is. *)
Minimal(path) ==
    \A i \in DOMAIN path : path[i] = PERCENT =>
        16 * hex_value(path[i + 1]) + hex_value(path[i + 2]) \notin Unreserved \cup {SLASH}

(* UriEncode of SigV4: every byte that is not kept becomes a triplet. *)
ServiceEncode(bytes, kept) ==
    FlattenSeq([i \in DOMAIN bytes |->
        IF bytes[i] \in kept THEN <<bytes[i]>>
        ELSE <<PERCENT, HexDigit(bytes[i] \div 16), HexDigit(bytes[i] % 16)>>])

(* The decoded parameters of a query string. *)
ServiceParameters(query) ==
    IF query = <<>> THEN <<>>
    ELSE [i \in DOMAIN Fields(query, AND) |->
            LET pair == Fields(Fields(query, AND)[i], EQUALS)
            IN  <<decode_url_field(pair[1]), decode_url_field(pair[2])>>]

(* A string is the canonical query of the parameters: it holds each of them  *)
(* encoded, as often as it was given, in ascending order.                    *)
IsCanonicalQuery(string, parameters) ==
    LET pairs == IF string = <<>> THEN <<>>
                 ELSE [i \in DOMAIN Fields(string, AND) |-> Fields(Fields(string, AND)[i], EQUALS)]
        encoded == [i \in DOMAIN parameters |->
                       <<ServiceEncode(parameters[i][1], Unreserved), ServiceEncode(parameters[i][2], Unreserved)>>]
    IN  /\ \A pair \in ToSet(pairs) \cup ToSet(encoded) :
              Cardinality({i \in DOMAIN pairs : pairs[i] = pair})
                = Cardinality({i \in DOMAIN encoded : encoded[i] = pair})
        /\ \A i \in 1..(Len(pairs) - 1) : pairs[i] = pairs[i + 1] \/ PairBefore(pairs[i], pairs[i + 1])

(* A header value without leading, trailing and repeated blanks: a space    *)
(* stands before a character that follows a blank, unless it is the first.   *)
Squeezed(value) ==
    FlattenSeq([i \in DOMAIN value |->
        IF value[i] \in Blank THEN <<>>
        ELSE IF i > 1 /\ value[i - 1] \in Blank /\ \E k \in 1..(i - 1) : value[k] \notin Blank
        THEN <<SPACE, value[i]>>
        ELSE <<value[i]>>])
===============================================================================
