------------------------------- MODULE MCSigning -------------------------------
(***************************************************************************)
(* Endpoints, names, queries and headers for Signing that reach every       *)
(* branch of the encoders and of the checks, and numbers of one digit.      *)
(***************************************************************************)
EXTENDS Signing

Input(scheme, userinfo, host, port, base) ==
    [scheme |-> scheme, userinfo |-> userinfo, query |-> FALSE, host |-> host, port |-> port, base |-> base]

(* A regional endpoint, the global one with a port, a FIPS endpoint over      *)
(* http, and custom ones with a base path that holds a lower-case triplet or  *)
(* a stray percent sign.                                                      *)
SignedEndpoints == UNION {EndpointNew(input) : input \in {
    Input("https", FALSE, Host("s3", "east", "amazonaws.com", FALSE), {}, <<>>),
    Input("https", FALSE, Host("s3", "", "amazonaws.com", FALSE), {9000}, <<>>),
    Input("http", FALSE, Host("s3-fips", "east", "amazonaws.com", FALSE), {}, <<>>),
    Input("https", FALSE, Host("", "", "example", FALSE), {}, <<SLASH, 33, PERCENT, 99, 51>>),
    Input("https", FALSE, Host("", "", "example", FALSE), {}, <<SLASH, PERCENT>>)}}

(* "abc" and "a_b", which virtual hosting does not allow. *)
SignedBuckets == {<<97, 98, 99>>, <<97, 95, 98>>}

(* "a/.." and "/% {". *)
SignedKeys == {<<97, SLASH, DOT, DOT>>, <<SLASH, PERCENT, SPACE, 123>>}

(* None; "a" and "{", whose order changes when they are encoded; a repeated   *)
(* name with values that need encoding.                                       *)
SignedQueries ==
    {<<>>,
     << <<<<97>>, <<>>>>, <<<<123>>, <<SLASH>>>> >>,
     << <<<<97>>, <<AND, EQUALS>>>>, <<<<97>>, <<97>>>>, <<<<97>>, <<97>>>> >>}

SignedHeaders ==
    {[name \in {} |-> <<>>],
     [name \in {"x-example"} |-> << <<SPACE, 97, SPACE, TAB, 98, SPACE>>, <<98>> >>],
     [name \in {"x-amz-date"} |-> << <<97>> >>]}

SignedIdentities ==
    {[key |-> "k1", secret |-> "s1", token |-> {}, wellformed |-> TRUE, expires |-> 9],
     [key |-> "k2", secret |-> "s2", token |-> {"t2"}, wellformed |-> TRUE, expires |-> 1],
     [key |-> "k 3", secret |-> "s3", token |-> {"t3"}, wellformed |-> FALSE, expires |-> 9]}

-------------------------------------------------------------------------------
(* Both styles, and an endpoint whose base path has a stray percent sign. *)
UrlClients ==
    UNION {{[endpoint |-> e, bucket |-> <<97, 98, 99>>, style |-> c[2], region |-> <<101>>] :
              e \in EndpointNew(Input("https", FALSE, Host("s3", "east", "amazonaws.com", FALSE), {}, c[1]))} :
           c \in {<<<<>>, "Path">>, <<<<>>, "VirtualHosted">>, <<<<SLASH, PERCENT>>, "Path">>}}

(* "a/" and "/%{"; an upload id "/+", which the query encodes.                *)
UrlKeys == {<<97, SLASH>>, <<SLASH, PERCENT, 123>>}
UrlUploadIds == {<<SLASH, 43>>}

UrlIdentities ==
    {[key |-> <<107>>, secret |-> "s1", token |-> {}, expires |-> {}],
     [key |-> <<108>>, secret |-> "s2", token |-> {<<116, SLASH>>}, expires |-> {5}]}

OneDigit == [n \in 0..(PresignHorizon + MaxPresignExpiry) |-> <<48 + n>>]

-------------------------------------------------------------------------------
(* A custom host with a base path, an address, plain http, and inputs that    *)
(* Endpoint::new refuses.                                                     *)
BuilderInputs ==
    {Input("https", FALSE, Host("", "", "example", FALSE), {}, <<SLASH, 97>>),
     Input("https", TRUE, Host("", "", "example", FALSE), {}, <<SLASH, 97>>),
     Input("http", FALSE, Host("", "", "10.0.0.1", TRUE), {}, <<SLASH, 97>>),
     Input("ftp", FALSE, Host("", "", "example", FALSE), {}, <<SLASH, 97>>)}

BuilderVariants == {<<"cn-north-1", "s3.dualstack", TRUE>>}

(* "abc", "a.b", "a%b" which is a path component only, "" and "1.1.1.1".      *)
BuilderBuckets ==
    {<<97, 98, 99>>, <<97, DOT, 98>>, <<97, PERCENT, 98>>, <<>>,
     <<49, DOT, 49, DOT, 49, DOT, 49>>}

BuilderKeys == {<<97>>, <<SLASH, 97>>}
===============================================================================
