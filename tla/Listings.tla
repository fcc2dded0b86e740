-------------------------------- MODULE Listings --------------------------------
(***************************************************************************)
(* The artifact store, which sweeps a bucket page by page, the paging loops *)
(* of the client, and what their pages are read from.  A behaviour is one   *)
(* of the scenes; the components of the others rest.                        *)
(***************************************************************************)
EXTENDS ArtifactStore

CONSTANTS
    LastEntry, EntriesPerPage, MaximumPages, MaxChanges,      \* Listing
    Bodies, Maximum, MaxPart, Documents                       \* BoundedXml

VARIABLES
    scene,                                                    \* which component moves
    kind, sound, maximum, start, startAfter, marker, seen,    \* Listing
    pages, result, store, changes, asked, stable, ever,
    job, outcome, written, exceeded                           \* BoundedXml

listing == <<kind, sound, maximum, start, startAfter, marker, seen,
             pages, result, store, changes, asked, stable, ever>>
xml == <<job, outcome, written, exceeded>>
all == <<scene, vars, listing, xml>>

LS == INSTANCE Listing WITH PageSize <- EntriesPerPage, MaxPages <- MaximumPages

BX == INSTANCE BoundedXml WITH result <- outcome

ASSUME ListingsAssumption ==
    ArtifactAssumption /\ LS!ListingAssumption /\ BX!XmlAssumption

-------------------------------------------------------------------------------
ArtifactsRest == crew = (CHOOSE c \in Crews : TRUE) /\ \A d \in Digests : down.digest <= d
ListingRests ==
    /\ kind = 0 /\ sound = 0 /\ maximum = 0 /\ start = 0 /\ startAfter = 0 /\ marker = 0 /\ seen = 0
    /\ pages = 0 /\ result = 0 /\ store = 0 /\ changes = 0 /\ asked = 0 /\ stable = 0 /\ ever = 0
XmlRests == job = 0 /\ outcome = 0 /\ written = 0 /\ exceeded = 0

ScenesInit ==
    /\ Init
    /\ \/ scene = "artifacts" /\ ListingRests /\ XmlRests
       \/ scene = "listing" /\ ArtifactsRest /\ LS!Init /\ XmlRests
       \/ scene = "xml" /\ ArtifactsRest /\ ListingRests /\ BX!Init

ScenesNext ==
    /\ UNCHANGED scene
    /\ \/ scene = "artifacts" /\ Next /\ UNCHANGED <<listing, xml>>
       \/ scene = "listing" /\ LS!Next /\ UNCHANGED <<vars, xml>>
       \/ scene = "xml" /\ BX!Next /\ UNCHANGED <<vars, listing>>

Scenes == ScenesInit /\ [][ScenesNext]_all

-------------------------------------------------------------------------------
(* No page is asked for twice, whatever markers the service returns           *)
(* (list_objects_v2_all and its siblings).                                    *)
NoPageAskedTwice == scene = "listing" => LS!TypeOK /\ LS!NoPageAskedTwice

(* A listing of a sound service that returns Ok has every entry that was there *)
(* all the time, none that never was, and none twice, though other clients    *)
(* change the bucket between two pages (list_objects_v2_all).                  *)
ListingIsExact == scene = "listing" => LS!ListingIsExact

(* An error document is never taken for a result, and one inside a 200 is     *)
(* read as an error; documents with declarations or over the bound are        *)
(* refused before they are parsed; a listing of parts that was accepted can   *)
(* be completed as it stands; and a document to send is written whole or not  *)
(* at all (protocol/xml.rs, protocol/multipart/).                             *)
DocumentsAreReadAsMeant ==
    scene = "xml" =>
        /\ BX!TypeOK
        /\ BX!ErrorsAreNeverResults /\ BX!EmbeddedErrorsAreRead /\ BX!DeclarationsAreRefused
        /\ BX!ListedPartsCanBeCompleted
        /\ BX!DocumentsAreWhole
===============================================================================
