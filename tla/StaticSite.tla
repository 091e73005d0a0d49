----------------------------- MODULE StaticSite -----------------------------
(***************************************************************************)
(* The embedded file, served (staticsite.go) to a browser that keeps a     *)
(* copy of it.  The site prefers the smallest encoding that the request    *)
(* accepts; the copy answers later requests, with other Accept headers and *)
(* after other deployments, and is revalidated by its ETag.                *)
(***************************************************************************)
EXTENDS SiteImages, FiniteSets

CONSTANTS
    Smaller,    \* the compressions that make a version smaller
    Decodes     \* the compressions the browser decodes

ASSUME SiteAssumption ==
    /\ Smaller \in [Versions -> SUBSET {"br", "zstd", "gzip"}]
    /\ Decodes \subseteq {"br", "zstd", "gzip"}

VARIABLE copy   \* the response the browser keeps

vars == <<buildVars, copy>>

\* The encodings of pictures that a request may name; it takes any original.
Accepts == SUBSET Encodings

\* A body: in which type, which version, compressed how, all there.
Body == [type : Kinds \cup Encodings, of : Versions,
         enc : {"identity", "br", "zstd", "gzip"}, whole : BOOLEAN]

Copy == [body : Body, vary : BOOLEAN, accept : Accepts, fresh : BOOLEAN]

TypeOK == ImagesTypeOK /\ copy \in Copy \cup {None}

Init == ImagesInit /\ copy = None

-----------------------------------------------------------------------------
(* staticSite.serve *)

\* negotiate, of the versions that the site has compressed.
Negotiated(v, accepted) ==
    LET offered == accepted \cap Smaller[v]
    IN  IF kind # "css" THEN "identity"
        ELSE IF "br" \in offered THEN "br"
        ELSE IF "zstd" \in offered THEN "zstd"
        ELSE IF "gzip" \in offered THEN "gzip"
        ELSE "identity"

ServedSize(k) == IF site[k].whole THEN Size[site[k].of][k] ELSE 0

\* bestImage: the encodings that are accepted, less the bigger one.
Best(accept) ==
    LET there == {k \in accept : site[k] # None}
    IN  IF there # Encodings THEN there
        ELSE IF ServedSize("webp") < ServedSize("avif") THEN {"webp"} ELSE {"avif"}

\* The body of a full response.
Full(accept) ==
    IF Best(accept) = {}
    THEN [type |-> kind, of |-> site.orig, enc |-> Negotiated(site.orig, Decodes), whole |-> TRUE]
    ELSE LET k == CHOOSE k \in Best(accept) : TRUE
         IN  [type |-> k, of |-> site[k].of, enc |-> "identity", whole |-> site[k].whole]

\* Mutated ETag: one for the file, whatever is served of it.
ETagOfFile(body) == body.of

\* A hash of the content, before compression.
ETag(body) == [body EXCEPT !.enc = "identity"]

\* Mutated Varies: caches are not told.
VariesNever(accept) == FALSE

\* Vary names Accept when an encoding is served.
Varies(accept) == Best(accept) # {}

\* Cache-Control: text is revalidated every time, the rest has a max-age.
LongLived == kind # "css"

-----------------------------------------------------------------------------
(* The browser. *)

\* The copy does for a request without asking.
Usable(accept) ==
    /\ copy # None
    /\ copy.fresh
    /\ copy.vary => accept = copy.accept

\* What may be shown for a request: the copy; or the full response, or the copy
\* after a 304, when its ETag is that of what would be sent.
Shows(accept) ==
    IF Usable(accept) THEN {copy.body}
    ELSE {Full(accept)} \cup
         {c.body : c \in {k \in {copy} \ {None} : ETag(k.body) = ETag(Full(accept))}}

\* A request that the server answers: the browser keeps what it shows.
Request(accept) ==
    /\ ~Usable(accept)
    /\ \E body \in Shows(accept) :
         copy' = [body |-> body, vary |-> Varies(accept),
                  accept |-> IF Varies(accept) THEN accept ELSE {}, fresh |-> LongLived]
    /\ UNCHANGED buildVars

\* The copy's max-age passes.
Expire ==
    /\ copy # None /\ copy.fresh
    /\ copy' = [copy EXCEPT !.fresh = FALSE]
    /\ UNCHANGED buildVars

Next ==
    \/ ImagesNext /\ UNCHANGED copy
    \/ \E a \in Accepts : Request(a)
    \/ Expire

Spec == Init /\ [][Next]_vars

-----------------------------------------------------------------------------

\* No request is shown an encoding it does not accept, whatever request the copy
\* was made for, and whatever was deployed since.
Acceptable ==
    \A a \in Accepts : \A body \in Shows(a) :
        body.type \in a \cup Kinds /\ body.enc \in Decodes \cup {"identity"}

\* staticsite.go: "a deploy's new content is served immediately".  A 304 shows what
\* a 200 would have sent, whichever encoding was kept and whatever was deployed
\* since; and text is never shown without asking.
ShownIsServed ==
    \A a \in Accepts :
        /\ ~Usable(a) => Shows(a) = {Full(a)}
        /\ kind = "css" => ~Usable(a)
=============================================================================
