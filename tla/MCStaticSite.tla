---------------------------- MODULE MCStaticSite ----------------------------
(* An instance of StaticSite for TLC. *)
EXTENDS StaticSite, TLC

CONSTANTS none, photo, flat, broken

\* AVIF pays for the photo, and ties with WebP; only WebP pays for the flat one,
\* where AVIF ties with the source; the last cannot be decoded.
MCSize ==
    photo  :> ("orig" :> 3 @@ "avif" :> 2 @@ "webp" :> 2) @@
    flat   :> ("orig" :> 2 @@ "avif" :> 2 @@ "webp" :> 1) @@
    broken :> ("orig" :> 1 @@ "avif" :> 0 @@ "webp" :> 0)

MCSmaller == photo :> {"br", "gzip"} @@ flat :> {"gzip"} @@ broken :> {}

\* Builds are followed through MaxChanges changes of the source, a browser's copy
\* through the first of them: it is compared with what is deployed, and with nothing
\* before that.
OneChangeBrowsed == copy = None \/ changes <= 1
=============================================================================
