----------------------------- MODULE SiteImages -----------------------------
(***************************************************************************)
(* One file of the site, from its source to the binary that embeds it.     *)
(* genimg (cmd/genimg/main.go) encodes a picture as AVIF and as WebP, keeps *)
(* an encoding only if it pays, and leaves alone what is at least as new   *)
(* as the picture.  Encodings survive from one build to the next: in the   *)
(* tree itself after `make build`; in a Docker build, in a cache that is   *)
(* copied over the tree before, and copied to after, file by file.         *)
(***************************************************************************)
EXTENDS Naturals

CONSTANTS
    Versions,   \* what the source file may hold
    Pictures,   \* those that can be decoded
    Size,       \* of each version, and of its encodings: 0 if encoding it fails
    None,       \* no file, no picture decoded
    MaxChanges  \* a bound on the changes of the source

Encodings == {"avif", "webp"}

ASSUME ImagesAssumption ==
    /\ Pictures \subseteq Versions
    /\ Size \in [Versions -> [{"orig"} \cup Encodings -> Nat]]
    /\ \A v \in Versions : Size[v]["orig"] > 0
    /\ None \notin Versions
    /\ MaxChanges \in Nat

VARIABLES
    kind,       \* the kind of file it is
    inPlace,    \* the tree is built in place, not in a container
    src,        \* the version of the source
    kept,       \* the encodings kept between builds
    work,       \* the encodings in the tree being built
    stage,      \* where the build is
    img,        \* the version genimg has decoded
    beat,       \* the size an encoding must stay under
    site,       \* what the running binary embeds
    \* History:
    changes,    \* how often the source has changed
    doubt,      \* the times of what is kept may not tell what it is
    unsure      \* nor those of the tree being built

buildVars == <<kind, inPlace, src, kept, work, stage, img, beat, site, changes,
               doubt, unsure>>

\* An encoding: of which version, not older than the source, and all there.
Encoding == [of : Versions, fresh : BOOLEAN, whole : BOOLEAN]
Embedded == [of : Versions, whole : BOOLEAN]

Kinds == {"png", "jpg", "css"}

ImagesTypeOK ==
    /\ kind \in Kinds
    /\ inPlace \in BOOLEAN
    /\ src \in Versions
    /\ kept \in [Encodings -> Encoding \cup {None}]
    /\ work \in [Encodings -> Encoding \cup {None}]
    /\ stage \in {"idle", "save", "embed"} \cup Encodings \cup {"writeAvif", "writeWebp"}
    /\ img \in Pictures \cup {None}
    /\ beat \in Nat
    /\ site \in [orig : Versions, avif : Embedded \cup {None},
                 webp : Embedded \cup {None}, doubt : BOOLEAN]
    /\ changes \in 0..MaxChanges
    /\ doubt \in BOOLEAN /\ unsure \in BOOLEAN

NoEncodings == [k \in Encodings |-> None]

ImagesInit ==
    /\ kind \in Kinds
    /\ inPlace \in BOOLEAN
    /\ src \in Versions
    /\ kept = NoEncodings /\ work = NoEncodings
    /\ stage = "idle" /\ img = None /\ beat = 0
    /\ site = [orig |-> src, avif |-> None, webp |-> None, doubt |-> FALSE]
    /\ changes = 0 /\ doubt = FALSE /\ unsure = FALSE

-----------------------------------------------------------------------------
(* The source. *)

Aged(files) ==
    [k \in Encodings |-> IF files[k] = None THEN None ELSE [files[k] EXCEPT !.fresh = FALSE]]

\* The source is edited, or checked out: it is newer than everything.
Edit(v) ==
    /\ changes < MaxChanges /\ changes' = changes + 1
    /\ stage = "idle" \/ inPlace
    /\ src' = v
    /\ kept' = Aged(kept) /\ work' = Aged(work)
    /\ doubt' = (stage # "idle") /\ unsure' = doubt'
    /\ UNCHANGED <<kind, inPlace, stage, img, beat, site>>

\* The source is replaced by a file that keeps its own time: an encoding may
\* seem the newer one.
Move(v) ==
    /\ changes < MaxChanges /\ changes' = changes + 1
    /\ stage = "idle"
    /\ src' = v
    /\ \E newer \in SUBSET Encodings :
         kept' = [k \in Encodings |->
                    IF kept[k] = None THEN None ELSE [kept[k] EXCEPT !.fresh = (k \in newer)]]
    /\ doubt' = TRUE
    /\ UNCHANGED <<kind, inPlace, work, stage, img, beat, site, unsure>>

\* make clean, or the container's cache is pruned.
Clean ==
    /\ stage = "idle"
    /\ kept' = NoEncodings /\ doubt' = FALSE
    /\ UNCHANGED <<changes, kind, inPlace, src, work, stage, img, beat, site, unsure>>

-----------------------------------------------------------------------------
(* cp -a, of each encoding into a directory that may have one already. *)

\* The part of a file that a broken-off or failed cp leaves: it has the file's own
\* time, or that of the copy, which is newer than any source.
PartOf(f) == {[f EXCEPT !.whole = FALSE, !.fresh = b] : b \in {f.fresh, TRUE}}

\* What there may be after the copy of one encoding: what there was, if there is
\* nothing to copy or cp did not come to it; the copy; or a part of it.
CopyLeaves(from, to, k) ==
    IF from[k] = None THEN {to[k]} ELSE {to[k], from[k]} \cup PartOf(from[k])

Copies(from, to) ==
    {c \in [Encodings -> UNION {CopyLeaves(from, to, k) : k \in Encodings}] :
        \A k \in Encodings : c[k] \in CopyLeaves(from, to, k)}

\* Something was copied in part.
InPart(from, to, c) == \E k \in Encodings : c[k] # from[k] /\ c[k] # to[k]

-----------------------------------------------------------------------------
(* genimg *)

\* What the build has done to its tree shows at once in place.
Built(files) ==
    /\ work' = files
    /\ kept' = IF inPlace THEN files ELSE kept

\* genimg is done with the file: a container's encodings are saved first.
Finished == IF inPlace THEN "embed" ELSE "save"

\* A container's tree gets the encodings of the cache, as far as their copy goes:
\* its errors are dropped.
FillTree ==
    IF inPlace
    THEN work' = kept /\ unsure' = doubt
    ELSE /\ work' \in Copies(kept, NoEncodings)
         /\ unsure' = (doubt \/ InPart(kept, NoEncodings, work'))

\* run comes to the file.
Build ==
    /\ stage = "idle"
    /\ FillTree
    /\ stage' = IF kind = "css" THEN Finished ELSE "avif"
    /\ img' = None
    /\ beat' = Size[src]["orig"]
    /\ UNCHANGED <<changes, kind, inPlace, src, kept, site, doubt>>

\* The stages after an encoding is done with.
AfterStage(k) == IF k = "avif" /\ kind = "png" THEN "webp" ELSE Finished

SizeOf(k) == IF work[k].whole THEN Size[work[k].of][k] ELSE 0

\* A WebP must be smaller than the AVIF, too; one of no size does not count.
Beating(k, size) == IF k = "avif" /\ size \in 1..(beat - 1) THEN size ELSE beat

UpToDate(k) == work[k] # None /\ work[k].fresh

\* variant leaves the encoding alone.
KeepOld(k) ==
    /\ stage = k
    /\ UpToDate(k)
    /\ stage' = AfterStage(k)
    /\ beat' = Beating(k, SizeOf(k))
    /\ UNCHANGED <<changes, kind, inPlace, src, kept, work, img, site, doubt, unsure>>

\* The picture is decoded once, for both encodings.
Decoded == IF img # None THEN img ELSE IF src \in Pictures THEN src ELSE None

CanEncode(k) == Decoded # None /\ Size[Decoded][k] # 0

\* Mutated Pays: a tie is a win.
PaysAtATie(k, v) == Size[v][k] <= beat

Pays(k, v) == Size[v][k] < beat

\* variant encodes the picture: it skips what cannot be decoded or encoded,
\* whatever encoding there was; and it removes what does not pay, unless the
\* removal fails, which it ignores.
Encode(k) ==
    /\ stage = k
    /\ ~UpToDate(k)
    /\ img' = Decoded
    /\ \/ /\ ~CanEncode(k)
          /\ stage' = AfterStage(k)
          /\ UNCHANGED <<work, kept, doubt, unsure>>
       \/ /\ CanEncode(k) /\ Pays(k, Decoded)
          /\ stage' = (IF k = "avif" THEN "writeAvif" ELSE "writeWebp")
          /\ UNCHANGED <<work, kept, doubt, unsure>>
       \/ /\ CanEncode(k) /\ ~Pays(k, Decoded)
          /\ stage' = AfterStage(k)
          /\ \/ Built([work EXCEPT ![k] = None]) /\ UNCHANGED <<doubt, unsure>>
             \/ /\ work[k] # None
                /\ unsure' = TRUE /\ doubt' = (doubt \/ inPlace)
                /\ UNCHANGED <<work, kept>>
    /\ UNCHANGED <<changes, kind, inPlace, src, beat, site>>

Writing(k) == stage = (IF k = "avif" THEN "writeAvif" ELSE "writeWebp")

Write(k) ==
    /\ Writing(k)
    /\ Built([work EXCEPT ![k] = [of |-> img, fresh |-> TRUE, whole |-> TRUE]])
    /\ stage' = AfterStage(k)
    /\ beat' = Beating(k, Size[img][k])
    /\ UNCHANGED <<changes, kind, inPlace, src, img, site, doubt, unsure>>

\* The container's encodings, copied over those in the cache, which keeps what the
\* tree no longer has.
Saving ==
    /\ stage = "save"
    /\ kept' \in Copies(work, kept)
    /\ doubt' = (doubt \/ unsure \/ InPart(work, kept, kept'))

\* The tree is dropped, or, in place, left as it is.
Over == stage' = "idle" /\ img' = None /\ beat' = 0 /\ work' = NoEncodings /\ unsure' = FALSE

\* The build is broken off, or a write fails, which breaks it off: inside a write in
\* place, a part of the encoding stays; and what was saved stays.
Abort ==
    /\ stage # "idle"
    /\ Over
    /\ \/ UNCHANGED <<kept, doubt>>
       \/ /\ inPlace
          /\ \E k \in Encodings :
               /\ Writing(k)
               /\ kept' = [kept EXCEPT ![k] = [of |-> img, fresh |-> TRUE, whole |-> FALSE]]
          /\ doubt' = TRUE
       \/ Saving
    /\ UNCHANGED <<changes, kind, inPlace, src, site>>

\* The encodings are saved for the next build.  A cp that fails does not stop find,
\* nor the build.
Save ==
    /\ Saving
    /\ stage' = "embed"
    /\ UNCHANGED <<changes, kind, inPlace, src, work, img, beat, site, unsure>>

Copied(f) == IF f = None THEN None ELSE [of |-> f.of, whole |-> f.whole]

\* go build embeds the tree; the binary is deployed, or not.
Embed ==
    /\ stage = "embed"
    /\ site' \in {site, [orig |-> src, avif |-> Copied(work["avif"]), webp |-> Copied(work["webp"]),
                         doubt |-> unsure]}
    /\ Over
    /\ UNCHANGED <<changes, kind, inPlace, src, kept, doubt>>

ImagesNext ==
    \/ \E v \in Versions : Edit(v)
    \/ \E v \in Versions : Move(v)
    \/ Clean
    \/ Build
    \/ \E k \in Encodings : KeepOld(k)
    \/ \E k \in Encodings : Encode(k)
    \/ \E k \in Encodings : Write(k)
    \/ Abort
    \/ Save
    \/ Embed

-----------------------------------------------------------------------------

\* An encoding that is embedded is of the picture beside it, whole, and smaller:
\* newStaticSite relies on it ("Their existence already means they beat the
\* source").  So it is for every picture that can be encoded at all, through any
\* number of builds, caches and builds broken off, where the files' times tell of
\* every change.  They do not tell of a source that kept its own time or changed
\* during its build, of the part of a file that a write or a copy left, or of an
\* encoding that could not be removed; until the source is next edited.
VariantsTrue ==
    \A k \in Encodings :
        site[k] # None /\ ~site.doubt =>
            \/ Size[site.orig][k] = 0 \/ site.orig \notin Pictures
            \/ /\ site[k].of = site.orig /\ site[k].whole
               /\ Size[site.orig][k] < Size[site.orig]["orig"]
=============================================================================
