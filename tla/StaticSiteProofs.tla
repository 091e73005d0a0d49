-------------------------- MODULE StaticSiteProofs --------------------------
(***************************************************************************)
(* StaticSite for any pictures, sizes and number of changes: what is       *)
(* embedded of a picture is its own, and what a browser shows is what it   *)
(* can show, and what the site would send it.                              *)
(***************************************************************************)
EXTENDS StaticSite, TLAPS

\* An encoding of the source as it is: it is all there, and it pays.
Own(k) == Size[src][k] < Size[src]["orig"]

FileTrue(f, k) == f # None /\ f.fresh => f.of = src /\ f.whole /\ Own(k)

\* Where the times tell of every change, what is fresh is the source's own.
FilesTrue ==
    /\ ~doubt => \A k \in Encodings : FileTrue(kept[k], k)
    /\ ~unsure => \A k \in Encodings : FileTrue(work[k], k)
    /\ inPlace /\ unsure => doubt
    /\ stage = "idle" => work = NoEncodings /\ img = None /\ ~unsure

\* Only a PNG gets a WebP, and only a picture gets an AVIF.
OnlyThese(files) ==
    /\ kind # "png" => files["webp"] = None
    /\ kind = "css" => files["avif"] = None

KindsFit ==
    /\ OnlyThese(kept) /\ OnlyThese(work) /\ OnlyThese(site)
    /\ stage \in {"webp", "writeWebp"} => kind = "png"
    /\ stage \in {"avif", "writeAvif"} => kind # "css"

\* genimg is done with an encoding.
Done(k) == stage \in {"save", "embed"} \/ (k = "avif" /\ stage \in {"webp", "writeWebp"})

WorkTrue(k) ==
    work[k] # None =>
        \/ Size[src][k] = 0 \/ src \notin Pictures
        \/ work[k].of = src /\ work[k].whole /\ Own(k)

\* What a build without doubts has found out about the source.
BuildTrue ==
    /\ \A k \in Encodings : Writing(k) => img # None
    /\ ~unsure /\ stage # "idle" =>
         /\ img \in {None, src}
         /\ beat <= Size[src]["orig"]
         /\ \A k \in Encodings : Writing(k) => Own(k)
         /\ \A k \in Encodings : Done(k) => WorkTrue(k)

ImagesInv == ImagesTypeOK /\ FilesTrue /\ KindsFit /\ BuildTrue /\ VariantsTrue

\* The copy is of something that was once sent: only text is compressed, always
\* the same way; only what varies is an encoding that not every request takes.
CopyTrue ==
    copy # None =>
        /\ copy.body.type \in Kinds =>
             copy.body.type = kind /\ copy.body.enc = Negotiated(copy.body.of, Decodes)
        /\ copy.body.type \in Encodings =>
             copy.body.enc = "identity" /\ copy.vary /\ copy.body.type \in copy.accept
        /\ kind = "css" => ~copy.fresh

Inv == TypeOK /\ ImagesInv /\ CopyTrue

-----------------------------------------------------------------------------
(* The types. *)

LEMMA Truth == ASSUME NEW a, NEW b PROVE (a # b) \in BOOLEAN /\ (a \in b) \in BOOLEAN
  OBVIOUS

LEMMA AtMost ==
    ASSUME NEW a \in Nat, NEW b \in Nat, NEW c \in Nat, b <= c
    PROVE  (a <= b => a <= c) /\ (a < b => a < c)
  OBVIOUS

LEMMA OneMore ==
    ASSUME NEW a \in 0..MaxChanges, a < MaxChanges
    PROVE  a + 1 \in 0..MaxChanges
  BY ImagesAssumption

LEMMA OneWritten ==
    ASSUME NEW j \in Encodings, NEW k \in Encodings,
           (IF j = "avif" THEN "writeAvif" ELSE "writeWebp")
             = (IF k = "avif" THEN "writeAvif" ELSE "writeWebp")
    PROVE  j = k
  BY DEF Encodings

LEMMA SizeType ==
    ASSUME NEW v \in Versions
    PROVE  Size[v]["orig"] \in Nat /\ \A k \in Encodings : Size[v][k] \in Nat
  BY ImagesAssumption DEF Encodings

LEMMA NoneDiffers == None \notin Versions /\ None \notin Pictures /\ Pictures \subseteq Versions
  BY ImagesAssumption

LEMMA NoEncodingsType == NoEncodings \in [Encodings -> Encoding \cup {None}]
  BY DEF NoEncodings

LEMMA AgedType ==
    ASSUME NEW files \in [Encodings -> Encoding \cup {None}]
    PROVE  /\ Aged(files) \in [Encodings -> Encoding \cup {None}]
           /\ \A k \in Encodings : Aged(files)[k] # None => ~Aged(files)[k].fresh
           /\ \A k \in Encodings : files[k] = None => Aged(files)[k] = None
  BY DEF Aged, Encoding

LEMMA BeatingType ==
    ASSUME beat \in Nat, NEW k \in Encodings, NEW size \in Nat
    PROVE  Beating(k, size) \in Nat /\ Beating(k, size) <= beat
  BY DEF Beating

LEMMA AfterType ==
    ASSUME NEW k \in Encodings
    PROVE  /\ AfterStage(k) \in {"webp", "save", "embed"}
           /\ AfterStage(k) = "webp" <=> k = "avif" /\ kind = "png"
  BY DEF AfterStage, Finished, Encodings

LEMMA DecodedType ==
    ASSUME ImagesTypeOK
    PROVE  Decoded \in Pictures \cup {None} /\ (Decoded # None => Decoded \in Versions)
  BY NoneDiffers DEF Decoded, ImagesTypeOK

\* A copy leaves nothing where there was nothing and nothing to copy; and what it
\* leaves whole is what there was, or what was copied.
LEMMA CopiesType ==
    ASSUME NEW from \in [Encodings -> Encoding \cup {None}],
           NEW to \in [Encodings -> Encoding \cup {None}],
           NEW c \in Copies(from, to)
    PROVE  /\ c \in [Encodings -> Encoding \cup {None}]
           /\ \A k \in Encodings : from[k] = None => c[k] = to[k]
           /\ ~InPart(from, to, c) => \A k \in Encodings : c[k] \in {from[k], to[k]}
<1>1. ASSUME NEW f \in Encoding PROVE PartOf(f) \subseteq Encoding
  BY DEF PartOf, Encoding
<1>2. ASSUME NEW k \in Encodings PROVE CopyLeaves(from, to, k) \subseteq Encoding \cup {None}
  BY <1>1 DEF CopyLeaves
<1>3. /\ c \in [Encodings -> UNION {CopyLeaves(from, to, k) : k \in Encodings}]
      /\ \A k \in Encodings : c[k] \in CopyLeaves(from, to, k)
  BY DEF Copies
<1>4. c \in [Encodings -> Encoding \cup {None}]
  BY <1>2, <1>3
<1>5. \A k \in Encodings : from[k] = None => c[k] = to[k]
  BY <1>3 DEF CopyLeaves
<1> QED  BY <1>4, <1>5 DEF InPart

LEMMA CopiedType ==
    ASSUME NEW f \in Encoding \cup {None}
    PROVE  /\ Copied(f) \in Embedded \cup {None}
           /\ Copied(f) # None => f # None /\ Copied(f).of = f.of /\ Copied(f).whole = f.whole
  BY DEF Copied, Encoding, Embedded

LEMMA ImagesTypeStep == ImagesInv /\ [ImagesNext]_buildVars => ImagesTypeOK'
<1> SUFFICES ASSUME ImagesInv, [ImagesNext]_buildVars PROVE ImagesTypeOK'
  OBVIOUS
<1>0. ImagesTypeOK
  BY DEF ImagesInv
<1> USE <1>0 DEF ImagesTypeOK
<1>1. ASSUME NEW v \in Versions, Edit(v) PROVE ImagesTypeOK'
  <2>1. kept' \in [Encodings -> Encoding \cup {None}] /\ work' \in [Encodings -> Encoding \cup {None}]
    BY <1>1, AgedType DEF Edit
  <2>2. changes' \in 0..MaxChanges
    <3>1. changes \in 0..MaxChanges /\ changes < MaxChanges /\ changes' = changes + 1
      BY <1>1 DEF Edit
    <3> QED  BY <3>1, OneMore
  <2>3. doubt' \in BOOLEAN /\ unsure' \in BOOLEAN
    <3>1. doubt' = (stage # "idle") /\ unsure' = doubt'
      BY <1>1 DEF Edit
    <3> QED  BY <3>1, Truth
  <2> QED  BY <1>1, <2>1, <2>2, <2>3 DEF Edit
<1>2. ASSUME NEW v \in Versions, Move(v) PROVE ImagesTypeOK'
  <2>1. kept' \in [Encodings -> Encoding \cup {None}]
    <3>1. PICK newer \in SUBSET Encodings :
            kept' = [k \in Encodings |->
                       IF kept[k] = None THEN None ELSE [kept[k] EXCEPT !.fresh = (k \in newer)]]
      BY <1>2 DEF Move
    <3>2. ASSUME NEW f \in Encoding, NEW b \in BOOLEAN PROVE [f EXCEPT !.fresh = b] \in Encoding
      BY DEF Encoding
    <3>3. \A k \in Encodings : (k \in newer) \in BOOLEAN
      BY Truth
    <3>4. ASSUME NEW k \in Encodings PROVE kept'[k] \in Encoding \cup {None}
      BY <3>1, <3>2, <3>3
    <3> QED  BY <3>1, <3>4
  <2>2. changes' \in 0..MaxChanges
    BY <1>2, ImagesAssumption DEF Move
  <2> QED  BY <1>2, <2>1, <2>2 DEF Move
<1>3. CASE Clean
  BY <1>3, NoEncodingsType DEF Clean
<1>4. CASE Build
  <2>1. work' \in [Encodings -> Encoding \cup {None}]
    BY <1>4, CopiesType, NoEncodingsType DEF Build, FillTree
  <2>2. unsure' \in BOOLEAN
    BY <1>4, Truth DEF Build, FillTree
  <2>3. stage' \in {"save", "embed", "avif"} /\ beat' \in Nat
    BY <1>4, SizeType DEF Build, FillTree, Finished
  <2> QED  BY <1>4, <2>1, <2>2, <2>3 DEF Build, FillTree, Encodings
<1>5. ASSUME NEW k \in Encodings, KeepOld(k) PROVE ImagesTypeOK'
  <2>1. SizeOf(k) \in Nat
    BY <1>5, SizeType DEF KeepOld, UpToDate, SizeOf, Encoding
  <2>2. beat' \in Nat
    BY <1>5, <2>1, BeatingType DEF KeepOld
  <2>3. stage' \in {"webp", "save", "embed"}
    BY <1>5, AfterType DEF KeepOld
  <2> QED  BY <1>5, <2>2, <2>3 DEF KeepOld, Encodings
<1>6. ASSUME NEW k \in Encodings, Encode(k) PROVE ImagesTypeOK'
  <2>1. img' \in Pictures \cup {None}
    BY <1>6, DecodedType DEF Encode
  <2>2. stage' \in {"webp", "save", "embed", "writeAvif", "writeWebp"}
    BY <1>6, AfterType DEF Encode
  <2>3. kept' \in [Encodings -> Encoding \cup {None}] /\ work' \in [Encodings -> Encoding \cup {None}]
    BY <1>6 DEF Encode, Built
  <2>4. doubt' \in BOOLEAN /\ unsure' \in BOOLEAN
    BY <1>6, Truth DEF Encode
  <2> QED  BY <1>6, <2>1, <2>2, <2>3, <2>4 DEF Encode, Encodings
<1>7. ASSUME NEW k \in Encodings, Write(k) PROVE ImagesTypeOK'
  <2>1. img \in Versions
    BY <1>7, NoneDiffers DEF ImagesInv, BuildTrue, Write
  <2>2. kept' \in [Encodings -> Encoding \cup {None}] /\ work' \in [Encodings -> Encoding \cup {None}]
    BY <1>7, <2>1 DEF Write, Built, Encoding
  <2>3. beat' \in Nat
    BY <1>7, <2>1, SizeType, BeatingType DEF Write
  <2>4. stage' \in {"webp", "save", "embed"}
    BY <1>7, AfterType DEF Write
  <2> QED  BY <1>7, <2>2, <2>3, <2>4 DEF Write, Encodings
<1>8. CASE Abort
  <2>1. kept' \in [Encodings -> Encoding \cup {None}]
    <3>1. ASSUME NEW k \in Encodings, Writing(k),
                 kept' = [kept EXCEPT ![k] = [of |-> img, fresh |-> TRUE, whole |-> FALSE]]
          PROVE  kept' \in [Encodings -> Encoding \cup {None}]
      <4>1. img \in Versions
        BY <3>1, NoneDiffers DEF ImagesInv, BuildTrue
      <4> QED  BY <3>1, <4>1 DEF Encoding
    <3> QED  BY <1>8, <3>1, CopiesType DEF Abort, Saving
  <2>2. doubt' \in BOOLEAN
    BY <1>8, Truth DEF Abort, Saving
  <2> QED  BY <1>8, <2>1, <2>2, NoEncodingsType DEF Abort, Over
<1>9. CASE Embed
  <2>2. work["avif"] \in Encoding \cup {None} /\ work["webp"] \in Encoding \cup {None}
    BY DEF Encodings
  <2>3. site' \in [orig : Versions, avif : Embedded \cup {None},
                   webp : Embedded \cup {None}, doubt : BOOLEAN]
    BY <1>9, <2>2, CopiedType DEF Embed
  <2> QED  BY <1>9, <2>3, NoEncodingsType DEF Embed, Over
<1>10. CASE Save
  <2>1. kept' \in [Encodings -> Encoding \cup {None}] /\ doubt' \in BOOLEAN
    BY <1>10, CopiesType, Truth DEF Save, Saving
  <2> QED  BY <1>10, <2>1 DEF Save
<1>11. CASE UNCHANGED buildVars
  BY <1>11 DEF buildVars
<1> QED
  BY <1>1, <1>2, <1>3, <1>4, <1>5, <1>6, <1>7, <1>8, <1>9, <1>10, <1>11
     DEF ImagesNext

LEMMA ImagesInitInv == ImagesInit => ImagesInv
<1> SUFFICES ASSUME ImagesInit PROVE ImagesInv
  OBVIOUS
<1>1. ImagesTypeOK
  <2>1. changes \in 0..MaxChanges /\ beat \in Nat
    BY ImagesAssumption DEF ImagesInit
  <2>2. site \in [orig : Versions, avif : Embedded \cup {None}, webp : Embedded \cup {None}, doubt : BOOLEAN]
    BY DEF ImagesInit
  <2> QED  BY <2>1, <2>2, NoEncodingsType DEF ImagesInit, ImagesTypeOK
<1>2. NoEncodings["avif"] = None /\ NoEncodings["webp"] = None /\ \A k \in Encodings : NoEncodings[k] = None
  BY DEF NoEncodings, Encodings
<1>3. site["avif"] = None /\ site["webp"] = None
  BY DEF ImagesInit
<1>4. FilesTrue
  BY <1>2 DEF ImagesInit, FilesTrue, FileTrue
<1>5. KindsFit
  BY <1>2, <1>3 DEF ImagesInit, KindsFit, OnlyThese, Encodings
<1>6. BuildTrue
  BY DEF ImagesInit, BuildTrue, Writing
<1>7. VariantsTrue
  BY <1>3 DEF VariantsTrue, Encodings
<1> QED  BY <1>1, <1>4, <1>5, <1>6, <1>7 DEF ImagesInv

-----------------------------------------------------------------------------
(* What is built. *)

LEMMA FilesStep == ImagesInv /\ [ImagesNext]_buildVars => FilesTrue'
<1> SUFFICES ASSUME ImagesInv, [ImagesNext]_buildVars PROVE FilesTrue'
  OBVIOUS
<1>0. ImagesTypeOK /\ FilesTrue /\ BuildTrue
  BY DEF ImagesInv
<1> USE <1>0 DEF ImagesTypeOK
<1>1. ASSUME NEW v \in Versions, Edit(v) PROVE FilesTrue'
  <2>1. \A k \in Encodings : FileTrue(kept[k], k)' /\ FileTrue(work[k], k)'
    BY <1>1, AgedType DEF Edit, FileTrue
  <2>2. NoEncodings = Aged(NoEncodings)
    BY DEF NoEncodings, Aged
  <2> QED  BY <1>1, <2>1, <2>2 DEF Edit, FilesTrue
<1>2. ASSUME NEW v \in Versions, Move(v) PROVE FilesTrue'
  BY <1>2 DEF Move, FilesTrue, FileTrue, NoEncodings
<1>3. CASE Clean
  BY <1>3 DEF Clean, FilesTrue, FileTrue, NoEncodings
<1>4. CASE Build
  <2>1. \A k \in Encodings : NoEncodings[k] = None
    BY DEF NoEncodings
  <2>2. ~unsure' => \A k \in Encodings : work'[k] \in {kept[k], None}
    <3>1. CASE inPlace
      BY <1>4, <3>1 DEF Build, FillTree
    <3>2. CASE ~inPlace
      <4>1. /\ work' \in Copies(kept, NoEncodings)
            /\ unsure' = (doubt \/ InPart(kept, NoEncodings, work'))
        BY <1>4, <3>2 DEF Build, FillTree
      <4>2. ~InPart(kept, NoEncodings, work') =>
              \A k \in Encodings : work'[k] \in {kept[k], NoEncodings[k]}
        BY <4>1, CopiesType, NoEncodingsType
      <4> QED  BY <2>1, <4>1, <4>2
    <3> QED  BY <3>1, <3>2
  <2>3. (~unsure' => ~doubt) /\ (inPlace /\ unsure' => doubt) /\ UNCHANGED <<inPlace, src, kept, doubt>>
    BY <1>4 DEF Build, FillTree
  <2>4. stage' # "idle"
    BY <1>4 DEF Build, FillTree, Finished
  <2> QED  BY <2>2, <2>3, <2>4 DEF FilesTrue, FileTrue, Own
<1>5. ASSUME NEW k \in Encodings, KeepOld(k) PROVE FilesTrue'
  BY <1>5, AfterType DEF KeepOld, FilesTrue, FileTrue, Own
\* What genimg does to the tree shows in what is kept only in place, where the tree is
\* in no more doubt than what is kept.
<1>6. ASSUME stage' # "idle", UNCHANGED <<inPlace, src>>, inPlace /\ unsure' => doubt',
             doubt => doubt', kept' = kept \/ (inPlace /\ kept' = work'),
             ~unsure' => \A j \in Encodings : FileTrue(work[j], j)'
      PROVE  FilesTrue'
  <2>1. ASSUME ~doubt', NEW j \in Encodings PROVE FileTrue(kept[j], j)'
    <3>1. CASE kept' = kept
      BY <1>6, <2>1, <3>1 DEF FilesTrue, FileTrue, Own
    <3>2. CASE inPlace /\ kept' = work'
      BY <1>6, <2>1, <3>2 DEF FileTrue
    <3> QED  BY <1>6, <3>1, <3>2
  <2> QED  BY <1>6, <2>1 DEF FilesTrue
<1>7. ASSUME NEW k \in Encodings, Encode(k) PROVE FilesTrue'
  <2>1. stage' # "idle" /\ UNCHANGED <<inPlace, src>>
    BY <1>7, AfterType DEF Encode
  <2>2. (inPlace /\ unsure' => doubt') /\ (doubt => doubt') /\ (unsure => unsure')
    <3>1. UNCHANGED <<doubt, unsure>> \/ (unsure' = TRUE /\ doubt' = (doubt \/ inPlace))
      BY <1>7, Zenon DEF Encode
    <3>2. inPlace /\ unsure => doubt
      BY DEF FilesTrue
    <3> QED  BY <2>1, <3>1, <3>2
  <2>3. kept' = kept \/ (inPlace /\ kept' = work')
    BY <1>7, Zenon DEF Encode, Built
  <2>4. work' = work \/ work' = [work EXCEPT ![k] = None]
    BY <1>7, Zenon DEF Encode, Built
  <2>5. ASSUME ~unsure', NEW j \in Encodings PROVE FileTrue(work[j], j)'
    <3>1. FileTrue(work[j], j)
      BY <2>2, <2>5 DEF FilesTrue
    <3> QED  BY <2>1, <2>4, <3>1 DEF FileTrue, Own
  <2> QED  BY <1>6, <2>1, <2>2, <2>3, <2>5
<1>8. ASSUME NEW k \in Encodings, Write(k) PROVE FilesTrue'
  <2>1. stage' # "idle" /\ UNCHANGED <<inPlace, src, doubt, unsure>>
    BY <1>8, AfterType DEF Write
  <2>2. ASSUME ~unsure' PROVE img = src /\ Own(k)
    BY <1>8, <2>1, <2>2 DEF Write, Writing, BuildTrue, Encodings
  <2>3. ASSUME ~unsure', NEW j \in Encodings PROVE FileTrue(work[j], j)'
    <3>1. FileTrue(work[j], j)
      BY <2>1, <2>3 DEF FilesTrue
    <3> QED  BY <1>8, <2>1, <2>2, <2>3, <3>1 DEF Write, Built, FileTrue, Own
  <2>4. kept' = kept \/ (inPlace /\ kept' = work')
    BY <1>8, Zenon DEF Write, Built
  <2>5. inPlace /\ unsure => doubt
    BY DEF FilesTrue
  <2> QED  BY <1>6, <2>1, <2>3, <2>4, <2>5
\* A copy to the cache that is whole, of a tree that is in no doubt.
<1>9. ASSUME Saving, UNCHANGED src PROVE ~doubt' => \A k \in Encodings : FileTrue(kept[k], k)'
  <2>1. ~doubt' => \A k \in Encodings : kept'[k] \in {work[k], kept[k]}
    BY <1>9, CopiesType DEF Saving
  <2>2. ~doubt' => ~doubt /\ ~unsure
    BY <1>9 DEF Saving
  <2> QED  BY <1>9, <2>1, <2>2 DEF FilesTrue, FileTrue, Own
<1>10. CASE Abort
  <2>1. \A k \in Encodings : NoEncodings[k] = None
    BY DEF NoEncodings
  <2>2. doubt' = TRUE \/ (kept' = kept /\ doubt' = doubt) \/ Saving
    BY <1>10, Zenon DEF Abort
  <2>3. work' = NoEncodings /\ img' = None /\ src' = src /\ unsure' = FALSE
    BY <1>10 DEF Abort, Over
  <2>4. ~doubt' => \A k \in Encodings : FileTrue(kept[k], k)'
    BY <1>9, <2>2, <2>3 DEF FilesTrue, FileTrue, Own
  <2> QED  BY <2>1, <2>3, <2>4 DEF FilesTrue, FileTrue
<1>11. CASE Save
  <2>1. UNCHANGED <<inPlace, src, work, unsure>> /\ stage' # "idle" /\ (doubt => doubt')
    BY <1>11 DEF Save, Saving
  <2>2. ~doubt' => \A k \in Encodings : FileTrue(kept[k], k)'
    BY <1>9, <1>11, <2>1 DEF Save
  <2> QED  BY <2>1, <2>2 DEF FilesTrue, FileTrue, Own
<1>12. CASE Embed
  BY <1>12 DEF Embed, Over, FilesTrue, FileTrue, Own, NoEncodings
<1>13. CASE UNCHANGED buildVars
  BY <1>13 DEF buildVars, FilesTrue, FileTrue, Own
<1> QED
  BY <1>1, <1>2, <1>3, <1>4, <1>5, <1>7, <1>8, <1>10, <1>11, <1>12, <1>13 DEF ImagesNext

LEMMA KindsStep == ImagesInv /\ [ImagesNext]_buildVars => KindsFit'
<1> SUFFICES ASSUME ImagesInv, [ImagesNext]_buildVars PROVE KindsFit'
  OBVIOUS
<1>0. ImagesTypeOK /\ KindsFit
  BY DEF ImagesInv
<1> USE <1>0 DEF ImagesTypeOK, KindsFit, OnlyThese, Encodings
<1>1. ASSUME NEW v \in Versions, Edit(v) PROVE KindsFit'
  BY <1>1 DEF Edit, Aged
<1>2. ASSUME NEW v \in Versions, Move(v) PROVE KindsFit'
  BY <1>2 DEF Move
<1>3. CASE Clean
  BY <1>3 DEF Clean, NoEncodings
<1>4. CASE Build
  <2>1. OnlyThese(work)'
    <3>1. \A k \in Encodings : kept[k] = None => work'[k] = None
      BY <1>4, CopiesType, NoEncodingsType DEF Build, FillTree, NoEncodings
    <3> QED  BY <1>4, <3>1 DEF Build, FillTree
  <2> QED  BY <1>4, <2>1 DEF Build, FillTree, Finished
<1>5. ASSUME NEW k \in Encodings, KeepOld(k) PROVE KindsFit'
  BY <1>5, AfterType DEF KeepOld
<1>6. ASSUME NEW k \in Encodings, Encode(k) PROVE KindsFit'
  <2>1. stage' \in {"webp", "writeWebp"} => kind = "png"
    BY <1>6, AfterType DEF Encode
  <2>2. stage' = "writeAvif" => kind # "css"
    BY <1>6, AfterType DEF Encode
  <2>3. OnlyThese(work)' /\ OnlyThese(kept)'
    BY <1>6 DEF Encode, Built
  <2> QED  BY <1>6, <2>1, <2>2, <2>3, AfterType DEF Encode
<1>7. ASSUME NEW k \in Encodings, Write(k) PROVE KindsFit'
  <2>1. (k = "webp" => kind = "png") /\ kind # "css"
    BY <1>7 DEF Write, Writing
  <2>2. OnlyThese(work)' /\ OnlyThese(kept)'
    BY <1>7, <2>1 DEF Write, Built
  <2> QED  BY <1>7, <2>1, <2>2, AfterType DEF Write
<1>8. CASE Abort
  <2>1. ASSUME NEW k \in Encodings, Writing(k),
               kept' = [kept EXCEPT ![k] = [of |-> img, fresh |-> TRUE, whole |-> FALSE]]
        PROVE  OnlyThese(kept)
    OBVIOUS
  <2>2. OnlyThese(kept)'
    <3>1. ASSUME Saving PROVE \A k \in Encodings : work[k] = None /\ kept[k] = None => kept'[k] = None
      BY <3>1, CopiesType DEF Saving
    <3> QED  BY <1>8, <3>1 DEF Abort, Writing
  <2> QED  BY <1>8, <2>2 DEF Abort, Over, NoEncodings
<1>9. CASE Embed
  <2>1. OnlyThese(kept)' /\ OnlyThese(work)'
    BY <1>9 DEF Embed, Over, NoEncodings
  <2>2. OnlyThese(site)'
    BY <1>9 DEF Embed, Copied
  <2> QED  BY <1>9, <2>1, <2>2 DEF Embed, Over
<1>10. CASE Save
  <2>1. \A k \in Encodings : work[k] = None /\ kept[k] = None => kept'[k] = None
    BY <1>10, CopiesType DEF Save, Saving
  <2> QED  BY <1>10, <2>1 DEF Save
<1>11. CASE UNCHANGED buildVars
  BY <1>11 DEF buildVars
<1> QED
  BY <1>1, <1>2, <1>3, <1>4, <1>5, <1>6, <1>7, <1>8, <1>9, <1>10, <1>11
     DEF ImagesNext

LEMMA Found ==
    ASSUME ImagesInv, ~unsure, NEW k \in Encodings, stage = k \/ Writing(k)
    PROVE  /\ img \in {None, src} /\ beat <= Size[src]["orig"]
           /\ Writing(k) => img = src /\ Own(k)
<1>1. stage # "idle"
  BY DEF Encodings, Writing
<1> QED  BY <1>1 DEF ImagesInv, BuildTrue

LEMMA BuildStep == ImagesInv /\ [ImagesNext]_buildVars => BuildTrue'
<1> SUFFICES ASSUME ImagesInv, [ImagesNext]_buildVars PROVE BuildTrue'
  OBVIOUS
<1>0. ImagesTypeOK /\ FilesTrue /\ KindsFit /\ BuildTrue
  BY DEF ImagesInv
<1> USE <1>0 DEF ImagesTypeOK
<1>1. ASSUME NEW v \in Versions, Edit(v) PROVE BuildTrue'
  BY <1>1 DEF Edit, BuildTrue, Writing
<1>2. ASSUME NEW v \in Versions, Move(v) PROVE BuildTrue'
  BY <1>2 DEF Move, BuildTrue, Writing
<1>3. CASE Clean
  BY <1>3 DEF Clean, BuildTrue, Writing
<1>4. CASE Build
  <2>1. \A k \in Encodings : ~Writing(k)' /\ (Done(k)' => kind = "css")
    BY <1>4 DEF Build, FillTree, Finished, Writing, Done
  <2>2. \A k \in Encodings : kept[k] = None => work'[k] = None
    BY <1>4, CopiesType, NoEncodingsType DEF Build, FillTree, NoEncodings
  <2>3. kind = "css" => \A k \in Encodings : work'[k] = None
    BY <2>2 DEF KindsFit, OnlyThese, Encodings
  <2> QED  BY <1>4, <2>1, <2>3, SizeType DEF Build, FillTree, BuildTrue, WorkTrue
\* What a build knows of the encodings it is done with, once it has dealt with one more.
<1>5. ASSUME NEW k \in Encodings, stage \in {k, "writeAvif", "writeWebp"}, stage = k \/ Writing(k),
             stage' = AfterStage(k), img' \in Pictures \cup {None}, UNCHANGED <<kind, inPlace, src>>, ~unsure' => ~unsure,
             \A j \in Encodings : j # k => work'[j] = work[j],
             ~unsure' => /\ img' \in {None, src} /\ beat' <= Size[src]["orig"]
                         /\ WorkTrue(k)'
      PROVE  BuildTrue'
  <2>1. \A j \in Encodings : ~Writing(j)'
    BY <1>5, AfterType DEF Writing
  <2>2. ASSUME ~unsure', NEW j \in Encodings, Done(j)' PROVE WorkTrue(j)'
    <3>1. CASE j = k
      BY <1>5, <2>2, <3>1
    <3>2. CASE j = "avif" /\ k = "webp"
      <4>1. stage \in {"webp", "writeWebp"} /\ WorkTrue(j)
        BY <1>5, <2>2, <3>2 DEF Writing, BuildTrue, Done
      <4> QED  BY <1>5, <3>2, <4>1 DEF WorkTrue, Own
    <3>3. CASE j = "webp" /\ k = "avif"
      <4>1. stage' \in {"save", "embed"} /\ kind # "png"
        BY <1>5, <2>2, <3>3, AfterType DEF Done
      <4>2. work[j] = None
        BY <3>3, <4>1 DEF KindsFit, OnlyThese
      <4> QED  BY <1>5, <3>3, <4>2 DEF WorkTrue
    <3> QED  BY <3>1, <3>2, <3>3 DEF Encodings
  <2> QED  BY <1>5, <2>1, <2>2 DEF BuildTrue
<1>6. ASSUME NEW k \in Encodings, KeepOld(k) PROVE BuildTrue'
  <2>1. SizeOf(k) \in Nat
    BY <1>6, SizeType DEF KeepOld, UpToDate, SizeOf, Encoding
  <2>2. ~unsure => img' \in {None, src} /\ beat' <= Size[src]["orig"]
    <3>1. beat' \in Nat /\ beat' <= beat /\ beat \in Nat /\ img' = img /\ stage = k
      BY <1>6, <2>1, BeatingType DEF KeepOld
    <3>2. ~unsure => img \in {None, src} /\ beat <= Size[src]["orig"]
      BY <3>1, Found
    <3>3. Size[src]["orig"] \in Nat
      BY SizeType
    <3> QED  BY <3>1, <3>2, <3>3, AtMost
  <2>3. ~unsure => WorkTrue(k)'
    BY <1>6 DEF KeepOld, UpToDate, FilesTrue, FileTrue, WorkTrue, Own
  <2> QED  BY <1>5, <1>6, <2>2, <2>3 DEF KeepOld
<1>7. ASSUME NEW k \in Encodings, Encode(k) PROVE BuildTrue'
  <2>0. img' = Decoded /\ UNCHANGED <<kind, inPlace, src, beat>> /\ stage = k
    BY <1>7 DEF Encode
  <2>1. ~unsure => img' \in {None, src} /\ beat' <= Size[src]["orig"] /\ (img' = None => src \notin Pictures)
    BY <2>0, NoneDiffers DEF Decoded, BuildTrue, Encodings
  <2>2. img' \in Pictures \cup {None}
    BY <1>7, DecodedType DEF Encode
  <2>3. CASE ~CanEncode(k)
    <3>1. stage' = AfterStage(k) /\ UNCHANGED <<work, unsure>>
      BY <1>7, <2>3 DEF Encode
    <3>2. ~unsure => WorkTrue(k)'
      BY <2>0, <2>1, <2>3, <3>1 DEF CanEncode, WorkTrue
    <3> QED  BY <1>5, <2>0, <2>1, <2>2, <3>1, <3>2
  <2>4. CASE CanEncode(k) /\ ~Pays(k, Decoded)
    <3>1. /\ stage' = AfterStage(k)
          /\ \/ unsure' = TRUE /\ work' = work
             \/ unsure' = unsure /\ work' = [work EXCEPT ![k] = None]
      BY <1>7, <2>4, Zenon DEF Encode, Built
    <3>2. /\ \A j \in Encodings : j # k => work'[j] = work[j]
          /\ ~unsure' => ~unsure /\ work'[k] = None
      BY <3>1
    <3>3. ~unsure' => WorkTrue(k)'
      BY <3>2 DEF WorkTrue
    <3> QED  BY <1>5, <2>0, <2>1, <2>2, <3>1, <3>2, <3>3
  <2>5. CASE CanEncode(k) /\ Pays(k, Decoded)
    <3>1. /\ stage' = (IF k = "avif" THEN "writeAvif" ELSE "writeWebp")
          /\ UNCHANGED <<kind, src, work, beat, unsure>>
      BY <1>7, <2>5 DEF Encode
    <3>2. \A j \in Encodings : Writing(j)' => j = k
      BY <3>1, OneWritten DEF Writing
    <3>3. ~unsure => Own(k)
      <4>1. ~unsure => Size[src][k] < beat /\ beat <= Size[src]["orig"]
        BY <2>0, <2>1, <2>5, <3>1 DEF CanEncode, Pays
      <4>2. Size[src][k] \in Nat /\ Size[src]["orig"] \in Nat /\ beat \in Nat
        BY SizeType
      <4> QED  BY <4>1, <4>2, AtMost DEF Own
    <3>4. \A j \in Encodings : Done(j)' => Done(j)
      BY <1>7, <3>1 DEF Done, Encode, Encodings
    <3> QED
      <4>1. \A j \in Encodings : Writing(j)' => img' # None /\ (~unsure => Own(j)')
        <5>1. Own(k)' <=> Own(k)
          BY <3>1 DEF Own
        <5> QED  BY <2>0, <2>5, <3>2, <3>3, <5>1 DEF CanEncode
      <4>2. \A j \in Encodings : ~unsure /\ Done(j)' => WorkTrue(j)'
        BY <1>7, <3>1, <3>4, <2>1 DEF BuildTrue, WorkTrue, Own, Encode, Encodings
      <4> QED  BY <2>1, <3>1, <4>1, <4>2 DEF BuildTrue
  <2> QED  BY <2>3, <2>4, <2>5
<1>8. ASSUME NEW k \in Encodings, Write(k) PROVE BuildTrue'
  <2>1. img \in Versions /\ img \in Pictures
    BY <1>8, NoneDiffers DEF Write, BuildTrue
  <2>2. ~unsure => img = src /\ Own(k)
    BY <1>8, Found DEF Write
  <2>3. ~unsure => beat' <= Size[src]["orig"]
    <3>1. beat' \in Nat /\ beat' <= beat
      BY <1>8, <2>1, SizeType, BeatingType DEF Write
    <3>2. ~unsure => beat <= Size[src]["orig"]
      BY <1>8, Found DEF Write
    <3>3. Size[src]["orig"] \in Nat /\ beat \in Nat
      BY SizeType
    <3> QED  BY <3>1, <3>2, <3>3, AtMost
  <2>4. /\ work'[k] = [of |-> img, fresh |-> TRUE, whole |-> TRUE]
        /\ \A j \in Encodings : j # k => work'[j] = work[j]
    BY <1>8 DEF Write, Built
  <2>5. ~unsure => WorkTrue(k)'
    <3>1. work'[k].of = img /\ work'[k].whole = TRUE
      BY <2>4
    <3>2. src' = src
      BY <1>8 DEF Write
    <3> QED  BY <2>2, <3>1, <3>2 DEF WorkTrue, Own
  <2> QED  BY <1>5, <1>8, <2>1, <2>2, <2>3, <2>4, <2>5 DEF Write, Writing
<1>9. CASE Abort
  BY <1>9 DEF Abort, Over, BuildTrue, Writing
<1>10. CASE Save
  <2>1. stage = "save" /\ stage' = "embed" /\ UNCHANGED <<src, work, img, beat, unsure>>
    BY <1>10 DEF Save, Saving
  <2> QED  BY <2>1 DEF BuildTrue, Writing, Done, WorkTrue, Own
<1>11. CASE Embed
  BY <1>11 DEF Embed, Over, BuildTrue, Writing
<1>12. CASE UNCHANGED buildVars
  BY <1>12 DEF buildVars, BuildTrue, Writing, Done, WorkTrue, Own
<1> QED
  BY <1>1, <1>2, <1>3, <1>4, <1>6, <1>7, <1>8, <1>9, <1>10, <1>11, <1>12 DEF ImagesNext

LEMMA VariantsStep == ImagesInv /\ [ImagesNext]_buildVars => VariantsTrue'
<1> SUFFICES ASSUME ImagesInv, [ImagesNext]_buildVars PROVE VariantsTrue'
  OBVIOUS
<1>1. CASE site' = site
  BY <1>1 DEF ImagesInv, VariantsTrue
<1>2. CASE Embed /\ site' # site
  <2>1. /\ stage = "embed"
        /\ site' = [orig |-> src, avif |-> Copied(work["avif"]), webp |-> Copied(work["webp"]),
                    doubt |-> unsure]
    BY <1>2 DEF Embed
  <2>2. ASSUME NEW k \in Encodings, site'[k] # None, ~unsure
        PROVE  \/ Size[src][k] = 0 \/ src \notin Pictures
               \/ site'[k].of = src /\ site'[k].whole /\ Size[src][k] < Size[src]["orig"]
    <3>1. site'[k] = Copied(work[k])
      BY <2>1 DEF Encodings
    <3>2. work[k] \in Encoding \cup {None}
      BY DEF ImagesInv, ImagesTypeOK
    <3>3. work[k] # None /\ site'[k].of = work[k].of /\ site'[k].whole = work[k].whole
      BY <2>2, <3>1, <3>2, CopiedType
    <3>4. WorkTrue(k)
      BY <2>1, <2>2 DEF ImagesInv, BuildTrue, Done
    <3> QED  BY <3>3, <3>4 DEF WorkTrue, Own
  <2>3. site'.orig = src /\ site'.doubt = unsure
    BY <2>1
  <2> QED  BY <2>2, <2>3 DEF VariantsTrue
<1>3. ASSUME ~Embed PROVE site' = site
  BY <1>3 DEF ImagesNext, Edit, Move, Clean, Build, KeepOld, Encode, Write, Abort, Save, buildVars
<1> QED  BY <1>1, <1>2, <1>3

LEMMA ImagesStep == ImagesInv /\ [ImagesNext]_buildVars => ImagesInv'
  BY ImagesTypeStep, FilesStep, KindsStep, BuildStep, VariantsStep DEF ImagesInv

-----------------------------------------------------------------------------
(* What is shown. *)

\* A full response is in what was asked for, and compressed as it always is.
LEMMA FullIs ==
    ASSUME NEW a \in Accepts
    PROVE  /\ Best(a) = {} =>
                /\ Full(a).type = kind /\ Full(a).of = site.orig
                /\ Full(a).enc = Negotiated(site.orig, Decodes)
           /\ Best(a) # {} =>
                /\ Full(a).type \in Best(a) /\ Full(a).enc = "identity"
                /\ Full(a).type \in Encodings /\ site[Full(a).type] # None
                /\ Full(a).of = site[Full(a).type].of /\ Full(a).whole = site[Full(a).type].whole
           /\ Best(a) \subseteq a
<1>1. Best(a) \subseteq {k \in a : site[k] # None}
  BY DEF Best, Encodings
<1>2. CASE Best(a) = {}
  BY <1>2 DEF Full
<1>3. CASE Best(a) # {}
  <2> DEFINE k == CHOOSE k \in Best(a) : TRUE
  <2>1. k \in Best(a)
    BY <1>3
  <2>2. Full(a) = [type |-> k, of |-> site[k].of, enc |-> "identity", whole |-> site[k].whole]
    BY <1>3 DEF Full
  <2>3. k \in Encodings /\ site[k] # None
    BY <1>1, <2>1 DEF Accepts
  <2> HIDE DEF k
  <2> QED  BY <1>1, <1>3, <2>1, <2>2, <2>3
<1> QED  BY <1>1, <1>2, <1>3

LEMMA NegotiatedIs ==
    ASSUME NEW v
    PROVE  Negotiated(v, Decodes) \in Decodes \cup {"identity"}
  BY DEF Negotiated

LEMMA KindsDiffer == Kinds \cap Encodings = {}
  BY DEF Kinds, Encodings

LEMMA FullType ==
    ASSUME ImagesTypeOK, NEW a \in Accepts
    PROVE  Full(a) \in Body
<1>1. CASE Best(a) = {}
  <2>1. Full(a) = [type |-> kind, of |-> site.orig, enc |-> Negotiated(site.orig, Decodes), whole |-> TRUE]
    BY <1>1 DEF Full
  <2>2. Negotiated(site.orig, Decodes) \in {"identity", "br", "zstd", "gzip"}
    BY NegotiatedIs, SiteAssumption
  <2> QED  BY <2>1, <2>2 DEF ImagesTypeOK, Body
<1>2. CASE Best(a) # {}
  <2> DEFINE k == CHOOSE k \in Best(a) : TRUE
  <2>1. /\ k \in Best(a)
        /\ Full(a) = [type |-> k, of |-> site[k].of, enc |-> "identity", whole |-> site[k].whole]
    BY <1>2 DEF Full
  <2> HIDE DEF k
  <2>2. k \in Encodings /\ site[k] # None
    <3>1. Full(a).type = k
      BY <2>1
    <3> QED  BY <1>2, <3>1, FullIs
  <2>3. site[k] \in Embedded
    BY <2>2 DEF ImagesTypeOK, Encodings
  <2> QED  BY <2>1, <2>2, <2>3 DEF Body, Embedded
<1> QED  BY <1>1, <1>2

\* What is confirmed by its ETag is what would be sent.
LEMMA ConfirmedIsFull ==
    ASSUME ImagesTypeOK, copy \in Copy, copy # None, CopyTrue,
           NEW a \in Accepts, ETag(copy.body) = ETag(Full(a))
    PROVE  copy.body = Full(a)
<1>1. copy.body \in Body /\ Full(a) \in Body
  BY FullType DEF Copy
<1>2. copy.body.type = Full(a).type /\ copy.body.of = Full(a).of /\ copy.body.whole = Full(a).whole
  BY <1>1 DEF ETag, Body
<1>3. copy.body.enc = Full(a).enc
  BY <1>2, FullIs, KindsDiffer DEF CopyTrue, ImagesTypeOK
<1> QED  BY <1>1, <1>2, <1>3 DEF Body

\* The copy, if there is one, is what a 304 would show.
LEMMA ShowsIs ==
    ASSUME ImagesTypeOK, copy \in Copy \cup {None}, CopyTrue, NEW a \in Accepts
    PROVE  /\ ~Usable(a) => Shows(a) = {Full(a)}
           /\ Usable(a) => Shows(a) = {copy.body} /\ copy # None
<1>1. ASSUME NEW c \in {copy} \ {None}, ETag(c.body) = ETag(Full(a)) PROVE c.body = Full(a)
  BY <1>1, ConfirmedIsFull
<1>2. {c.body : c \in {k \in {copy} \ {None} : ETag(k.body) = ETag(Full(a))}} \subseteq {Full(a)}
  BY <1>1
<1> QED  BY <1>2 DEF Shows, Usable

LEMMA InitInv == Init => Inv
<1> SUFFICES ASSUME Init PROVE Inv
  OBVIOUS
<1>1. ImagesInv /\ copy = None
  BY ImagesInitInv DEF Init
<1> QED  BY <1>1 DEF Inv, ImagesInv, TypeOK, CopyTrue

LEMMA NegotiatedStep == UNCHANGED kind => \A v : Negotiated(v, Decodes)' = Negotiated(v, Decodes)
  BY DEF Negotiated

LEMMA NextInv == Inv /\ [Next]_vars => Inv'
<1> SUFFICES ASSUME Inv, [Next]_vars PROVE Inv'
  OBVIOUS
<1>0. ImagesTypeOK /\ copy \in Copy \cup {None} /\ CopyTrue /\ ImagesInv
  BY DEF Inv, TypeOK
<1>1. CASE ImagesNext /\ UNCHANGED copy
  <2>1. ImagesInv' /\ kind' = kind
    BY <1>0, <1>1, ImagesStep
       DEF ImagesNext, Edit, Move, Clean, Build, KeepOld, Encode, Write, Abort, Save, Embed
  <2>2. CopyTrue'
    BY <1>0, <1>1, <2>1, NegotiatedStep DEF CopyTrue
  <2> QED  BY <1>0, <1>1, <2>1, <2>2 DEF Inv, TypeOK, ImagesInv
<1>2. ASSUME UNCHANGED buildVars, copy' \in Copy \cup {None}, CopyTrue' PROVE Inv'
  <2>1. ImagesInv'
    BY <1>0, <1>2, ImagesStep
  <2> QED  BY <1>2, <2>1 DEF Inv, TypeOK, ImagesInv
<1>3. ASSUME NEW a \in Accepts, Request(a) PROVE Inv'
  <2>1. copy' = [body |-> Full(a), vary |-> Varies(a),
                 accept |-> IF Varies(a) THEN a ELSE {}, fresh |-> LongLived]
    BY <1>0, <1>3, ShowsIs DEF Request
  <2>2. Full(a) \in Body /\ Varies(a) \in BOOLEAN /\ LongLived \in BOOLEAN
    BY <1>0, FullType, Truth DEF Varies, LongLived
  <2>3. copy' \in Copy
    BY <2>1, <2>2 DEF Copy, Accepts
  <2>4. UNCHANGED buildVars
    BY <1>3 DEF Request
  <2>5. CopyTrue'
    <3>1. /\ copy'.body = Full(a) /\ copy'.vary = Varies(a)
          /\ copy'.accept = (IF Varies(a) THEN a ELSE {}) /\ copy'.fresh = LongLived
      BY <2>1
    <3>2. CASE Best(a) = {}
      <4>1. /\ Full(a).type = kind /\ Full(a).of = site.orig /\ kind \in Kinds
            /\ Full(a).enc = Negotiated(site.orig, Decodes)
        BY <1>0, <3>2, FullIs DEF ImagesTypeOK
      <4> QED
        BY <2>4, <3>1, <4>1, KindsDiffer, NegotiatedStep DEF CopyTrue, LongLived, buildVars
    <3>3. CASE Best(a) # {}
      <4>1. Full(a).type \in a /\ Full(a).type \in Encodings /\ Full(a).enc = "identity" /\ Varies(a)
        BY <3>3, FullIs DEF Varies
      <4>2. copy'.vary /\ copy'.accept = a
        BY <3>1, <4>1, Zenon
      <4>3. Full(a).type \notin Kinds
        BY <4>1, KindsDiffer
      <4>4. kind' = kind /\ (kind = "css" => ~copy'.fresh)
        BY <2>4, <3>1 DEF LongLived, buildVars
      <4> QED  BY <3>1, <4>1, <4>2, <4>3, <4>4 DEF CopyTrue
    <3> QED  BY <3>2, <3>3
  <2> QED  BY <1>2, <2>3, <2>4, <2>5
<1>4. CASE Expire
  <2>1. UNCHANGED buildVars /\ copy' = [copy EXCEPT !.fresh = FALSE] /\ copy \in Copy /\ copy # None
    BY <1>0, <1>4 DEF Expire
  <2>2. /\ copy' \in Copy /\ copy'.body = copy.body /\ copy'.vary = copy.vary
        /\ copy'.accept = copy.accept /\ copy'.fresh = FALSE
    BY <2>1 DEF Copy
  <2>3. CopyTrue'
    BY <1>0, <2>1, <2>2, NegotiatedStep DEF CopyTrue, buildVars
  <2> QED  BY <1>2, <2>1, <2>2, <2>3
<1>5. CASE UNCHANGED vars
  <2>1. UNCHANGED buildVars /\ copy' = copy
    BY <1>5 DEF vars
  <2>2. CopyTrue'
    BY <1>0, <2>1, NegotiatedStep DEF CopyTrue, buildVars
  <2> QED  BY <1>0, <1>2, <2>1, <2>2
<1> QED  BY <1>1, <1>3, <1>4, <1>5 DEF Next

LEMMA InvHolds == Spec => []Inv
  BY InitInv, NextInv, PTL DEF Spec

-----------------------------------------------------------------------------

\* Every reachable state is well typed: nothing is written that was not decoded.
THEOREM TypeCorrect == Spec => []TypeOK
<1>1. Inv => TypeOK
  BY DEF Inv
<1> QED  BY <1>1, InvHolds, PTL

\* What the binary embeds of a picture is its own, whole, and smaller.
THEOREM EmbeddedIsOwn == Spec => []VariantsTrue
<1>1. Inv => VariantsTrue
  BY DEF Inv, ImagesInv
<1> QED  BY <1>1, InvHolds, PTL

\* No request is shown what it does not accept.
THEOREM ShowsAcceptable == Spec => []Acceptable
<1>1. Inv => Acceptable
  <2> SUFFICES ASSUME Inv, NEW a \in Accepts, NEW body \in Shows(a)
               PROVE  body.type \in a \cup Kinds /\ body.enc \in Decodes \cup {"identity"}
    BY DEF Acceptable
  <2>0. ImagesTypeOK /\ copy \in Copy \cup {None} /\ CopyTrue
    BY DEF Inv, TypeOK
  <2>1. CASE ~Usable(a)
    <3>1. body = Full(a)
      BY <2>0, <2>1, ShowsIs
    <3>2. Full(a).type \in a \cup Kinds
      BY <2>0, FullIs DEF ImagesTypeOK
    <3>3. Full(a).enc \in Decodes \cup {"identity"}
      BY FullIs, NegotiatedIs
    <3> QED  BY <3>1, <3>2, <3>3
  <2>2. CASE Usable(a)
    <3>1. body = copy.body /\ copy # None /\ copy \in Copy /\ (copy.vary => a = copy.accept)
      BY <2>0, <2>2, ShowsIs DEF Usable
    <3>2. copy.body.type \in Kinds \cup Encodings
      BY <3>1 DEF Copy, Body
    <3>3. CASE copy.body.type \in Kinds
      BY <2>0, <3>1, <3>3, NegotiatedIs DEF CopyTrue
    <3>4. CASE copy.body.type \in Encodings
      BY <2>0, <3>1, <3>4 DEF CopyTrue
    <3> QED  BY <3>2, <3>3, <3>4
  <2> QED  BY <2>1, <2>2
<1> QED  BY <1>1, InvHolds, PTL

\* What is shown is what would be sent, but for a copy that its max-age vouches for.
THEOREM ShowsServed == Spec => []ShownIsServed
<1>1. Inv => ShownIsServed
  <2> SUFFICES ASSUME Inv, NEW a \in Accepts
               PROVE  /\ ~Usable(a) => Shows(a) = {Full(a)}
                      /\ kind = "css" => ~Usable(a)
    BY DEF ShownIsServed
  <2>0. ImagesTypeOK /\ copy \in Copy \cup {None} /\ CopyTrue
    BY DEF Inv, TypeOK
  <2> QED  BY <2>0, ShowsIs DEF CopyTrue, Usable
<1> QED  BY <1>1, InvHolds, PTL
=============================================================================
