------------------------------ MODULE Pictures ------------------------------
(***************************************************************************)
(* What becomes of an uploaded picture: src/src/media.rs.  An upload is    *)
(* what its first bytes say, the length it declares (WebP only) and the    *)
(* pieces it is made of, as a walk along their lengths meets them.  What a *)
(* piece is:                                                               *)
(*   "meta"   a segment or chunk about the photographer                    *)
(*   "kept"   one about the picture                                        *)
(*   "over"   one whose length goes beyond the end                         *)
(*   "pad", "alone", "scan", "short", "junk"   in a JPEG: a padding byte,  *)
(*            a marker without a length, the start of scan or end of image *)
(*            with everything after it, a length below two, no marker      *)
(*   "VP8X", "emptyVP8X"   in a WebP: the chunk that announces others      *)
(* A VP8X announces in its flags; a tag the walk overwrites is "damaged".  *)
(***************************************************************************)
EXTENDS Naturals, Sequences, FiniteSets, SequencesExt, Walks

CONSTANT MaxPieces   \* bound: pieces of an upload

Flags == {"EXIF", "XMP", "alpha"}
Piece(is, flags) == [is |-> is, flags |-> flags]
Plain(kinds) == {Piece(k, {}) : k \in kinds}

PiecesOf(head) ==
    CASE head = "JPEG" -> Plain({"meta", "kept", "over", "pad", "alone", "scan", "short", "junk"})
      [] head = "PNG"  -> Plain({"meta", "kept", "over"})
      [] head = "WEBP" -> Plain({"meta", "kept", "over", "emptyVP8X"})
                          \cup {Piece("VP8X", f) : f \in {{}, {"EXIF", "alpha"}, {"XMP"}}}
      [] OTHER         -> Plain({"kept"})

VARIABLES
    upload,     \* the bytes that come in: head, declared, pieces, trailing
    stored      \* what attach stores of them, once it has; before, an empty sequence

picturesVars == <<upload, stored>>

----------------------------------------------------------------------------
\* The allow list, read from the first bytes; for JPEG these reach into the
\* first marker.  What is not on it has no kind.
Detect(data) ==
    IF \/ data.head = "other"
       \/ data.head = "JPEG" /\ (data.pieces = <<>> \/ data.pieces[1].is = "junk")
    THEN "none"
    ELSE data.head

\* The pieces that are copied.
Kept(pieces) == Picked(pieces, {p \in Range(pieces) : p.is # "meta"})

\* An answer of the walk: one stripped upload, or none.
None == {}

\* Where the walk of a JPEG ends, if anywhere.
WalkEnd(pieces) == SelectInSeq(pieces, LAMBDA p : p.is \in {"scan", "short", "over", "junk"})

\* At the scan, with the rest copied, or at what it cannot read.
StripJpeg(data) ==
    LET at == WalkEnd(data.pieces)
    IN  IF at = 0 \/ data.pieces[at].is # "scan" THEN None
        ELSE {[data EXCEPT !.pieces = Kept(SubSeq(@, 1, at - 1)) \o SubSeq(@, at, Len(@))]}

StripPng(data) ==
    IF \E i \in DOMAIN data.pieces : data.pieces[i].is = "over" THEN None
    ELSE {[data EXCEPT !.pieces = Kept(@)]}

\* The last chunk that says what else is in the file, if any.
LastVP8X(pieces) == SelectLastInSeq(pieces, LAMBDA p : p.is \in {"VP8X", "emptyVP8X"})

\* Mutant: the announcements stay.
ClearFlagsNever(pieces) == pieces

\* The bits for EXIF and XMP are cleared where the last VP8X has its flags.  One
\* without content has them where the next chunk's tag is, if there is one.
ClearFlags(pieces) ==
    LET at == LastVP8X(pieces)
    IN  CASE at = 0 -> pieces
          [] at # 0 /\ pieces[at].is = "VP8X" -> [pieces EXCEPT ![at].flags = @ \ {"EXIF", "XMP"}]
          [] at # 0 /\ pieces[at].is # "VP8X" /\ at < Len(pieces) -> [pieces EXCEPT ![at + 1].is = "damaged"]
          [] OTHER -> pieces

\* What the declared length leaves out is left out; what it claims beyond the
\* end, or a chunk that does, ends the walk.
StripWebp(data) ==
    IF \/ data.declared # "fits"
       \/ \E i \in DOMAIN data.pieces : data.pieces[i].is = "over"
    THEN None
    ELSE {[data EXCEPT !.pieces = ClearFlags(Kept(@)),
                       !.trailing = FALSE]}

Strip(data, kind) ==
    CASE kind = "JPEG" -> StripJpeg(data)
      [] kind = "PNG"  -> StripPng(data)
      [] kind = "WEBP" -> StripWebp(data)
      [] OTHER         -> None        \* a GIF carries no EXIF

\* "Bytes it cannot walk come back exactly as they arrived."
StripMetadata(data, kind) ==
    LET stripped == Strip(data, kind)
    IN  IF stripped = None THEN data ELSE CHOOSE d \in stripped : TRUE

----------------------------------------------------------------------------
PicturesInit ==
    /\ upload \in [head : {"JPEG", "PNG", "GIF", "WEBP", "other"},
                   declared : {"fits", "short", "long"},
                   trailing : BOOLEAN, pieces : {<<>>}]
    /\ upload.head # "WEBP" => upload.declared = "fits" /\ ~upload.trailing
    /\ stored = <<>>

\* External: the next piece of what somebody uploads.
Arrives(piece) ==
    /\ stored = <<>> /\ Len(upload.pieces) < MaxPieces
    /\ upload' = [upload EXCEPT !.pieces = Append(@, piece)]
    /\ UNCHANGED stored

\* attach: what has no kind is refused, the rest is stored as it leaves the walk.
Store ==
    /\ stored = <<>> /\ Detect(upload) # "none"
    /\ stored' = <<StripMetadata(upload, Detect(upload))>>
    /\ UNCHANGED upload

PicturesNext ==
    \/ \E piece \in PiecesOf(upload.head) : Arrives(piece)
    \/ Store

PicturesSpec == PicturesInit /\ [][PicturesNext]_picturesVars

----------------------------------------------------------------------------
Walkable == Strip(upload, Detect(upload)) # None

FirstScan(pieces) == SelectInSeq(pieces, LAMBDA p : p.is = "scan")

Scan(data) ==
    LET at == FirstScan(data.pieces)
    IN  IF data.head = "JPEG" /\ at # 0 THEN at ELSE Len(data.pieces) + 1

\* The VP8X chunks the module header calls well formed: one, with content.
OneVP8X(data) ==
    /\ Cardinality({i \in DOMAIN data.pieces : data.pieces[i].is = "VP8X"}) <= 1
    /\ \A i \in DOMAIN data.pieces : data.pieces[i].is # "emptyVP8X"

\* A stored picture that could be walked says nothing of its photographer before
\* its pixels begin, and announces nothing that is gone; it is the same picture,
\* piece by piece; it is still of the kind it was taken for, and stripping it
\* again changes nothing.  One that could not be walked is what came in
\* (media.rs, strip_metadata).  A WebP with two VP8X chunks, or one without
\* content, is left out of what is said about the picture: the walk clears
\* the last one's bits only, and overwrites the next tag if that has none.
PicturesLoseOnlyMetadata ==
    stored # <<>> =>
        LET kind == Detect(upload)
            out == stored[1]
            bare(s) == [i \in DOMAIN s |-> s[i].is]
        IN  /\ Detect(out) = kind
            /\ ~Walkable => out = upload
            /\ Walkable =>
                  /\ \A i \in 1 .. Scan(out) - 1 : out.pieces[i].is # "meta"
                  /\ StripMetadata(out, kind) = out
                  /\ OneVP8X(upload) =>
                        /\ bare(Kept(SubSeq(upload.pieces, 1, Scan(upload) - 1)))
                           \o bare(SubSeq(upload.pieces, Scan(upload), Len(upload.pieces))) = bare(out.pieces)
                        /\ \A i \in DOMAIN out.pieces : out.pieces[i].flags \subseteq {"alpha"}
            /\ Len(out.pieces) <= Len(upload.pieces)
=============================================================================
