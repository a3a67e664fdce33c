--------------------------- MODULE ThumbnailSizes ---------------------------
(***************************************************************************)
(* The size of a thumbnail: PickNewDimensions                              *)
(* (pipelines/_steps/thumbnails/pick_dimensions.go) chooses among the      *)
(* configured sizes, GenerateThumbnail and AdjustProperties                *)
(* (thumbnailing/thumbnail.go, thumbnailing/u/dimensions.go) look at the   *)
(* media.  Quotients of float32 are taken as exact; int() truncates.       *)
(***************************************************************************)
EXTENDS Integers, Sequences, SequencesExt

CONSTANTS
    SideLengths,   \* widths and heights of requests and media
    SizeLists,     \* thumbnails.sizes: sequences of width and height
    MaxPixels      \* thumbnails.maxPixels

ASSUME SizesAssumption ==
    /\ SideLengths \subseteq Nat
    /\ SizeLists \subseteq Seq([w : Nat \ {0}, h : Nat \ {0}]) \ {<< >>}

VARIABLES
    asked,      \* width, height, method, animated of the request
    sizes,      \* thumbnails.sizes
    dynamic,    \* thumbnails.dynamicSizing
    image,      \* the media's dimensions
    picked,     \* the result of PickNewDimensions
    verdict     \* what GenerateThumbnail makes of it

sizeVars == <<asked, sizes, dynamic, image, picked, verdict>>

Size(w, h) == [w |-> w, h |-> h]
NoSize == Size(0, 0)
SizesLarger(a, b) == IF a > b THEN a ELSE b
SizesSmaller(a, b) == IF a < b THEN a ELSE b
Covers(s, a) == a.w <= s.w /\ a.h <= s.h

SizesInit ==
    /\ asked \in [w : SideLengths, h : SideLengths, crop : BOOLEAN, animated : BOOLEAN]
    /\ sizes \in SizeLists
    /\ dynamic \in BOOLEAN
    /\ image \in [w : SideLengths \ {0}, h : SideLengths \ {0}]
    /\ picked = NoSize
    /\ verdict = ""

(* The loop over the sizes. *)
Largest == FoldLeft(LAMBDA m, s : Size(SizesLarger(m.w, s.w), SizesLarger(m.h, s.h)), NoSize, sizes)

Target ==
    FoldLeft(LAMBDA t, s : IF Covers(s, asked) /\ (t = NoSize \/ (t.w > s.w /\ t.h > s.h)) THEN s ELSE t,
             NoSize, sizes)

(* Mutant: the request is stretched to the larger of the two ratios. *)
CroppedToCover(t) ==
    IF t.w * asked.h = t.h * asked.w THEN t
    ELSE IF t.w * asked.h >= t.h * asked.w THEN Size(t.w, (asked.h * t.w) \div asked.w)
    ELSE Size((asked.w * t.h) \div asked.h, t.h)

(* The aspect ratio of the request, in the target. *)
Cropped(t) ==
    IF t.w * asked.h = t.h * asked.w THEN t
    ELSE IF t.w * asked.h <= t.h * asked.w THEN Size(t.w, (asked.h * t.w) \div asked.w)
    ELSE Size((asked.w * t.h) \div asked.h, t.h)

PickNewDimensions ==
    IF \E i \in DOMAIN sizes : sizes[i] = Size(asked.w, asked.h) THEN Size(asked.w, asked.h)
    ELSE IF dynamic THEN Size(SizesSmaller(Largest.w, asked.w), SizesSmaller(Largest.h, asked.h))
    ELSE LET t == IF Target = NoSize THEN Largest ELSE Target
         IN  IF asked.crop THEN Cropped(t) ELSE t

(* A request without a positive width and height is refused before. *)
PickSize ==
    /\ verdict = ""
    /\ IF asked.w <= 0 \/ asked.h <= 0
       THEN verdict' = "refused" /\ UNCHANGED picked
       ELSE verdict' = "picked" /\ picked' = PickNewDimensions
    /\ UNCHANGED <<asked, sizes, dynamic, image>>

(* GenerateThumbnail up to the generator, with AdjustProperties: an animation  *)
(* that is small enough is redrawn in its own size.                            *)
JudgeImage ==
    /\ verdict = "picked"
    /\ \/ /\ image.w * image.h >= MaxPixels
          /\ verdict' = "too large"
          /\ UNCHANGED picked
       \/ /\ image.w * image.h < MaxPixels
          /\ IF Covers(picked, image)
             THEN IF asked.animated
                  THEN verdict' = "thumbnail" /\ picked' = image
                  ELSE verdict' = "too small" /\ UNCHANGED picked
             ELSE verdict' = "thumbnail" /\ UNCHANGED picked
    /\ UNCHANGED <<asked, sizes, dynamic, image>>

SizesNext == PickSize \/ JudgeImage

SizesSpec == SizesInit /\ [][SizesNext]_sizeVars

-----------------------------------------------------------------------------
(* Properties. *)

(* No thumbnail is larger than the largest configured width and height, and a    *)
(* still is never as large as the media in both directions (dimensions.go:11-17).*)
ThumbnailsAreSmall ==
    verdict = "thumbnail" =>
        /\ Covers(Largest, picked)
        /\ ~asked.animated => ~Covers(picked, image)

(* A scaled thumbnail has at least the size that was asked for whenever one of   *)
(* the configured sizes does, and no configured size between the two is smaller  *)
(* in both directions (pick_dimensions.go:40-48).                                *)
ScaledThumbnailsFit ==
    (verdict = "picked" /\ ~dynamic /\ ~asked.crop) =>
        /\ (\E i \in DOMAIN sizes : Covers(sizes[i], asked)) => Covers(picked, asked)
        /\ ~\E i \in DOMAIN sizes : Covers(sizes[i], asked) /\ sizes[i].w < picked.w /\ sizes[i].h < picked.h

(* A crop lies in a configured size and keeps the aspect ratio of the request to *)
(* less than a pixel (pick_dimensions.go:57-65).                                 *)
CropsKeepTheAspect ==
    (verdict = "picked" /\ ~dynamic /\ asked.crop) =>
        /\ Covers(Largest, picked)
        /\ \/ picked.h * asked.w <= picked.w * asked.h /\ picked.w * asked.h < (picked.h + 1) * asked.w
           \/ picked.w * asked.h <= picked.h * asked.w /\ picked.h * asked.w < (picked.w + 1) * asked.h

(* Whatever is asked for and configured, the size that is generated is one the   *)
(* configuration allows and the request can use (pick_dimensions.go:10-67).      *)
ThumbnailSizesFit == ThumbnailsAreSmall /\ ScaledThumbnailsFit /\ CropsKeepTheAspect
=============================================================================
