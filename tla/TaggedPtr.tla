------------------------------ MODULE TaggedPtr ------------------------------
(***************************************************************************)
(* The low-bit tag arithmetic of Tagged<T> (src/internal/utils.rs): a      *)
(* pointer to an aligned T is a usize whose low log2(align_of::<T>()) bits *)
(* are free to carry a user tag.  Words are WordBits wide, and !x is the   *)
(* complement within that width.  The operators are checked against the    *)
(* arithmetic they are meant to compute, over every word and every tag up  *)
(* to twice the tag range (with_tag truncates a tag that does not fit).    *)
(***************************************************************************)
EXTENDS Naturals, Bitwise

CONSTANTS
  WordBits,   \* width of usize
  AlignBits   \* align_of::<T>() = 2^AlignBits

ASSUME WordBits \in 1..12 /\ AlignBits \in 0..(WordBits - 1)

Word == 0..(2^WordBits - 1)
Tags == 0..(2^(AlignBits + 1) - 1)

\* !x on a WordBits-wide usize.
Complement(x) == (2^WordBits - 1) - x

\* Variant: the mask without the final - 1.
LowBitsNoMinus == 2^AlignBits

\* low_bits::<T>(): (1 << align_of::<T>().trailing_zeros()) - 1.
LowBits == 2^AlignBits - 1

\* Tagged::tag: ptr & low_bits.
Tag(p) == p & LowBits

\* Tagged::as_raw: the pointer without the tag.
AsRaw(p) == p & Complement(LowBits)

\* Variant: null tested on the tagged word instead of its raw part.
IsNullWord(p) == p = 0

\* Tagged::is_null: as_raw().is_null(), so a tagged null is still null.
IsNull(p) == AsRaw(p) = 0

\* with_tag(ptr, tag) (and Tagged::with_tag): clear the tag bits, then or
\* in the tag truncated to them.
WithTag(p, t) == (p & Complement(LowBits)) | (t & LowBits)

VARIABLES p, t
vars == <<p, t>>

Init == p \in Word /\ t \in Tags
Next == UNCHANGED vars
Spec == Init /\ [][Next]_vars

-----------------------------------------------------------------------------
(* Reference definitions, in plain arithmetic.                             *)
Align == 2^AlignBits
RefRaw(x) == x - (x % Align)

\* with_tag round trip (spec 8.4, and the truncation promised by
\* Rc::with_tag and Snapshot::with_tag): the tag read back is the tag
\* given, modulo the tag range, and the raw pointer is untouched.
TagRoundTrip ==
  /\ Tag(WithTag(p, t)) = t % Align
  /\ AsRaw(WithTag(p, t)) = RefRaw(p)
  /\ WithTag(p, t) \in Word

\* Rc::is_null and Snapshot::is_null are "null ignoring the tag": a word
\* is null exactly when its address part is zero, whatever tag it carries,
\* and re-tagging never makes a pointer null or non-null.
NullIgnoresTag ==
  /\ IsNull(p) <=> p < Align
  /\ IsNull(WithTag(p, t)) <=> IsNull(p)
=============================================================================
