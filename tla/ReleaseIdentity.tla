--------------------------- MODULE ReleaseIdentity ---------------------------
(***************************************************************************)
(* The release identity a signature carries in its trusted comment          *)
(* (crates/delta-core/src/release_identity.rs): its wire form, and the one  *)
(* parser that the signer, the checker and every client read it with.       *)
(*                                                                         *)
(* A text is what it says (of), how long it is and which characters it has: *)
(* "a-f", "g-z", "A-Z", "0-9", ".", "_", "-" (one, between others), "--"    *)
(* (any other use of dashes), "control", "non-ascii", or others; pre is the *)
(* tag prefix of a version, zeros counts those before a number.  A space     *)
(* ends a word: a value with spaces is a text and further words.            *)
(***************************************************************************)
EXTENDS Integers, Sequences, SequencesExt

CONSTANTS
  Family,    \* first words that begin with PROTOCOL_FAMILY
  Semver,    \* texts that the semver crate parses and prints back unchanged
  MaxU64,    \* the largest number the program can hold
  Legacy, Malformed \* a comment of another kind; a comment that is refused

PROTOCOL_V1 == "delta-v1"
MAX_COMMENT_BYTES == 512

ASSUME IdentityAssumption ==
  /\ PROTOCOL_V1 \in Family /\ MaxU64 \in Nat
  /\ Legacy # Malformed

Text(of, len, with) == [pre |-> "", of |-> of, len |-> len, with |-> with, zeros |-> 0]
Word(key, text) == [key |-> key, text |-> text]
Value(text) == [head |-> text, rest |-> << >>]

Digits(n) == CHOOSE k \in 1 .. 20 : n < 10 ^ k /\ (k = 1 \/ n >= 10 ^ (k - 1))
Decimal(n) == Text(n, Digits(n), {"0-9"})

-----------------------------------------------------------------------------
(* Writing *)

Labelled(key, value) == <<Word(key, value.head)>> \o value.rest

\* to_trusted_comment, of a ReleaseIdentity: five values and two numbers.
Render(id) ==
  [tag |-> PROTOCOL_V1,
   words |-> Labelled("app:", id.app) \o Labelled("v:", id.version)
             \o Labelled("plat:", id.platform) \o Labelled("rep:", id.representation)
             \o Labelled("b3:", id.blake3)
             \o <<Word("sz:", Decimal(id.size)), Word("ts:", Decimal(id.signedAt))>>]

-----------------------------------------------------------------------------
(* Reading *)

Lower == {"a-f", "g-z"}
InRange(text, most) == 1 <= text.len /\ text.len <= most

IsAppId(text) ==
  InRange(text, 155) /\ text.with \subseteq Lower \cup {"A-Z", "0-9", ".", "-", "--", "_"}
IsVersion(text) == text \in Semver
IsPlatform(text) ==
  "-" \in text.with /\ text.with \subseteq Lower \cup {"0-9", "_", "-"}
IsToken(text) ==
  InRange(text, 64) /\ text.with \subseteq Lower \cup {"0-9", ".", "-", "--", "_"}
IsBlake3(text) == text.len = 64 /\ text.with \subseteq {"0-9", "a-f"}

IsDecimal(text) ==
  text.len > 0 /\ text.with = {"0-9"} /\ text.zeros = 0 /\ text.of <= MaxU64

\* What the seven fields are called, and what each may be.
Keys == <<"app:", "v:", "plat:", "rep:", "b3:", "sz:", "ts:">>
FieldsHold(words) ==
  /\ IsAppId(words[1].text) /\ IsVersion(words[2].text) /\ IsPlatform(words[3].text)
  /\ IsToken(words[4].text) /\ IsBlake3(words[5].text)
  /\ IsDecimal(words[6].text) /\ words[6].text.of # 0
  /\ IsDecimal(words[7].text)

LengthOf(c) ==
  FoldSeq(LAMBDA word, sum : sum + 1 + Len(word.key) + word.text.len, Len(c.tag), c.words)
Clean(c) == \A i \in DOMAIN c.words : c.words[i].text.with \cap {"control", "non-ascii"} = {}

Ordered(c) ==
  Len(c.words) = 7 /\ \A i \in 1 .. 7 : c.words[i].key = Keys[i]

Readable(c) ==
  /\ LengthOf(c) <= MAX_COMMENT_BYTES /\ Clean(c)
  /\ c.tag = PROTOCOL_V1 /\ Ordered(c) /\ FieldsHold(c.words)

\* parse_trusted_comment.  The bound and the character checks come before the
\* split; each of them, and each field, is an error of its own.
Parse(c) ==
  IF c.tag \notin Family THEN Legacy
  ELSE IF ~Readable(c) THEN Malformed
  ELSE [app |-> Value(c.words[1].text), version |-> Value(c.words[2].text),
        platform |-> Value(c.words[3].text), representation |-> Value(c.words[4].text),
        blake3 |-> Value(c.words[5].text),
        size |-> c.words[6].text.of, signedAt |-> c.words[7].text.of]

IsIdentity(binding) == binding \notin {Legacy, Malformed}

\* ReleaseIdentity::check, of an identity that was parsed.
States(id, app, version, platform, blake3, size) ==
  /\ id.app = Value(app) /\ id.version = Value(version) /\ id.platform = Value(platform)
  /\ id.blake3 = Value(blake3) /\ id.size = size
=============================================================================
