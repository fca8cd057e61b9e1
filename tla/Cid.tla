--------------------------------- MODULE Cid ---------------------------------
(***************************************************************************)
(* HccCidGetSha256 and DecodeBase32Rfc4648 (HccApi.cpp): a CID is the      *)
(* letter b and the Base32 text of four bytes that say what follows, and   *)
(* of a hash.                                                              *)
(***************************************************************************)
EXTENDS Naturals, SequencesExt

CONSTANTS
  Texts,          \* the strings that are tried
  StringLength,   \* HCC_CID_STRING_LENGTH: 59
  HashLength,     \* HCC_SHA256_HASH_LENGTH: 32
  BufferBits      \* the width of the decoder's buffer: 64

\* Characters: a .. z and 2 .. 7 are 0 .. 31, A .. Z are 32 .. 57; then the
\* padding, and everything else.
Pad == 58
Other == 59
Characters == 0 .. Other

\* CIDv1, raw, SHA2-256, and the length of the hash.
Header == << 1, 85, 18, HashLength >>
ContentLength == Len(Header) + HashLength

ASSUME CidAssumption ==
  /\ Texts \subseteq Seq(Characters)
  /\ HashLength \in 1 .. 255 /\ BufferBits \in Nat
  /\ StringLength \in Nat
  /\ 5 * (StringLength - 1) \in 8 * ContentLength .. 8 * ContentLength + 4

\* The buffer holds the seven bits that may be left and another character;
\* so it is for every BufferBits from 12 on, but the provers know no powers.
ASSUME BufferAssumption ==
  2 ^ BufferBits \in Nat \ {0} /\ 2 ^ BufferBits % 4096 = 0

VARIABLES
  cidPc,     \* where the call is
  text,      \* CidString
  next,      \* the character the decoder is at
  buffer,    \* Buffer, modulo 2 ^ BufferBits
  bits,      \* BitsInBuffer
  content,   \* Result of the decoder
  hash       \* HashBytes

cidVars == << cidPc, text, next, buffer, bits, content, hash >>

CidInit ==
  /\ cidPc = "none"
  /\ text = << >>
  /\ next = 2                   \* substr(1)
  /\ buffer = 0 /\ bits = 0
  /\ content = << >> /\ hash = << >>

CidGo(to) == cidPc' = to

-----------------------------------------------------------------------------
CidBegin ==
  /\ cidPc = "none"
  /\ text' \in Texts
  /\ CidGo(IF Len(text') = StringLength /\ text'[1] = 1 THEN "decode" ELSE "false")
  /\ UNCHANGED << next, buffer, bits, content, hash >>

\* Seeded fault: capital letters follow the small ones.
ValueAsIs(c) == c

Value(c) == c % 32

Left == bits + 5 - 8

\* One character of the decoder's loop.
DecodeCharacter ==
  /\ cidPc = "decode"
  /\ next <= Len(text) /\ text[next] < Pad
  /\ buffer' = (buffer * 32 + Value(text[next])) % 2 ^ BufferBits
  /\ IF bits + 5 < 8
     THEN bits' = bits + 5 /\ UNCHANGED content
     ELSE /\ bits' = Left
          /\ content' = Append(content, (buffer' \div 2 ^ Left) % 256)
  /\ next' = next + 1
  /\ UNCHANGED << cidPc, text, hash >>

\* The padding ends the text.
DecodeEnds ==
  /\ cidPc = "decode"
  /\ next \in DOMAIN text => text[next] = Pad
  /\ CidGo("check")
  /\ UNCHANGED << text, next, buffer, bits, content, hash >>

\* No other character is Base32.
DecodeFails ==
  /\ cidPc = "decode"
  /\ next <= Len(text) /\ text[next] = Other
  /\ content' = << >>
  /\ CidGo("check")
  /\ UNCHANGED << text, next, buffer, bits, hash >>

\* Seeded fault: the length in the header is not looked at.
HasShortHeader ==
  Len(content) = ContentLength /\ SubSeq(content, 1, 3) = SubSeq(Header, 1, 3)

HasHeader == Len(content) = ContentLength /\ SubSeq(content, 1, 4) = Header

CidCheck ==
  /\ cidPc = "check"
  /\ IF HasHeader
     THEN hash' = SubSeq(content, 5, ContentLength) /\ CidGo("true")
     ELSE CidGo("false") /\ UNCHANGED hash
  /\ UNCHANGED << text, next, buffer, bits, content >>

CidNext ==
  \/ CidBegin
  \/ DecodeCharacter \/ DecodeEnds \/ DecodeFails
  \/ CidCheck

-----------------------------------------------------------------------------
(* What Base32 is: the same bits, five to a symbol or eight to a byte.     *)

\* Bit i, from 1 on and the highest first, of symbols of the given width.
BitOf(symbols, width, i) ==
  (symbols[(i - 1) \div width + 1] \div 2 ^ (width - 1 - ((i - 1) % width))) % 2

\* The values of the characters behind the b.
Digits == [i \in 1 .. Len(text) - 1 |-> text[i + 1] % 32]

\* From bit n + 1 on, the text has the bits of the bytes.
Encodes(bytes, n) ==
  \A i \in 1 .. 8 * Len(bytes) : BitOf(bytes, 8, i) = BitOf(Digits, 5, n + i)

\* The text is a CID; capitals will do, and the bits that remain are free.
IsCid ==
  /\ Len(text) = StringLength /\ text[1] = 1
  /\ \A i \in 1 .. StringLength : text[i] < Pad
  /\ Encodes(Header, 0)

-----------------------------------------------------------------------------
CidTypeOK ==
  /\ cidPc \in {"none", "decode", "check", "true", "false"}
  /\ text \in Seq(Characters)
  /\ next \in 2 .. Len(text) + 2
  /\ buffer \in 0 .. 2 ^ BufferBits - 1 /\ bits \in 0 .. 7
  /\ content \in Seq(0 .. 255) /\ hash \in Seq(0 .. 255)

\* A text is taken for a CID if and only if it is one, and the hash it gets
\* is the one it is the CID of, whatever the decoder keeps in its buffer from
\* character to character, and however far that has overflown.
CidNamesItsHash ==
  /\ cidPc = "true" =>
       IsCid /\ Len(hash) = HashLength /\ Encodes(hash, 8 * Len(Header))
  /\ cidPc = "false" => ~IsCid
=============================================================================
