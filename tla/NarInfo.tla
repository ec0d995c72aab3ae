------------------------------ MODULE NarInfo ------------------------------
(***************************************************************************)
(* The narinfo format (arca-core/src/narinfo.rs) and what a signature of   *)
(* one covers (arca-core/src/signing.rs).                                  *)
(*                                                                         *)
(* A text is its sequence of lines <<key, value>>; a value is what its     *)
(* field holds.  A line that was cut off in its value has a piece of it,   *)
(* one cut off in its key has no colon and is no line.  None is an empty   *)
(* string or the number 0.  The text of a hash is its characters and       *)
(* whether they are hex digits; a reference is a store path by its base    *)
(* name and whether the text has it in full.  URL stands for the four lines *)
(* that are only copied: URL, Compression, FileHash and FileSize.          *)
(***************************************************************************)
EXTENDS NixBase32

CONSTANTS None, Piece,  \* no value; a value cut off
          DigestLen     \* bytes of a SHA-256: 32

(* normalize_hash_to_nix_base32 tells the encodings by their lengths. *)
ASSUME DigestAssumption == /\ DigestLen \in Nat
                           /\ Chars(DigestLen) # 2 * DigestLen

NoHash == [chars |-> << >>, hex |-> FALSE]
PieceHash == [chars |-> <<BadChar>>, hex |-> FALSE]
Base32Hash(bytes) == [chars |-> Encode(bytes), hex |-> FALSE]
HexHash(bytes) ==
  [chars |-> [i \in 1..2 * Len(bytes) |-> IF i % 2 = 1 THEN bytes[(i + 1) \div 2] \div 16
                                                       ELSE bytes[i \div 2] % 16],
   hex |-> TRUE]

HexDecode(chars) == [i \in 1..(Len(chars) \div 2) |-> 16 * chars[2 * i - 1] + chars[2 * i]]

(* Mutant: the hash is signed in the encoding of the file. *)
AsWritten(hash) == hash

(* normalize_hash_to_nix_base32 *)
Normalize(hash) ==
  IF Len(hash.chars) = 2 * DigestLen /\ hash.hex
    THEN Base32Hash(HexDecode(hash.chars)) ELSE hash

Basename(ref) == [ref EXCEPT !.full = FALSE]
FullPath(ref) == [ref EXCEPT !.full = TRUE]
Each(Op(_), seq) == [i \in DOMAIN seq |-> Op(seq[i])]

(* Mutant: the deriver is written only when there are references. *)
LinesWithoutDeriver(info) ==
  << <<"StorePath", info.storePath>>, <<"URL", info.url>>,
     <<"NarHash", info.narHash>>, <<"NarSize", info.narSize>> >>
  \o (IF info.references = << >> THEN << >>
      ELSE << <<"References", Each(Basename, info.references)>> >>)
  \o (IF info.references = << >> \/ info.deriver = << >> THEN << >>
      ELSE << <<"Deriver", Basename(info.deriver[1])>> >>)
  \o [i \in DOMAIN info.sig |-> <<"Sig", info.sig[i]>>]

(* NarInfo::fmt; an empty list of references and no deriver have no line. *)
Lines(info) ==
  << <<"StorePath", info.storePath>>, <<"URL", info.url>>,
     <<"NarHash", info.narHash>>, <<"NarSize", info.narSize>> >>
  \o (IF info.references = << >> THEN << >>
      ELSE << <<"References", Each(Basename, info.references)>> >>)
  \o (IF info.deriver = << >> THEN << >>
      ELSE << <<"Deriver", Basename(info.deriver[1])>> >>)
  \o [i \in DOMAIN info.sig |-> <<"Sig", info.sig[i]>>]

HasLine(text, key) == \E i \in DOMAIN text : text[i][1] = key

(* The last line of a key counts. *)
Field(text, key, default) ==
  IF HasLine(text, key)
    THEN text[CHOOSE i \in DOMAIN text :
                /\ text[i][1] = key
                /\ \A j \in DOMAIN text : text[j][1] = key => j <= i][2]
    ELSE default

(* The lines of text that are signatures, or those that are not, in order. *)
LinesThat(text, sign) ==
  LET kept[i \in 0..Len(text)] ==
        IF i = 0 THEN << >>
        ELSE IF (text[i][1] = "Sig") = sign THEN Append(kept[i - 1], text[i]) ELSE kept[i - 1]
  IN  kept[Len(text)]

SigLines(text) == LinesThat(text, TRUE)
NonSigLines(text) == LinesThat(text, FALSE)

(* parse_narinfo: only the store path is asked for. *)
Parses(text) == Field(text, "StorePath", None) # None

Parsed(text) ==
  [storePath |-> Field(text, "StorePath", None),
   url |-> Field(text, "URL", None),
   narHash |-> Field(text, "NarHash", NoHash),
   narSize |-> Field(text, "NarSize", None),
   references |-> Field(text, "References", << >>),
   deriver |-> IF HasLine(text, "Deriver") THEN <<Field(text, "Deriver", None)>> ELSE << >>,
   sig |-> [i \in DOMAIN SigLines(text) |-> SigLines(text)[i][2]]]

(* What remains of the value of a line, and the texts a cut leaves. *)
CutLine(line) ==
  <<line[1], CASE line[1] = "NarHash"    -> PieceHash
               [] line[1] = "References" -> <<[base |-> Piece, full |-> FALSE]>>
               [] line[1] = "Deriver"    -> [base |-> Piece, full |-> FALSE]
               [] OTHER                  -> Piece>>

Cuts(text) ==
  {SubSeq(text, 1, n) : n \in 0..(Len(text) - 1)}
  \cup {Append(SubSeq(text, 1, n), CutLine(text[n + 1])) : n \in 0..(Len(text) - 1)}

-----------------------------------------------------------------------------
(* Signatures.  A key is a number; its pair of files is in the Nix format: *)
(* a secret key has 64 bytes, seed and public key, a public key its 32.    *)

SecretText(key) == << <<"seed", key>>, <<"public", key>> >>
PublicText(key) == << <<"public", key>> >>
EmptyFile == << >>

(* CacheSigningKey::from_nix_format: << >> is an error. *)
FromNixFormat(text) == IF Len(text) # 2 THEN << >> ELSE <<text[1][2]>>

(* CacheSigningKey::fingerprint *)
Fingerprint(info) ==
  <<info.storePath, Normalize(info.narHash), info.narSize, Each(FullPath, info.references)>>

(* CacheSigningKey::sign_narinfo *)
SignNarInfo(key, info) == [key |-> key, over |-> Fingerprint(info)]

(* verify_narinfo_sig: what does not decode is not valid; the names that   *)
(* both texts begin with are not compared.                                 *)
Verified(publicText, sig, fingerprint) ==
  /\ Len(publicText) = 1
  /\ sig # Piece
  /\ publicText[1][2] = sig.key
  /\ sig.over = fingerprint

(* Mutant: --force adds a signature to those there are. *)
SignedAgain(text, sig, force) == Append(text, <<"Sig", sig>>)

(* sign rewrites the text, not the parsed narinfo. *)
SignedText(text, sig, force) ==
  Append(IF force THEN NonSigLines(text) ELSE text, <<"Sig", sig>>)
=============================================================================
