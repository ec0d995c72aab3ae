------------------------------ MODULE Signing ------------------------------
(***************************************************************************)
(* The narinfo of one store path and the key pair of one name, over the    *)
(* commands that write them: `import`, with a signing key or without,      *)
(* `sign`, with --force or without, and `sign-keygen`.                     *)
(*                                                                         *)
(* Commands follow each other (CacheStore has those that overlap), but any *)
(* write may be cut off, and sign-keygen writes two files.                 *)
(***************************************************************************)
EXTENDS NarInfo

CONSTANTS Path,        \* the store path
          Bases, Drvs, \* base names of what it may refer to, as numbers in
                       \* the order of the names; of its deriver
          ByteValues,  \* bytes a digest may have
          MaxBytes,    \* bound: bytes of an input to Encode
          MaxKeys      \* bound: key pairs made

ASSUME SigningAssumption == /\ Bases \subseteq Nat
                            /\ ByteValues \subseteq Byte
                            /\ MaxBytes \in Nat /\ MaxKeys \in Nat

VARIABLES digest,  \* the SHA-256 of the NAR, as far as it is known
          file,    \* the narinfo file: << >> when absent, or <<text>>
          truth,   \* history: the narinfo as it was first made, or << >>
          cut,     \* history: a write of the file was cut off
          secret, public,  \* the key files: None, or their text
          keygen,  \* the key that sign-keygen is to publish next, or 0
          made,    \* the key pairs made, at most MaxKeys
          torn     \* history: the last sign-keygen was cut off

vars == <<digest, file, truth, cut, secret, public, keygen, made, torn>>
cacheVars == <<digest, file, truth, cut>>
keyVars == <<secret, public, keygen, made, torn>>

(* nix-store lists what the path refers to; the code keeps the list as it   *)
(* comes, in any order and with what is repeated.                          *)
RefLists == {<< >>} \cup {<<[base |-> b, full |-> TRUE]>> : b \in Bases}
            \cup {<<[base |-> b, full |-> TRUE], [base |-> c, full |-> TRUE]>> :
                     b, c \in Bases}
Derivers == {<< >>} \cup {<<[base |-> b, full |-> TRUE]>> : b \in Drvs}

(* The narinfo import builds: the store's paths are in full. *)
Info(hash, refs, deriver) ==
  [storePath |-> Path, url |-> "url", narHash |-> hash, narSize |-> "nar size",
   references |-> refs, deriver |-> deriver, sig |-> << >>]

Known == Len(digest) = DigestLen

-----------------------------------------------------------------------------
(* There is no narinfo, or one whose NarHash is in hex, as it is said of   *)
(* the field and as normalize_hash_to_nix_base32 allows for.               *)
Init ==
  /\ \/ digest = << >> /\ file = << >> /\ truth = << >>
     \/ \E d \in [1..DigestLen -> ByteValues], refs \in RefLists :
          /\ digest = d
          /\ truth = <<Info(HexHash(d), refs, << >>)>>
          /\ file = <<Lines(truth[1])>>
  /\ cut = FALSE
  /\ secret = None /\ public = None
  /\ keygen = 0 /\ made = 0 /\ torn = FALSE

(* Bytes for the digest; Encode is for inputs of any length. *)
NextByte ==
  /\ truth = << >>
  /\ Len(digest) < MaxBytes
  /\ \E b \in ByteValues : digest' = Append(digest, b)
  /\ UNCHANGED <<file, truth, cut, keyVars>>

(* std::fs::write of the file, which may be cut off. *)
WriteFile(text) ==
  \/ file' = <<text>> /\ UNCHANGED cut
  \/ file' \in {<<t>> : t \in Cuts(text)} /\ cut' = TRUE

(* The keys a command may load from the files it is pointed to. *)
Loaded == UNION {LET key == FromNixFormat(text) IN {key[i] : i \in DOMAIN key} :
                   text \in {secret, public} \ {None}}

(* import_store_path_compressed, and the first write of a signed import. *)
ImportNew(refs, deriver) ==
  /\ file = << >> /\ Known
  /\ truth' = <<Info(Base32Hash(digest), refs, deriver)>>
  /\ WriteFile(Lines(truth'[1]))
  /\ UNCHANGED <<digest, keyVars>>

(* import_store_path_signed_compressed of a path that has a narinfo, its    *)
(* own or an earlier one: the signature replaces those there are.          *)
ImportSigned(key) ==
  /\ file # << >> /\ Parses(file[1])
  /\ LET info == Parsed(file[1])
     IN  WriteFile(Lines([info EXCEPT !.sig = <<SignNarInfo(key, info)>>]))
  /\ UNCHANGED <<digest, truth, keyVars>>

(* sign: a file with a Sig line is left alone, unless --force. *)
Sign(key, force) ==
  /\ file # << >> /\ Parses(file[1])
  /\ force \/ ~HasLine(file[1], "Sig")
  /\ WriteFile(SignedText(file[1], SignNarInfo(key, Parsed(file[1])), force))
  /\ UNCHANGED <<digest, truth, keyVars>>

(* gc, or a user, removes the file: the path may be imported anew. *)
Remove ==
  /\ file # << >>
  /\ file' = << >> /\ cut' = FALSE
  /\ UNCHANGED <<digest, truth, keyVars>>

-----------------------------------------------------------------------------
(* generate_keypair_files: the secret key, then the public key, over the    *)
(* files there are.                                                        *)
KeygenSecret ==
  /\ keygen = 0 /\ made < MaxKeys
  /\ made' = made + 1 /\ keygen' = made + 1
  /\ secret' = SecretText(made + 1)
  /\ UNCHANGED <<public, torn, cacheVars>>

(* Mutant: a public key that is there is left. *)
KeygenKeepsPublic ==
  /\ keygen # 0
  /\ public' = IF public = None THEN PublicText(keygen) ELSE public
  /\ keygen' = 0 /\ torn' = FALSE
  /\ UNCHANGED <<secret, made, cacheVars>>

KeygenPublic ==
  /\ keygen # 0
  /\ public' = PublicText(keygen)
  /\ keygen' = 0 /\ torn' = FALSE
  /\ UNCHANGED <<secret, made, cacheVars>>

(* sign-keygen fails or dies in its first write, or after it. *)
KeygenDies ==
  /\ \/ /\ keygen = 0 /\ made < MaxKeys
        /\ made' = made + 1
        /\ secret' = EmptyFile
        /\ UNCHANGED public
     \/ /\ keygen # 0
        /\ public' \in {public, EmptyFile}
        /\ UNCHANGED <<secret, made>>
  /\ keygen' = 0 /\ torn' = TRUE
  /\ UNCHANGED cacheVars

Next == \/ NextByte \/ Remove
        \/ \E refs \in RefLists, deriver \in Derivers : ImportNew(refs, deriver)
        \/ \E key \in Loaded : ImportSigned(key) \/ \E force \in BOOLEAN : Sign(key, force)
        \/ KeygenSecret \/ KeygenPublic \/ KeygenDies

Spec == Init /\ [][Next]_vars

-----------------------------------------------------------------------------
(* Properties. *)

(* The text of an input of any length has its bits, five a character from  *)
(* the end, and decodes to it (nix_base32::encode, decode).                *)
EncodingInverts ==
  /\ IsEncoding(Encode(digest), digest)
  /\ Decode(Encode(digest)) = <<digest>>

(* The signatures of a file, but for one that is cut off. *)
Signatures(text) == {Parsed(text).sig[i] : i \in DOMAIN Parsed(text).sig} \ {Piece}

Ascending(refs) == \A i, j \in DOMAIN refs : i < j => refs[i].base < refs[j].base

(* The text a Nix client builds for the path: its hash in base-32, whatever *)
(* the file has it in, and its references in full, which the client keeps  *)
(* in a sorted set.                                                        *)
IsNixFingerprint(over) ==
  LET refs == truth[1].references
  IN  /\ over = <<Path, Base32Hash(digest), "nar size", over[4]>>
      /\ {over[4][i] : i \in DOMAIN over[4]} = {FullPath(refs[i]) : i \in DOMAIN refs}
      /\ Ascending(over[4])

(* Every signature that import or sign has put into a file is over what    *)
(* the client computes from the store path, also when the file's hash is   *)
(* in hex, after the references were cut to base names, and when it was    *)
(* written by several commands, unless one of them was cut off - if        *)
(* nix-store listed the references in ascending order, each once, and only *)
(* then: fingerprint neither sorts them nor drops what is repeated.        *)
SignaturesFitClient ==
  file # << >> /\ ~cut =>
    \A s \in Signatures(file[1]) :
      IsNixFingerprint(s.over) <=> Ascending(truth[1].references)

(* With the pair that the last sign-keygen made, unless that was cut off,   *)
(* the public key verifies every signature the secret key has made against *)
(* the file as it now reads, a file that was cut and signed then included  *)
(* (verify_narinfo_sig, generate_keypair_files).                           *)
PublishedKeyVerifies ==
  file # << >> /\ keygen = 0 /\ ~torn =>
    \A s \in Signatures(file[1]) :
      s.key = made => Verified(public, s, Fingerprint(Parsed(file[1])))

(* However import, import with a key, sign and sign --force follow each     *)
(* other, a file has one signature at most: none is added to another.      *)
OneSignature == file # << >> => Len(SigLines(file[1])) <= 1

(* Writing and parsing over and over keeps what the first import wrote, the *)
(* references and the deriver by their base names, unless a write was cut  *)
(* off: only signatures change (NarInfo::fmt, parse_narinfo).              *)
ContentKept ==
  file # << >> /\ ~cut =>
    [Parsed(file[1]) EXCEPT !.sig = << >>] =
      [truth[1] EXCEPT !.references = Each(Basename, @), !.deriver = Each(Basename, @)]
=============================================================================
