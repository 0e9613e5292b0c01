------------------------------ MODULE Container ------------------------------
(***************************************************************************)
(* The framing of an encrypted artefact: written by artifacts.py, looked   *)
(* at by worker.js before it stores an upload, read by the client and by   *)
(* artifacts.py.  The three agree on it only by repeating it.              *)
(*                                                                         *)
(*   magic (4) version suite length (2) | header | nonce | body | tag      *)
(*                                                                         *)
(* The header's JSON, the key it wraps and the cipher are left out: the    *)
(* questions are where the parts begin and end, and how much of a          *)
(* container a reader must have seen.                                      *)
(***************************************************************************)
EXTENDS Integers, Sequences

Byte   == {b \in Nat : b < 256}
Bytes  == Seq(Byte)
MAGIC  == <<67, 71, 69, 78>>   \* "CGEN"
PREAMBLE_BYTES   == 8
MAX_HEADER_BYTES == 8192
NONCE_BYTES      == 12
TAG_BYTES        == 16
SUPPORTED_CONTAINER_VERSIONS == {1, 2}
SUITES == {1}

\* What canonical_header returns; a longer header is a ContainerError.
Headers == {h \in Bytes : Len(h) >= 1 /\ Len(h) <= MAX_HEADER_BYTES}
Nonces  == {n \in Bytes : Len(n) = NONCE_BYTES}
Tags    == {t \in Bytes : Len(t) = TAG_BYTES}

\* MAGIC, the two version bytes and int.to_bytes(2, "big").
Preamble(version, suite, length) ==
  <<67, 71, 69, 78, version, suite, length \div 256, length % 256>>

\* What encrypt_stream leaves at the destination; sealed is as long as the video.
EncryptStream(version, suite, header, nonce, sealed, tag) ==
  Preamble(version, suite, Len(header)) \o (header \o (nonce \o (sealed \o tag)))

-----------------------------------------------------------------------------
HeaderLength(data)     == data[7] * 256 + data[8]
HeaderEnd(data)        == PREAMBLE_BYTES + HeaderLength(data)
CiphertextOffset(data) == HeaderEnd(data) + NONCE_BYTES

HeaderBytes(data) == SubSeq(data, PREAMBLE_BYTES + 1, HeaderEnd(data))
Nonce(data)       == SubSeq(data, HeaderEnd(data) + 1, CiphertextOffset(data))

\* What every reader asks of the first eight bytes.
ReadsPreamble(data) ==
  /\ Len(data) >= PREAMBLE_BYTES
  /\ \A i \in 1..4 : data[i] = MAGIC[i]
  /\ data[5] \in SUPPORTED_CONTAINER_VERSIONS
  /\ data[6] \in SUITES
  /\ HeaderLength(data) >= 1 /\ HeaderLength(data) <= MAX_HEADER_BYTES

\* parse_container_prefix, in artifacts.py as in worker.js: any prefix that
\* covers the header will do.
ParseContainerPrefix(data) == ReadsPreamble(data) /\ Len(data) >= HeaderEnd(data)

\* receiveOutput peeks so many bytes, or all there are.
PeekLimit == PREAMBLE_BYTES + MAX_HEADER_BYTES

\* parseContainer of the client takes whole containers only.
ParseContainer(data) ==
  ReadsPreamble(data) /\ Len(data) >= CiphertextOffset(data) + TAG_BYTES
CiphertextWithTag(data) == SubSeq(data, CiphertextOffset(data) + 1, Len(data))

\* decrypt_container: the same question, then body and tag apart.
DecryptContainer(data) ==
  ParseContainerPrefix(data) /\ Len(data) >= CiphertextOffset(data) + TAG_BYTES
Body(data) == SubSeq(data, CiphertextOffset(data) + 1, Len(data) - TAG_BYTES)
Tag(data)  == SubSeq(data, Len(data) - TAG_BYTES + 1, Len(data))
=============================================================================
