------------------------- MODULE ControlPlane_proofs -------------------------
(***************************************************************************)
(* Machine-checked proofs about what the control plane stores: of the      *)
(* container whose beginning the upload handler judges (Container), for    *)
(* every header, nonce and video, and of the life of a job (ControlPlane), *)
(* for any number of requests under way, any references, either privacy    *)
(* mode and any number of attempts.                                        *)
(***************************************************************************)
EXTENDS ControlPlane, Container, SequenceTheorems, TLAPS

-----------------------------------------------------------------------------
(* The container: its writer and its readers agree, and what a reader of a *)
(* part of one can tell.                                                   *)

\* A header length survives its two bytes: 8192 is below 2^16, and the bytes
\* encrypt_stream writes are bytes.
LEMMA LengthBytes ==
  ASSUME NEW n \in Nat, n <= MAX_HEADER_BYTES
  PROVE  /\ n \div 256 \in Byte /\ n % 256 \in Byte
         /\ ((n \div 256) * 256) + (n % 256) = n
BY DEF MAX_HEADER_BYTES, Byte

\* Two byte strings one after the other.
LEMMA Concatenated ==
  ASSUME NEW s \in Bytes, NEW t \in Bytes
  PROVE  s \o t \in Bytes /\ Len(s \o t) = Len(s) + Len(t)
BY ConcatProperties DEF Bytes

LEMMA ConcatenatedBytes ==
  ASSUME NEW s \in Bytes, NEW t \in Bytes
  PROVE  /\ \A i \in 1..Len(s) : (s \o t)[i] = s[i]
         /\ \A i \in 1..Len(t) : (s \o t)[Len(s) + i] = t[i]
BY ConcatProperties DEF Bytes

\* The preamble, and where the parts of a container lie behind it.
LEMMA ContainerLayout ==
  ASSUME NEW version \in SUPPORTED_CONTAINER_VERSIONS, NEW suite \in SUITES,
         NEW header \in Headers, NEW nonce \in Nonces,
         NEW sealed \in Bytes, NEW tag \in Tags
  PROVE  LET data == EncryptStream(version, suite, header, nonce, sealed, tag)
         IN /\ data \in Bytes
            /\ Len(data) = 8 + Len(header) + 12 + Len(sealed) + 16
            /\ ReadsPreamble(data)
            /\ HeaderLength(data) = Len(header)
            /\ Preamble(version, suite, Len(header)) \in Bytes
            /\ Len(Preamble(version, suite, Len(header))) = 8
<1> DEFINE pre  == Preamble(version, suite, Len(header))
           rest == header \o (nonce \o (sealed \o tag))
           data == EncryptStream(version, suite, header, nonce, sealed, tag)
<1>1. header \in Bytes /\ nonce \in Bytes /\ tag \in Bytes
  BY DEF Headers, Nonces, Tags
<1>2. /\ Len(header) \in Nat /\ Len(header) >= 1 /\ Len(header) <= MAX_HEADER_BYTES
      /\ Len(nonce) = 12 /\ Len(tag) = 16 /\ Len(sealed) \in Nat
  BY <1>1, LenProperties DEF Headers, Nonces, Tags, Bytes, NONCE_BYTES, TAG_BYTES
<1>3. /\ Len(header) \div 256 \in Byte /\ Len(header) % 256 \in Byte
      /\ ((Len(header) \div 256) * 256) + (Len(header) % 256) = Len(header)
  BY <1>2, LengthBytes
<1>4. version \in Byte /\ suite \in Byte /\ \A i \in {67, 71, 69, 78} : i \in Byte
  BY DEF SUPPORTED_CONTAINER_VERSIONS, SUITES, Byte
<1>5. /\ pre \in Bytes /\ Len(pre) = 8
      /\ pre[1] = 67 /\ pre[2] = 71 /\ pre[3] = 69 /\ pre[4] = 78
      /\ pre[5] = version /\ pre[6] = suite
      /\ pre[7] = Len(header) \div 256 /\ pre[8] = Len(header) % 256
  BY <1>3, <1>4 DEF Preamble, Bytes
<1>6. rest \in Bytes /\ Len(rest) = Len(header) + 12 + Len(sealed) + 16
  <2>1. sealed \o tag \in Bytes /\ Len(sealed \o tag) = Len(sealed) + Len(tag)
    BY <1>1, Concatenated
  <2>2. /\ nonce \o (sealed \o tag) \in Bytes
        /\ Len(nonce \o (sealed \o tag)) = Len(nonce) + Len(sealed \o tag)
    BY <1>1, <2>1, Concatenated
  <2>3. rest \in Bytes /\ Len(rest) = Len(header) + Len(nonce \o (sealed \o tag))
    BY <1>1, <2>2, Concatenated
  <2> QED BY <1>2, <2>1, <2>2, <2>3
<1> HIDE DEF pre, rest
<1>7. data = pre \o rest
  BY DEF EncryptStream, pre, rest
<1> HIDE DEF data
<1>8. /\ data \in Bytes /\ Len(data) = 8 + Len(rest)
      /\ \A i \in 1..8 : data[i] = pre[i]
  <2>1. pre \in Bytes BY <1>5
  <2>2. data \in Bytes /\ Len(data) = Len(pre) + Len(rest)
    BY <1>6, <1>7, <2>1, Concatenated
  <2>3. \A i \in 1..Len(pre) : data[i] = pre[i]
    BY <1>6, <1>7, <2>1, ConcatenatedBytes
  <2> QED BY <1>5, <2>2, <2>3
<1>9. /\ data[1] = 67 /\ data[2] = 71 /\ data[3] = 69 /\ data[4] = 78
      /\ data[5] = version /\ data[6] = suite
      /\ data[7] = Len(header) \div 256 /\ data[8] = Len(header) % 256
  BY <1>5, <1>8
<1>10. HeaderLength(data) = Len(header)
  BY <1>3, <1>9 DEF HeaderLength
<1>11. \A i \in 1..4 : data[i] = MAGIC[i]
  BY <1>9 DEF MAGIC
<1>12. ReadsPreamble(data)
  BY <1>2, <1>6, <1>8, <1>9, <1>10, <1>11 DEF ReadsPreamble, PREAMBLE_BYTES, MAX_HEADER_BYTES
<1> QED BY <1>2, <1>5, <1>6, <1>8, <1>10, <1>12 DEF data, pre

LEMMA Associated ==
  ASSUME NEW s \in Bytes, NEW t \in Bytes, NEW u \in Bytes
  PROVE  (s \o t) \o u = s \o (t \o u)
BY ConcatAssociative DEF Bytes

\* A part of a byte string, by its place.
LEMMA PartOf ==
  ASSUME NEW a \in Bytes, NEW b \in Bytes, NEW c \in Bytes
  PROVE  SubSeq(a \o (b \o c), Len(a) + 1, Len(a) + Len(b)) = b
<1> DEFINE all  == a \o (b \o c)
           part == SubSeq(all, Len(a) + 1, Len(a) + Len(b))
<1>1. b \o c \in Bytes /\ Len(b \o c) = Len(b) + Len(c)
  BY Concatenated
<1>2. /\ all \in Bytes /\ Len(all) = Len(a) + Len(b \o c)
  BY <1>1, Concatenated
<1>3. Len(a) \in Nat /\ Len(b) \in Nat /\ Len(c) \in Nat
  BY LenProperties DEF Bytes
<1>4. \A i \in 1..Len(b) : all[Len(a) + i] = b[i]
  <2>1. \A i \in 1..Len(b \o c) : all[Len(a) + i] = (b \o c)[i]
    BY <1>1, ConcatenatedBytes
  <2>2. \A i \in 1..Len(b) : (b \o c)[i] = b[i]
    BY ConcatenatedBytes
  <2> QED BY <1>1, <1>3, <2>1, <2>2
<1> HIDE DEF all
<1>5. \A i \in (Len(a) + 1)..(Len(a) + Len(b)) : all[i] \in Byte
  <2>1. \A i \in 1..Len(all) : all[i] \in Byte
    BY <1>2, LenProperties DEF Bytes
  <2> QED BY <1>1, <1>2, <1>3, <2>1
<1>6. /\ part \in Seq(Byte)
      /\ Len(part) = IF Len(a) + 1 <= Len(a) + Len(b)
                       THEN (Len(a) + Len(b)) - (Len(a) + 1) + 1 ELSE 0
      /\ \A i \in 1..((Len(a) + Len(b)) - (Len(a) + 1) + 1) :
           part[i] = all[(Len(a) + 1) + i - 1]
  <2>1. Len(a) + 1 \in Int /\ Len(a) + Len(b) \in Int
    BY <1>3
  <2> QED BY <1>5, <2>1, SubSeqProperties
<1>7. Len(part) = Len(b) /\ \A i \in 1..Len(b) : part[i] = b[i]
  BY <1>3, <1>4, <1>6
<1>8. part = b
  BY <1>6, <1>7, SeqEqual DEF Bytes
<1> QED BY <1>8 DEF all

\* The first n bytes of a byte string.
LEMMA PrefixBytes ==
  ASSUME NEW data \in Bytes, NEW n \in Nat, n <= Len(data)
  PROVE  /\ SubSeq(data, 1, n) \in Bytes
         /\ Len(SubSeq(data, 1, n)) = n
         /\ \A i \in 1..n : SubSeq(data, 1, n)[i] = data[i]
<1>1. Len(data) \in Nat /\ \A i \in 1..Len(data) : data[i] \in Byte
  BY LenProperties DEF Bytes
<1>2. 1 \in Int /\ n \in Int /\ \A i \in 1..n : data[i] \in Byte
  BY <1>1
<1>3. /\ SubSeq(data, 1, n) \in Seq(Byte)
      /\ Len(SubSeq(data, 1, n)) = IF 1 <= n THEN n - 1 + 1 ELSE 0
      /\ \A i \in 1..(n - 1 + 1) : SubSeq(data, 1, n)[i] = data[1 + i - 1]
  BY <1>2, SubSeqProperties
<1> QED BY <1>3 DEF Bytes

\* Eight bytes are what the preamble's questions need.
LEMMA PreambleOfPrefix ==
  ASSUME NEW data \in Bytes, NEW n \in Nat, n <= Len(data), n >= 8
  PROVE  LET cut == SubSeq(data, 1, n)
         IN /\ HeaderLength(cut) = HeaderLength(data)
            /\ HeaderLength(data) \in Nat
            /\ ReadsPreamble(cut) <=> ReadsPreamble(data)
<1> DEFINE cut == SubSeq(data, 1, n)
<1>1. cut \in Bytes /\ Len(cut) = n /\ \A i \in 1..n : cut[i] = data[i]
  BY PrefixBytes
<1> HIDE DEF cut
<1>2. \A i \in 1..8 : cut[i] = data[i]
  BY <1>1
<1>3. HeaderLength(cut) = HeaderLength(data)
  BY <1>2 DEF HeaderLength
<1>4. HeaderLength(data) \in Nat
  <2>1. data[7] \in Byte /\ data[8] \in Byte
    BY LenProperties DEF Bytes
  <2>2. data[7] \in Nat /\ data[8] \in Nat
    BY <2>1 DEF Byte
  <2> QED BY <2>2 DEF HeaderLength
<1>5. (\A i \in 1..4 : cut[i] = MAGIC[i]) <=> (\A i \in 1..4 : data[i] = MAGIC[i])
  <2>1. \A i \in 1..4 : cut[i] = data[i]
    BY <1>2
  <2> QED BY <2>1
<1>6. cut[5] = data[5] /\ cut[6] = data[6]
  BY <1>2
<1>7. Len(cut) >= PREAMBLE_BYTES /\ Len(data) >= PREAMBLE_BYTES
  BY <1>1, LenProperties DEF PREAMBLE_BYTES, Bytes
<1>8. ReadsPreamble(cut) <=> ReadsPreamble(data)
  BY <1>3, <1>5, <1>6, <1>7 DEF ReadsPreamble
<1> QED BY <1>3, <1>4, <1>8 DEF cut

-----------------------------------------------------------------------------
\* receiveOutput decides on the whole upload by the bytes it peeked: however
\* the body is split into chunks, the header of a legal container lies within
\* them, and no upload is refused or let through that would not be if it had
\* been read to its end (worker.js peekStream, parseContainerPrefix).
THEOREM PeekDecides ==
  ASSUME NEW data \in Bytes, NEW n \in Nat, n <= Len(data),
         n >= PeekLimit \/ n = Len(data)
  PROVE  LET peeked == SubSeq(data, 1, n)
         IN /\ ParseContainerPrefix(peeked) <=> ParseContainerPrefix(data)
            /\ ParseContainerPrefix(data) => HeaderEnd(peeked) = HeaderEnd(data)
<1> DEFINE peeked == SubSeq(data, 1, n)
<1>1. peeked \in Bytes /\ Len(peeked) = n /\ Len(data) \in Nat
  BY PrefixBytes, LenProperties DEF Bytes
<1>2. CASE n < 8
  <2>1. n = Len(data)
    BY <1>2 DEF PeekLimit, PREAMBLE_BYTES, MAX_HEADER_BYTES
  <2> HIDE DEF peeked
  <2>2. ~ReadsPreamble(peeked) /\ ~ReadsPreamble(data)
    BY <1>1, <1>2, <2>1 DEF ReadsPreamble, PREAMBLE_BYTES
  <2> QED BY <2>2 DEF ParseContainerPrefix, peeked
<1>3. CASE n >= 8
  <2>1. /\ HeaderLength(peeked) = HeaderLength(data)
        /\ HeaderLength(data) \in Nat
        /\ ReadsPreamble(peeked) <=> ReadsPreamble(data)
    BY <1>3, PreambleOfPrefix
  <2> HIDE DEF peeked
  <2>2. HeaderEnd(peeked) = HeaderEnd(data)
    BY <2>1 DEF HeaderEnd
  <2>3. ReadsPreamble(data) =>
          (Len(peeked) >= HeaderEnd(peeked) <=> Len(data) >= HeaderEnd(data))
    BY <1>1, <2>1, <2>2 DEF ReadsPreamble, HeaderEnd, PeekLimit, PREAMBLE_BYTES, MAX_HEADER_BYTES
  <2> QED BY <2>1, <2>2, <2>3 DEF ParseContainerPrefix, peeked
<1> QED BY <1>2, <1>3

\* The client's one question and decrypt_container's two are the same, for
\* any bytes at all, and what the client hands to WebCrypto as one piece is
\* the body and the tag that Python takes apart.
THEOREM ReadersAgree ==
  ASSUME NEW data \in Bytes
  PROVE  /\ ParseContainer(data) <=> DecryptContainer(data)
         /\ ParseContainer(data) => CiphertextWithTag(data) = Body(data) \o Tag(data)
<1>1. Len(data) \in Nat
  BY LenProperties DEF Bytes
<1>2. ReadsPreamble(data) => HeaderLength(data) \in Nat
  <2> SUFFICES ASSUME ReadsPreamble(data) PROVE HeaderLength(data) \in Nat
    OBVIOUS
  <2>1. Len(data) >= 8
    BY DEF ReadsPreamble, PREAMBLE_BYTES
  <2>2. data[7] \in Byte /\ data[8] \in Byte
    BY <1>1, <2>1, LenProperties DEF Bytes
  <2>3. data[7] \in Nat /\ data[8] \in Nat
    BY <2>2 DEF Byte
  <2> QED BY <2>3 DEF HeaderLength
<1>3. ParseContainer(data) <=> DecryptContainer(data)
  BY <1>1, <1>2 DEF ParseContainer, DecryptContainer, ParseContainerPrefix, CiphertextOffset,
                    HeaderEnd, PREAMBLE_BYTES, NONCE_BYTES, TAG_BYTES
<1>4. ASSUME ParseContainer(data)
      PROVE  CiphertextWithTag(data) = Body(data) \o Tag(data)
  <2> DEFINE from == CiphertextOffset(data) + 1
             cut  == Len(data) - TAG_BYTES
  <2>1. /\ from \in 1..(Len(data) + 1)
        /\ cut \in (from - 1)..Len(data)
        /\ Len(data) \in cut..Len(data)
    BY <1>1, <1>2, <1>4 DEF ParseContainer, CiphertextOffset, HeaderEnd, PREAMBLE_BYTES,
                            NONCE_BYTES, TAG_BYTES
  <2> HIDE DEF from, cut
  <2>2. SubSeq(data, from, cut) \o SubSeq(data, cut + 1, Len(data))
          = SubSeq(data, from, Len(data))
    BY <2>1, ConcatAdjacentSubSeq DEF Bytes
  <2> QED BY <2>2 DEF CiphertextWithTag, Body, Tag, from, cut
<1> QED BY <1>3, <1>4

\* What encrypt_stream writes is a container to every reader, and each finds
\* in it the header, the nonce, the ciphertext and the tag that were written.
THEOREM ReadersFindWhatWasWritten ==
  ASSUME NEW version \in SUPPORTED_CONTAINER_VERSIONS, NEW suite \in SUITES,
         NEW header \in Headers, NEW nonce \in Nonces,
         NEW sealed \in Bytes, NEW tag \in Tags
  PROVE  LET data == EncryptStream(version, suite, header, nonce, sealed, tag)
         IN /\ ParseContainerPrefix(data) /\ ParseContainer(data) /\ DecryptContainer(data)
            /\ HeaderBytes(data) = header
            /\ Nonce(data) = nonce
            /\ Body(data) = sealed
            /\ Tag(data) = tag
<1> DEFINE pre  == Preamble(version, suite, Len(header))
           data == EncryptStream(version, suite, header, nonce, sealed, tag)
<1>1. /\ data \in Bytes
      /\ Len(data) = 8 + Len(header) + 12 + Len(sealed) + 16
      /\ ReadsPreamble(data) /\ HeaderLength(data) = Len(header)
      /\ pre \in Bytes /\ Len(pre) = 8
  BY ContainerLayout
<1>2. header \in Bytes /\ nonce \in Bytes /\ tag \in Bytes
  BY DEF Headers, Nonces, Tags
<1>3. /\ Len(nonce) = 12 /\ Len(tag) = 16 /\ Len(header) \in Nat /\ Len(sealed) \in Nat
  BY <1>2, LenProperties DEF Nonces, Tags, Bytes, NONCE_BYTES, TAG_BYTES
<1> HIDE DEF pre
<1>4. data = pre \o (header \o (nonce \o (sealed \o tag)))
  BY DEF EncryptStream, pre
<1> HIDE DEF data
<1>5. HeaderEnd(data) = 8 + Len(header) /\ CiphertextOffset(data) = 8 + Len(header) + 12
  BY <1>1, <1>3 DEF HeaderEnd, CiphertextOffset, PREAMBLE_BYTES, NONCE_BYTES
<1>6. ParseContainerPrefix(data) /\ ParseContainer(data) /\ DecryptContainer(data)
  BY <1>1, <1>3, <1>5 DEF ParseContainerPrefix, ParseContainer, DecryptContainer, TAG_BYTES
<1>7. sealed \o tag \in Bytes /\ nonce \o (sealed \o tag) \in Bytes
  BY <1>2, Concatenated
<1>8. HeaderBytes(data) = header
  <2>1. SubSeq(data, Len(pre) + 1, Len(pre) + Len(header)) = header
    BY <1>1, <1>2, <1>4, <1>7, PartOf
  <2>2. Len(pre) + 1 = PREAMBLE_BYTES + 1 /\ Len(pre) + Len(header) = HeaderEnd(data)
    BY <1>1, <1>5 DEF PREAMBLE_BYTES
  <2> QED BY <2>1, <2>2 DEF HeaderBytes
<1>9. Nonce(data) = nonce
  <2> DEFINE a == pre \o header
  <2>1. a \in Bytes /\ Len(a) = Len(pre) + Len(header)
    BY <1>1, <1>2, Concatenated
  <2>2. data = a \o (nonce \o (sealed \o tag))
    BY <1>1, <1>2, <1>4, <1>7, Associated
  <2> HIDE DEF a
  <2>3. SubSeq(data, Len(a) + 1, Len(a) + Len(nonce)) = nonce
    BY <1>2, <1>7, <2>1, <2>2, PartOf
  <2>4. Len(a) + 1 = HeaderEnd(data) + 1 /\ Len(a) + Len(nonce) = CiphertextOffset(data)
    BY <1>1, <1>3, <1>5, <2>1
  <2> QED BY <2>3, <2>4 DEF Nonce
<1>10. Body(data) = sealed /\ Tag(data) = tag
  <2> DEFINE a == pre \o (header \o nonce)
             b == a \o sealed
  <2>1. header \o nonce \in Bytes /\ Len(header \o nonce) = Len(header) + Len(nonce)
    BY <1>2, Concatenated
  <2>2. a \in Bytes /\ Len(a) = Len(pre) + Len(header \o nonce)
    BY <1>1, <2>1, Concatenated
  <2>3. data = a \o (sealed \o tag)
    <3>1. header \o (nonce \o (sealed \o tag)) = (header \o nonce) \o (sealed \o tag)
      BY <1>2, <1>7, Associated
    <3>2. pre \o ((header \o nonce) \o (sealed \o tag)) = a \o (sealed \o tag)
      BY <1>1, <1>7, <2>1, Associated
    <3> QED BY <1>4, <3>1, <3>2
  <2> HIDE DEF a
  <2>4. b \in Bytes /\ Len(b) = Len(a) + Len(sealed)
    BY <2>2, Concatenated
  <2>5. data = b \o (tag \o <<>>)
    <3>1. tag \o <<>> = tag
      BY <1>2, ConcatEmptySeq DEF Bytes
    <3>2. a \o (sealed \o tag) = b \o tag
      BY <1>2, <2>2, Associated
    <3> QED BY <2>3, <3>1, <3>2
  <2> HIDE DEF b
  <2>6. SubSeq(data, Len(a) + 1, Len(a) + Len(sealed)) = sealed
    BY <1>2, <2>2, <2>3, PartOf
  <2>7. SubSeq(data, Len(b) + 1, Len(b) + Len(tag)) = tag
    <3>1. <<>> \in Bytes
      BY DEF Bytes
    <3> QED BY <1>2, <2>4, <2>5, <3>1, PartOf
  <2>8. /\ Len(a) + 1 = CiphertextOffset(data) + 1
        /\ Len(a) + Len(sealed) = Len(data) - TAG_BYTES
        /\ Len(b) + 1 = Len(data) - TAG_BYTES + 1
        /\ Len(b) + Len(tag) = Len(data)
    BY <1>1, <1>3, <1>5, <2>1, <2>2, <2>4 DEF TAG_BYTES
  <2> QED BY <2>6, <2>7, <2>8 DEF Body, Tag
<1> QED BY <1>6, <1>8, <1>9, <1>10 DEF data

\* A container cut short on the way: its header is enough for the Worker to
\* take it for one, but a reader notices as soon as the nonce or the room for
\* a tag is missing, and only then. What was cut later is left to the tag.
THEOREM CutContainers ==
  ASSUME NEW version \in SUPPORTED_CONTAINER_VERSIONS, NEW suite \in SUITES,
         NEW header \in Headers, NEW nonce \in Nonces,
         NEW sealed \in Bytes, NEW tag \in Tags, NEW n \in Nat,
         n <= Len(EncryptStream(version, suite, header, nonce, sealed, tag))
  PROVE  LET cut == SubSeq(EncryptStream(version, suite, header, nonce, sealed, tag), 1, n)
         IN /\ ParseContainerPrefix(cut) <=> n >= 8 + Len(header)
            /\ ParseContainer(cut) <=> n >= 8 + Len(header) + 12 + 16
<1> DEFINE data == EncryptStream(version, suite, header, nonce, sealed, tag)
           cut  == SubSeq(data, 1, n)
<1>1. /\ data \in Bytes /\ ReadsPreamble(data) /\ HeaderLength(data) = Len(header)
  BY ContainerLayout
<1>2. Len(header) \in Nat
  BY LenProperties DEF Headers, Bytes
<1> HIDE DEF data
<1>3. n <= Len(data)
  BY DEF data
<1>4. cut \in Bytes /\ Len(cut) = n
  BY <1>1, <1>3, PrefixBytes
<1>5. n >= 8 => ReadsPreamble(cut) /\ HeaderLength(cut) = Len(header)
  BY <1>1, <1>3, PreambleOfPrefix
<1> HIDE DEF cut
<1>6. n < 8 => ~ReadsPreamble(cut)
  BY <1>4 DEF ReadsPreamble, PREAMBLE_BYTES
<1>7. ParseContainerPrefix(cut) <=> n >= 8 + Len(header)
  BY <1>2, <1>4, <1>5, <1>6 DEF ParseContainerPrefix, HeaderEnd, PREAMBLE_BYTES
<1>8. ParseContainer(cut) <=> n >= 8 + Len(header) + 12 + 16
  BY <1>2, <1>4, <1>5, <1>6 DEF ParseContainer, CiphertextOffset, HeaderEnd, PREAMBLE_BYTES,
                                NONCE_BYTES, TAG_BYTES
<1> QED BY <1>7, <1>8 DEF cut, data

-----------------------------------------------------------------------------
(* The life of a job.                                                      *)

USE ConfidentialAssumption, AttemptsAssumption
USE DEF outside, clientVars

-----------------------------------------------------------------------------
(* Types.                                                                  *)

\* Where a request of a kind can be.
Routing ==
  \A h \in Requests :
    /\ req[h].op = "idle" => req[h].at = "none"
    /\ req[h].op = "progress" => req[h].at \in {"read", "cleanup", "forget"}
    /\ req[h].op = "upload" => req[h].at \in {"put", "push", "read", "cleanup", "forget", "ack"}
    /\ req[h].op = "cancel" => req[h].at \in {"read", "cleanup", "push"}
    /\ req[h].op = "status" => /\ req[h].at \in {"read", "cleanup", "forget", "persist"}
                               /\ req[h].verdict \in Verdicts
    /\ req[h].op = "delete" => req[h].at \in {"read", "remove", "push"}

Typing == TypeOK /\ Routing

LEMMA InitTyping == Init => Typing
<1> SUFFICES ASSUME Init PROVE Typing
  OBVIOUS
<1>1. chan \in Channel
  BY DEF Init, Channel, NoSnapshot
<1>2. 0 \in 0 .. MaxAttempts
  OBVIOUS
<1>3. req \in [Requests -> Request \cup {Idle}]
  BY DEF Init
<1>4. Routing
  BY DEF Init, Routing, Idle
<1> QED BY <1>1, <1>2, <1>3, <1>4 DEF Init, Typing, TypeOK, Terminal, GpuStates, Objects

Slot ==
  [op : Ops \cup {"idle"}, at : Ats \cup {"none"}, verdict : Verdicts \cup {"none"},
   attempt : 0 .. MaxAttempts, form : Forms, refs : SUBSET Refs, artifact : Descriptions]

\* A request begins, and goes on to its next await.
LEMMA BeginIsRequest ==
  ASSUME NEW op \in Ops, NEW at \in Ats
  PROVE  [Idle EXCEPT !.op = op, !.at = at] \in Request
<1> USE DEF Slot, Idle, Request, Ops, Ats, Forms, Verdicts, Descriptions
<1>1. Idle \in Slot
  <2>1. 0 \in 0 .. MaxAttempts
    OBVIOUS
  <2> QED BY <2>1
<1> DEFINE one == [Idle EXCEPT !.op = op]
           two == [one EXCEPT !.at = at]
<1>2. one \in Slot /\ one.op = op
  BY <1>1
<1> HIDE DEF one
<1>3. two \in Slot /\ two.op = op /\ two.at = at
  BY <1>2
<1> HIDE DEF two
<1>4. two \in Request
  BY <1>3
<1> QED BY <1>4 DEF two, one

LEMMA UploadIsRequest ==
  ASSUME NEW body \in Forms, attempt \in 0 .. MaxAttempts
  PROVE  [Idle EXCEPT !.op = "upload", !.at = "put", !.attempt = attempt, !.form = body] \in Request
<1> DEFINE one == [Idle EXCEPT !.op = "upload", !.at = "put"]
<1>1. one \in Request
  BY BeginIsRequest DEF Ops, Ats
<1> HIDE DEF one
<1>2. [one EXCEPT !.attempt = attempt, !.form = body] \in Request
  BY <1>1 DEF Request
<1> QED BY <1>2 DEF one

LEMMA StatusIsRequest ==
  ASSUME NEW verdict \in Verdicts
  PROVE  [Idle EXCEPT !.op = "status", !.at = "read", !.verdict = verdict] \in Request
<1> DEFINE one == [Idle EXCEPT !.op = "status", !.at = "read"]
<1>1. one \in Request
  BY BeginIsRequest DEF Ops, Ats
<1> HIDE DEF one
<1>2. [one EXCEPT !.verdict = verdict] \in Request
  BY <1>1 DEF Request
<1> QED BY <1>2 DEF one

LEMMA VerdictIsOne == ASSUME NEW status PROVE Verdict(status) \in Verdicts
BY DEF Verdict, Verdicts

LEMMA AwaitAfterRead ==
  ASSUME NEW op, NEW keys, AfterRead(op, keys) # "none" PROVE AfterRead(op, keys) \in Ats
BY DEF AfterRead, Ats

LEMMA DescriptionIsOne ==
  ASSUME chan \in Channel, NEW verdict PROVE Describe(verdict) \in Descriptions
BY DEF Channel, Describe, Descriptions, Forms

LEMMA SlotsAreTyped == TypeOK => req \in [Requests -> Slot]
<1>1. Request \subseteq Slot /\ Idle \in Slot
  <2>1. 0 \in 0 .. MaxAttempts
    OBVIOUS
  <2> QED BY <2>1 DEF Request, Slot, Idle, Forms, Descriptions
<1> QED BY <1>1 DEF TypeOK

LEMMA ContinueIsRequest ==
  ASSUME TypeOK, NEW h \in Requests, req[h] # Idle, NEW at \in Ats, Continue(h, at)
  PROVE  req' \in [Requests -> Request \cup {Idle}]
<1>1. req[h] \in Request
  BY DEF TypeOK
<1>2. [req[h] EXCEPT !.at = at] \in Request
  BY <1>1 DEF Request
<1> QED BY <1>2 DEF TypeOK, Continue

\* Every step preserves the types.
LEMMA StepTypeOK == Typing /\ [Next]_vars => TypeOK'
<1> SUFFICES ASSUME TypeOK, Routing, [Next]_vars PROVE TypeOK'
  BY DEF Typing
<1> USE DEF TypeOK, Terminal, GpuStates, Channel, Snapshots, NoSnapshot, Objects, Forms, Reports, Verdicts,
        Descriptions, Request, Idle, Ops, Ats
<1>1. ASSUME PostAccepted PROVE TypeOK'
  BY <1>1 DEF PostAccepted
<1>2. ASSUME PostRefused PROVE TypeOK'
  BY <1>2 DEF PostRefused
<1>3. ASSUME PostThrows PROVE TypeOK'
  BY <1>3 DEF PostThrows
<1>4. ASSUME Seed PROVE TypeOK'
  BY <1>4 DEF Seed
<1>5. ASSUME SeedFails PROVE TypeOK'
  BY <1>5 DEF SeedFails
<1>6. ASSUME RunPodStarts PROVE TypeOK'
  BY <1>6 DEF RunPodStarts
<1>7. ASSUME RunPodTimesOut PROVE TypeOK'
  BY <1>7 DEF RunPodTimesOut
<1>8. ASSUME WorkerLost PROVE TypeOK'
  BY <1>8 DEF WorkerLost
<1>9. ASSUME CronSweep PROVE TypeOK'
  BY <1>9 DEF CronSweep
<1>10. ASSUME RecordExpires PROVE TypeOK'
  BY <1>10 DEF RecordExpires
<1>11. ASSUME GpuReports PROVE TypeOK'
  BY <1>11 DEF GpuReports
<1>12. ASSUME GpuFails PROVE TypeOK'
  BY <1>12 DEF GpuFails
<1>13. ASSUME GpuReportsEnd PROVE TypeOK'
  <2>1. net' \subseteq Reports /\ gpu' \in GpuStates 
    BY <1>13 DEF GpuReportsEnd
  <2>2. ended' \in BOOLEAN /\ gpu # "off"
    BY <1>13 DEF GpuReportsEnd
  <2> HIDE DEF Request, Idle, Channel, Reports
  <2> QED BY <1>13, <2>1, <2>2 DEF GpuReportsEnd
<1>14. ASSUME GpuReturns PROVE TypeOK'
  BY <1>14 DEF GpuReturns
<1>15. ASSUME LoseReport PROVE TypeOK'
  BY <1>15 DEF LoseReport
<1>16. ASSUME NEW h \in Requests, ReceiveProgress(h) PROVE TypeOK'
  <2>1. req' \in [Requests -> Request \cup {Idle}]
    <3>1. [Idle EXCEPT !.op = "progress", !.at = "read"] \in Request
      BY BeginIsRequest
    <3> HIDE DEF Request, Idle
    <3> QED BY <1>16, <3>1 DEF ReceiveProgress, Begin
  <2>2. net' \subseteq Reports /\ chan' \in Channel
    <3>1. PICK p \in net :
            /\ net' = net \ {p}
            /\ chan' = IF p = "completed"
                       THEN [chan EXCEPT !.phase = p, !.video = "video.mp4"]
                       ELSE [chan EXCEPT !.phase = p]
      BY <1>16 DEF ReceiveProgress
    <3>2. [chan EXCEPT !.phase = p] \in Channel
      BY <3>1
    <3>3. [chan EXCEPT !.phase = p, !.video = "video.mp4"] \in Channel
      BY <3>1
    <3> QED BY <3>1, <3>2, <3>3
  <2> HIDE DEF Request, Idle, Channel
  <2> QED BY <1>16, <2>1, <2>2 DEF ReceiveProgress
<1>17. ASSUME NEW h \in Requests, GpuUploads(h) PROVE TypeOK'
  <2>1. PICK body \in Forms :
          req' = [req EXCEPT ![h] = [Idle EXCEPT !.op = "upload", !.at = "put",
                                                 !.attempt = attempt, !.form = body]]
    BY <1>17 DEF GpuUploads
  <2>2. [Idle EXCEPT !.op = "upload", !.at = "put", !.attempt = attempt, !.form = body] \in Request
    BY UploadIsRequest
  <2> HIDE DEF Request, Idle, Channel
  <2> QED BY <1>17, <2>1, <2>2 DEF GpuUploads
<1>18. ASSUME NEW h \in Requests, Cancel(h) PROVE TypeOK'
  <2>1. req' \in [Requests -> Request \cup {Idle}]
    <3>1. [Idle EXCEPT !.op = "cancel", !.at = "read"] \in Request
      BY BeginIsRequest
    <3> HIDE DEF Request, Idle
    <3> QED BY <1>18, <3>1 DEF Cancel, Begin
  <2>2. runpod' = "CANCELLED" /\ asked' \subseteq {"cancel", "delete"}
    BY <1>18 DEF Cancel
  <2> HIDE DEF Request, Idle, Channel
  <2> QED BY <1>18, <2>1, <2>2 DEF Cancel
<1>19. ASSUME NEW h \in Requests, PollStatus(h) PROVE TypeOK'
  <2> HIDE DEF Request, Idle, Channel, Verdicts
  <2>1. [Idle EXCEPT !.op = "status", !.at = "read", !.verdict = Verdict(runpod)] \in Request
    BY VerdictIsOne, StatusIsRequest
  <2> QED BY <1>19, <2>1 DEF PollStatus
<1>20. ASSUME NEW h \in Requests, Delete(h) PROVE TypeOK'
  <2>1. req' \in [Requests -> Request \cup {Idle}]
    <3>1. /\ [Idle EXCEPT !.op = "delete", !.at = "read"] \in Request
          /\ [Idle EXCEPT !.op = "delete", !.at = "remove"] \in Request
      BY BeginIsRequest
    <3> HIDE DEF Request, Idle
    <3> QED BY <1>20, <3>1 DEF Delete, Begin
  <2> HIDE DEF Request, Idle, Channel
  <2> QED BY <1>20, <2>1 DEF Delete
<1>21. ASSUME NEW h \in Requests, StoreOutput(h) PROVE TypeOK'
  BY <1>21 DEF StoreOutput, Continue, Key
<1>22. ASSUME NEW h \in Requests, RefuseOutput(h) PROVE TypeOK'
  BY <1>22 DEF RefuseOutput, AnswerUpload, Finish
<1>23. ASSUME NEW h \in Requests, AnnounceOutput(h) PROVE TypeOK'
  <2>1. chan' \in Channel
    <3>1. Key \in {"video.mp4", "artifact.enc"} /\ Label \in Forms
      BY DEF Key, Label
    <3> QED BY <1>23, <3>1 DEF AnnounceOutput
  <2>2. req' \in [Requests -> Request \cup {Idle}]
    BY <1>23, ContinueIsRequest DEF AnnounceOutput
  <2> HIDE DEF Request, Idle, Channel
  <2> QED BY <1>23, <2>1, <2>2 DEF AnnounceOutput
<1>24. ASSUME NEW h \in Requests, Acknowledge(h) PROVE TypeOK'
  BY <1>24 DEF Acknowledge, AnswerUpload, Finish
<1>25. ASSUME NEW h \in Requests, ReadState(h) PROVE TypeOK'
  <2> HIDE DEF Request, Idle, Ats, Descriptions
  <2>1. PICK answered \in BOOLEAN :
          LET keys == IF answered THEN chan.refs ELSE {}
              next == AfterRead(req[h].op, keys) IN
          IF next = "none"
          THEN Finish(h)
          ELSE req' = [req EXCEPT ![h].at = next, ![h].refs = keys,
                         ![h].artifact = CASE req[h].op # "status" -> "none"
                                           [] ~answered -> "unread"
                                           [] OTHER -> Describe(req[h].verdict)]
    BY <1>25 DEF ReadState
  <2> DEFINE keys == IF answered THEN chan.refs ELSE {}
             next == AfterRead(req[h].op, keys)
             art  == CASE req[h].op # "status" -> "none"
                       [] ~answered -> "unread"
                       [] OTHER -> Describe(req[h].verdict)
  <2>2. CASE next = "none"
    BY <1>25, <2>1, <2>2 DEF ReadState, Finish
  <2>3. CASE next # "none"
    <3>1. next \in Ats /\ keys \in SUBSET Refs
      BY <2>3, AwaitAfterRead
    <3>2. art \in Descriptions
      BY DescriptionIsOne DEF Descriptions
    <3>3. req' = [req EXCEPT ![h].at = next, ![h].refs = keys, ![h].artifact = art]
      BY <2>1, <2>3
    <3>4. req[h] \in Request
      BY <1>25 DEF ReadState, Idle
    <3> HIDE DEF next, keys, art
    <3>5. [req[h] EXCEPT !.at = next, !.refs = keys, !.artifact = art] \in Request
      BY <3>1, <3>2, <3>4 DEF Request
    <3>6. req' \in [Requests -> Request \cup {Idle}]
      BY <3>3, <3>5
    <3> HIDE DEF Channel
    <3> QED BY <1>25, <3>6 DEF ReadState
  <2> QED BY <2>2, <2>3
<1>26. ASSUME NEW h \in Requests, CleanUp(h) PROVE TypeOK'
  BY <1>26 DEF CleanUp, Continue
<1>27. ASSUME NEW h \in Requests, ForgetReferences(h) PROVE TypeOK'
  BY <1>27 DEF ForgetReferences, Continue, Finish
<1>28. ASSUME NEW h \in Requests, Persist(h) PROVE TypeOK'
  <2>1. chan' \in Channel
    <3>1. req[h] \in Request /\ req[h].op = "status"
      BY <1>28 DEF Persist, Routing
    <3>2. req[h].verdict \in Verdicts /\ req[h].artifact \in Descriptions
      BY <3>1 DEF Routing
    <3>3. [verdict |-> req[h].verdict, artifact |-> req[h].artifact] \in Snapshots
      BY <3>2
    <3> HIDE DEF Snapshots, Request
    <3> QED BY <1>28, <3>3 DEF Persist
  <2> HIDE DEF Request, Idle, Channel
  <2> QED BY <1>28, <2>1 DEF Persist, Finish
<1>29. ASSUME NEW h \in Requests, MarkCancelled(h) PROVE TypeOK'
  BY <1>29 DEF MarkCancelled, Finish
<1>30. ASSUME NEW h \in Requests, RemoveObjects(h) PROVE TypeOK'
  BY <1>30 DEF RemoveObjects
<1>31. ASSUME NEW h \in Requests, MarkDeleted(h) PROVE TypeOK'
  BY <1>31 DEF MarkDeleted, Finish
<1>32. ASSUME NEW h \in Requests, Abort(h) PROVE TypeOK'
  BY <1>32 DEF Abort, AnswerUpload, Finish
<1>33. CASE UNCHANGED vars
  BY <1>33 DEF vars
<1> QED
  BY <1>1, <1>2, <1>3, <1>4, <1>5, <1>6, <1>7, <1>8, <1>9, <1>10, <1>11,
     <1>12, <1>13, <1>14, <1>15, <1>16, <1>17, <1>18, <1>19, <1>20, <1>21, <1>22,
     <1>23, <1>24, <1>25, <1>26, <1>27, <1>28, <1>29, <1>30, <1>31, <1>32, <1>33
  DEF Next, RunPodNext, RequestNext

\* What the longer actions do to the slot of their request.
Others(h) == \A k \in Requests \ {h} : req'[k] = req[k]

LEMMA Begun ==
  ASSUME TypeOK, NEW h \in Requests, NEW op, NEW at, Begin(h, op, at)
  PROVE  /\ Others(h)
         /\ req'[h].op = op /\ req'[h].at = at /\ req'[h].form = "plain"
<1> DEFINE new == [Idle EXCEPT !.op = op, !.at = at]
<1>1. new.op = op /\ new.at = at /\ new.form = "plain"
  BY DEF Idle
<1>2. req' = [req EXCEPT ![h] = new] /\ req \in [Requests -> Slot]
  BY SlotsAreTyped DEF Begin
<1> HIDE DEF new
<1> QED BY <1>1, <1>2 DEF Others

LEMMA Continued ==
  ASSUME TypeOK, NEW h \in Requests, NEW at, Continue(h, at)
  PROVE  /\ Others(h)
         /\ req'[h].at = at /\ req'[h].op = req[h].op /\ req'[h].verdict = req[h].verdict
         /\ req'[h].form = req[h].form /\ req'[h].refs = req[h].refs
         /\ req'[h].artifact = req[h].artifact
BY SlotsAreTyped DEF Continue, Others, Slot

LEMMA Finished ==
  ASSUME TypeOK, NEW h \in Requests, Finish(h)
  PROVE  /\ Others(h)
         /\ req'[h].op = "idle" /\ req'[h].at = "none" /\ req'[h].form = "plain"
BY SlotsAreTyped DEF Finish, Others, Idle

LEMMA UploadBegun ==
  ASSUME TypeOK, NEW h \in Requests, GpuUploads(h)
  PROVE  /\ Others(h)
         /\ req'[h].op = "upload" /\ req'[h].at = "put"
         /\ ~Confidential => req'[h].form = "plain"
         /\ gpu' = "uploading" /\ UNCHANGED <<outside, net, chan, objects, refs, asked, ended>>
<1>1. PICK body \in (IF Confidential THEN Forms ELSE {"plain"}) :
        req' = [req EXCEPT ![h] = [Idle EXCEPT !.op = "upload", !.at = "put",
                                               !.attempt = attempt, !.form = body]]
  BY DEF GpuUploads
<1> DEFINE new == [Idle EXCEPT !.op = "upload", !.at = "put", !.attempt = attempt, !.form = body]
<1>2. new.op = "upload" /\ new.at = "put" /\ new.form = body
  BY DEF Idle
<1>3. req' = [req EXCEPT ![h] = new] /\ req \in [Requests -> Slot]
  BY <1>1, SlotsAreTyped
<1> HIDE DEF new
<1>4. Others(h) /\ req'[h] = new
  BY <1>3 DEF Others
<1> QED BY <1>2, <1>4 DEF GpuUploads

LEMMA ReportTaken ==
  ASSUME TypeOK, NEW h \in Requests, ReceiveProgress(h)
  PROVE  /\ Others(h)
         /\ \/ req'[h] = req[h]
            \/ /\ net \cap {"completed", "failed"} # {}
               /\ req'[h].op = "progress" /\ req'[h].at = "read" /\ req'[h].form = "plain"
         /\ net' \subseteq net
         /\ chan'.artifact = chan.artifact /\ chan'.refs = chan.refs
         /\ chan'.snapshot = chan.snapshot
         /\ UNCHANGED <<outside, gpu, objects, refs, asked, ended>>
<1>1. PICK p \in net :
        /\ net' = net \ {p}
        /\ chan' = IF p = "completed" THEN [chan EXCEPT !.phase = p, !.video = "video.mp4"]
                                      ELSE [chan EXCEPT !.phase = p]
        /\ \/ UNCHANGED req
           \/ p # "sampling" /\ Begin(h, "progress", "read")
  BY DEF ReceiveProgress
<1>2. UNCHANGED <<outside, gpu, objects, refs, asked, ended>>
  BY DEF ReceiveProgress
<1>3. /\ chan'.artifact = chan.artifact /\ chan'.refs = chan.refs
      /\ chan'.snapshot = chan.snapshot
  BY <1>1 DEF TypeOK, Channel
<1>4. CASE UNCHANGED req
  BY <1>1, <1>2, <1>3, <1>4 DEF Others
<1>5. CASE p # "sampling" /\ Begin(h, "progress", "read")
  <2>1. p \in {"completed", "failed"}
    BY <1>1, <1>5 DEF TypeOK, Reports
  <2>2. /\ req'[h].op = "progress" /\ req'[h].at = "read" /\ req'[h].form = "plain"
        /\ Others(h)
    BY <1>5, Begun
  <2> QED BY <1>1, <1>2, <1>3, <2>1, <2>2
<1> QED BY <1>1, <1>4, <1>5

LEMMA Polled ==
  ASSUME TypeOK, NEW h \in Requests, PollStatus(h)
  PROVE  /\ Others(h)
         /\ req'[h].op = "status" /\ req'[h].at = "read"
         /\ req'[h].verdict = Verdict(runpod) /\ req'[h].form = "plain"
         /\ runpod \in Terminal
         /\ UNCHANGED <<outside, gpu, net, chan, objects, refs, asked, ended>>
<1> DEFINE new == [Idle EXCEPT !.op = "status", !.at = "read", !.verdict = Verdict(runpod)]
<1>1. new.op = "status" /\ new.at = "read" /\ new.verdict = Verdict(runpod) /\ new.form = "plain"
  BY DEF Idle
<1>2. req' = [req EXCEPT ![h] = new] /\ req \in [Requests -> Slot]
  BY SlotsAreTyped DEF PollStatus
<1>3. runpod \in Terminal /\ UNCHANGED <<outside, gpu, net, chan, objects, refs, asked, ended>>
  BY DEF PollStatus, FinalStatuses
<1> HIDE DEF new
<1> QED BY <1>1, <1>2, <1>3 DEF Others

LEMMA RemovalDone ==
  ASSUME TypeOK, NEW h \in Requests, RemoveObjects(h)
  PROVE  /\ Others(h)
         /\ req[h].at = "remove" /\ req'[h].at = "push" /\ req'[h].op = req[h].op
         /\ req'[h].form = req[h].form /\ req'[h].verdict = req[h].verdict
         /\ req'[h].artifact = req[h].artifact
         /\ objects' = {} /\ refs' = refs \ req[h].refs
         /\ UNCHANGED <<outside, gpu, net, chan, asked, ended>>
BY SlotsAreTyped DEF RemoveObjects, Others, Slot

LEMMA HasRead ==
  ASSUME TypeOK, NEW h \in Requests, ReadState(h)
  PROVE  /\ Others(h)
         /\ req[h].at = "read"
         /\ \E keys \in {{}, chan.refs} :
              LET next == AfterRead(req[h].op, keys) IN
                IF next = "none"
                THEN req'[h] = Idle
                ELSE /\ req'[h].op = req[h].op /\ req'[h].at = next
                     /\ req'[h].verdict = req[h].verdict /\ req'[h].form = req[h].form
                     /\ req'[h].refs = keys
                     /\ req[h].op = "status" =>
                          req'[h].artifact \in {"unread", Describe(req[h].verdict)}
         /\ UNCHANGED <<outside, gpu, net, chan, objects, refs, asked, ended>>
<1>0. UNCHANGED <<outside, gpu, net, chan, objects, refs, asked, ended>>
  BY DEF ReadState
<1>1. PICK answered \in BOOLEAN :
        LET keys == IF answered THEN chan.refs ELSE {}
            next == AfterRead(req[h].op, keys) IN
        IF next = "none"
        THEN Finish(h)
        ELSE req' = [req EXCEPT ![h].at = next, ![h].refs = keys,
                       ![h].artifact = CASE req[h].op # "status" -> "none"
                                         [] ~answered -> "unread"
                                         [] OTHER -> Describe(req[h].verdict)]
  BY DEF ReadState
<1> DEFINE keys == IF answered THEN chan.refs ELSE {}
           next == AfterRead(req[h].op, keys)
           art  == CASE req[h].op # "status" -> "none"
                     [] ~answered -> "unread"
                     [] OTHER -> Describe(req[h].verdict)
<1>2. req \in [Requests -> Slot]
  BY SlotsAreTyped
<1>3. req[h].at = "read" /\ keys \in {{}, chan.refs}
  BY DEF ReadState
<1>4. req[h].op = "status" => art \in {"unread", Describe(req[h].verdict)}
  OBVIOUS
<1>5. CASE next = "none"
  <2>1. Finish(h)
    BY <1>1, <1>5
  <2>2. req'[h] = Idle /\ Others(h)
    BY <1>2, <2>1 DEF Finish, Others
  <2> QED BY <1>0, <1>3, <1>5, <2>2
<1>6. CASE next # "none"
  <2>1. req' = [req EXCEPT ![h].at = next, ![h].refs = keys, ![h].artifact = art]
    BY <1>1, <1>6
  <2> HIDE DEF next, keys, art
  <2>2. /\ Others(h)
        /\ req'[h].op = req[h].op /\ req'[h].at = next /\ req'[h].refs = keys
        /\ req'[h].verdict = req[h].verdict /\ req'[h].form = req[h].form
        /\ req'[h].artifact = art
    BY <1>2, <2>1 DEF Others, Slot
  <2> QED BY <1>0, <1>3, <1>4, <1>6, <2>2 DEF next
<1> QED BY <1>5, <1>6

\* The same, for those who do not ask what it read.
LEMMA HasReadOn ==
  ASSUME TypeOK, NEW h \in Requests, ReadState(h)
  PROVE  /\ Others(h)
         /\ req[h].at = "read"
         /\ \/ req'[h].op = "idle" /\ req'[h].at = "none"
            \/ req'[h].op = req[h].op /\ req'[h].verdict = req[h].verdict /\ req'[h].form = req[h].form
         /\ UNCHANGED <<outside, gpu, net, chan, objects, refs, asked, ended>>
<1>1. Idle.op = "idle" /\ Idle.at = "none"
  BY DEF Idle
<1> QED BY <1>1, HasRead

\* An await tells the kind of the request.
LEMMA AwaitTells ==
  ASSUME Typing, NEW h \in Requests
  PROVE  /\ req[h].at # "none" => req[h].op # "idle"
         /\ req[h].at = "remove" => req[h].op = "delete"
         /\ req[h].at = "persist" => req[h].op = "status"
         /\ req[h].at = "forget" => req[h].op \in {"progress", "upload", "status"}
         /\ req[h].at = "cleanup" => req[h].op \in {"progress", "upload", "status", "cancel"}
<1>1. req[h].op \in Ops \cup {"idle"}
  BY SlotsAreTyped DEF Typing, Slot
<1> QED BY <1>1 DEF Typing, Routing, Ops

LEMMA StepRouting == Typing /\ [Next]_vars => Routing'
<1> SUFFICES ASSUME TypeOK, Routing, [Next]_vars PROVE Routing'
  BY DEF Typing
<1>a. req \in [Requests -> Slot]
  BY SlotsAreTyped
<1>b. \A status : Verdict(status) \in Verdicts
  BY VerdictIsOne
<1> USE DEF Routing, Slot
<1>1. ASSUME PostAccepted PROVE Routing'
  BY <1>1, <1>a, <1>b DEF PostAccepted
<1>2. ASSUME PostRefused PROVE Routing'
  BY <1>2, <1>a, <1>b DEF PostRefused
<1>3. ASSUME PostThrows PROVE Routing'
  BY <1>3, <1>a, <1>b DEF PostThrows
<1>4. ASSUME Seed PROVE Routing'
  BY <1>4, <1>a, <1>b DEF Seed
<1>5. ASSUME SeedFails PROVE Routing'
  BY <1>5, <1>a, <1>b DEF SeedFails
<1>6. ASSUME RunPodStarts PROVE Routing'
  BY <1>6, <1>a, <1>b DEF RunPodStarts
<1>7. ASSUME RunPodTimesOut PROVE Routing'
  BY <1>7, <1>a, <1>b DEF RunPodTimesOut
<1>8. ASSUME WorkerLost PROVE Routing'
  BY <1>8, <1>a, <1>b DEF WorkerLost
<1>9. ASSUME CronSweep PROVE Routing'
  BY <1>9, <1>a, <1>b DEF CronSweep
<1>10. ASSUME RecordExpires PROVE Routing'
  BY <1>10, <1>a, <1>b DEF RecordExpires
<1>11. ASSUME GpuReports PROVE Routing'
  BY <1>11, <1>a, <1>b DEF GpuReports
<1>12. ASSUME GpuFails PROVE Routing'
  BY <1>12, <1>a, <1>b DEF GpuFails
<1>13. ASSUME GpuReportsEnd PROVE Routing'
  BY <1>13, <1>a, <1>b DEF GpuReportsEnd
<1>14. ASSUME GpuReturns PROVE Routing'
  BY <1>14, <1>a, <1>b DEF GpuReturns
<1>15. ASSUME LoseReport PROVE Routing'
  BY <1>15, <1>a, <1>b DEF LoseReport
<1>16. ASSUME NEW h \in Requests, ReceiveProgress(h) PROVE Routing'
  <2>1. /\ Others(h)
        /\ \/ req'[h] = req[h]
           \/ req'[h].op = "progress" /\ req'[h].at = "read"
    BY <1>16, ReportTaken
  <2> QED BY <2>1 DEF Others
<1>17. ASSUME NEW h \in Requests, GpuUploads(h) PROVE Routing'
  BY <1>17, <1>a, <1>b DEF GpuUploads, Idle
<1>18. ASSUME NEW h \in Requests, Cancel(h) PROVE Routing'
  BY <1>18, <1>a, <1>b DEF Cancel, Begin, Idle
<1>19. ASSUME NEW h \in Requests, PollStatus(h) PROVE Routing'
  BY <1>19, <1>b, Polled DEF Others
<1>20. ASSUME NEW h \in Requests, Delete(h) PROVE Routing'
  <2>1. Others(h) /\ req'[h].op = "delete" /\ req'[h].at \in {"read", "remove"}
    BY <1>20, Begun DEF Delete
  <2> QED BY <2>1 DEF Others
<1>21. ASSUME NEW h \in Requests, StoreOutput(h) PROVE Routing'
  BY <1>21, <1>a, <1>b DEF StoreOutput, Continue
<1>22. ASSUME NEW h \in Requests, RefuseOutput(h) PROVE Routing'
  BY <1>22, <1>a, <1>b DEF RefuseOutput, AnswerUpload, Finish, Idle
<1>23. ASSUME NEW h \in Requests, AnnounceOutput(h) PROVE Routing'
  BY <1>23, <1>a, <1>b DEF AnnounceOutput, Continue
<1>24. ASSUME NEW h \in Requests, Acknowledge(h) PROVE Routing'
  BY <1>24, <1>a, <1>b DEF Acknowledge, AnswerUpload, Finish, Idle
<1>25. ASSUME NEW h \in Requests, ReadState(h) PROVE Routing'
  <2>1. \A op : \A keys : LET next == AfterRead(op, keys) IN
          next # "none" => /\ op = "progress" => next = "cleanup"
                           /\ op = "upload" => next \in {"cleanup", "ack"}
                           /\ op = "cancel" => next \in {"cleanup", "push"}
                           /\ op = "status" => next \in {"cleanup", "persist"}
                           /\ op = "delete" => next = "remove"
    BY DEF AfterRead
  <2>2. Idle.op = "idle" /\ Idle.at = "none"
    BY DEF Idle
  <2> QED BY <1>25, <2>1, <2>2, HasRead DEF Others
<1>26. ASSUME NEW h \in Requests, CleanUp(h) PROVE Routing'
  BY <1>26, <1>a, <1>b DEF CleanUp, Continue
<1>27. ASSUME NEW h \in Requests, ForgetReferences(h) PROVE Routing'
  BY <1>27, <1>a, <1>b DEF ForgetReferences, Continue, Finish, Idle
<1>28. ASSUME NEW h \in Requests, Persist(h) PROVE Routing'
  BY <1>28, <1>a, <1>b DEF Persist, Finish, Idle
<1>29. ASSUME NEW h \in Requests, MarkCancelled(h) PROVE Routing'
  BY <1>29, <1>a, <1>b DEF MarkCancelled, Finish, Idle
<1>30. ASSUME NEW h \in Requests, RemoveObjects(h) PROVE Routing'
  BY <1>30, <1>a, <1>b DEF RemoveObjects
<1>31. ASSUME NEW h \in Requests, MarkDeleted(h) PROVE Routing'
  BY <1>31, <1>a, <1>b DEF MarkDeleted, Finish, Idle
<1>32. ASSUME NEW h \in Requests, Abort(h) PROVE Routing'
  BY <1>32, <1>a, <1>b DEF Abort, AnswerUpload, Finish, Idle
<1>33. CASE UNCHANGED vars
  BY <1>33, <1>a, <1>b DEF vars
<1> QED
  BY <1>1, <1>2, <1>3, <1>4, <1>5, <1>6, <1>7, <1>8, <1>9, <1>10, <1>11,
     <1>12, <1>13, <1>14, <1>15, <1>16, <1>17, <1>18, <1>19, <1>20, <1>21, <1>22,
     <1>23, <1>24, <1>25, <1>26, <1>27, <1>28, <1>29, <1>30, <1>31, <1>32, <1>33
  DEF Next, RunPodNext, RequestNext

LEMMA StepTyping == Typing /\ [Next]_vars => Typing'
BY StepTypeOK, StepRouting DEF Typing

\* The types hold for any number of requests and attempts.
THEOREM TypeCorrect == Spec => []TypeOK
<1>1. Typing => TypeOK
  BY DEF Typing
<1> QED BY InitTyping, StepTyping, <1>1, PTL DEF Spec

-----------------------------------------------------------------------------
(* The invariants.                                                         *)

Artefact == [key |-> Key, form |-> Label]

\* What is stored is the artefact in its one form; an upload that is past its put,
\* and a channel that knows an artefact, vouch for it until somebody asks for its
\* deletion.
Storing ==
  /\ objects \subseteq {Artefact}
  /\ ~Confidential => \A h \in Requests : req[h].op = "upload" => req[h].form = "plain"
  /\ "delete" \notin asked =>
       /\ \A h \in Requests :
            /\ req[h].op # "delete"
            /\ req[h].op = "upload" /\ req[h].at # "put" => Artefact \in objects
       /\ chan.artifact # "none" => chan.artifact = Label /\ Artefact \in objects

\* A poll under way and a cancellation saw a status RunPod does not take back.
Ending ==
  /\ \A h \in Requests :
       /\ req[h].op = "status" => runpod \in Terminal /\ req[h].verdict = Verdict(runpod)
       /\ req[h].op = "cancel" => runpod \in Terminal \cup {"expired"} /\ "cancel" \in asked
  /\ SnapshotIsFinal

\* The channel knows of the artefact before the GPU worker hears that it was
\* delivered, hence before RunPod has a completed job and a poll asks for it.
Knowing ==
  /\ \A h \in Requests :
       /\ req[h].op = "upload" /\ req[h].at \notin {"put", "push"} => chan.artifact # "none"
       /\ req[h].op = "status" /\ req[h].at # "read" /\ req[h].verdict = "completed" =>
            req[h].artifact \in Forms \cup {"deleted", "unread"}
  /\ gpu \in {"delivered", "reported_completed"} \/ runpod = "COMPLETED" =>
       chan.artifact # "none"
  /\ SnapshotKnowsArtifact

\* Whoever deletes references comes after an end.
Using ==
  /\ net \cap {"completed", "failed"} # {} => ended
  /\ \A h \in Requests :
       /\ req[h].op = "progress" => ended
       /\ req[h].op = "upload" /\ req[h].at # "put" => ended
       /\ req[h].op = "delete" => "delete" \in asked
  /\ ReferencesOutliveUse

\* All references are forgotten at once, and by requests that have deleted them.
Forgetting ==
  /\ chan.refs \in {{}, Refs}
  /\ \A h \in Requests :
       /\ req[h].at = "cleanup" => req[h].refs = Refs
       /\ req[h].at = "forget" => refs = {} /\ req[h].op # "cancel"
  /\ ForgottenIsDeleted

LEMMA InitStoring == Init => Storing
BY DEF Init, Storing, Idle

\* Every step preserves the invariant of what is stored.
LEMMA StepStoring == Typing /\ Storing /\ [Next]_vars => Storing'
<1> SUFFICES ASSUME TypeOK, Routing, Storing, [Next]_vars PROVE Storing'
  BY DEF Typing
<1>t. \A h \in Requests : req[h].at = "remove" => req[h].op = "delete"
  BY AwaitTells DEF Typing
<1>a. Artefact' = Artefact
  BY DEF Artefact, Key, Label
<1> USE DEF Storing
<1>1. ASSUME PostAccepted PROVE Storing'
  BY <1>1, <1>a DEF PostAccepted
<1>2. ASSUME PostRefused PROVE Storing'
  BY <1>2, <1>a DEF PostRefused
<1>3. ASSUME PostThrows PROVE Storing'
  BY <1>3, <1>a DEF PostThrows
<1>4. ASSUME Seed PROVE Storing'
  BY <1>4, <1>a DEF Seed
<1>5. ASSUME SeedFails PROVE Storing'
  BY <1>5, <1>a DEF SeedFails
<1>6. ASSUME RunPodStarts PROVE Storing'
  BY <1>6, <1>a DEF RunPodStarts
<1>7. ASSUME RunPodTimesOut PROVE Storing'
  BY <1>7, <1>a DEF RunPodTimesOut
<1>8. ASSUME WorkerLost PROVE Storing'
  BY <1>8, <1>a DEF WorkerLost
<1>9. ASSUME CronSweep PROVE Storing'
  BY <1>9, <1>a DEF CronSweep
<1>10. ASSUME RecordExpires PROVE Storing'
  BY <1>10, <1>a DEF RecordExpires
<1>11. ASSUME GpuReports PROVE Storing'
  BY <1>11, <1>a DEF GpuReports
<1>12. ASSUME GpuFails PROVE Storing'
  BY <1>12, <1>a DEF GpuFails
<1>13. ASSUME GpuReportsEnd PROVE Storing'
  BY <1>13, <1>a DEF GpuReportsEnd
<1>14. ASSUME GpuReturns PROVE Storing'
  BY <1>14, <1>a DEF GpuReturns
<1>15. ASSUME LoseReport PROVE Storing'
  BY <1>15, <1>a DEF LoseReport
<1>16. ASSUME NEW h \in Requests, ReceiveProgress(h) PROVE Storing'
  BY <1>16, <1>a, ReportTaken DEF Others
<1>17. ASSUME NEW h \in Requests, GpuUploads(h) PROVE Storing'
  BY <1>17, <1>a, UploadBegun DEF Others
<1>18. ASSUME NEW h \in Requests, Cancel(h) PROVE Storing'
  BY <1>18, <1>a, Begun DEF Cancel, Others
<1>19. ASSUME NEW h \in Requests, PollStatus(h) PROVE Storing'
  BY <1>19, <1>a, Polled DEF Others
<1>20. ASSUME NEW h \in Requests, Delete(h) PROVE Storing'
  BY <1>20, <1>a, Begun DEF Delete, Others
<1>21. ASSUME NEW h \in Requests, StoreOutput(h) PROVE Storing'
  BY <1>21, <1>a, Continued DEF StoreOutput, Others, Artefact, Acceptable, Label
<1>22. ASSUME NEW h \in Requests, RefuseOutput(h) PROVE Storing'
  BY <1>22, <1>a, Finished DEF RefuseOutput, AnswerUpload, Others
<1>23. ASSUME NEW h \in Requests, AnnounceOutput(h) PROVE Storing'
  BY <1>23, <1>a, Continued DEF AnnounceOutput, Others, Artefact
<1>24. ASSUME NEW h \in Requests, Acknowledge(h) PROVE Storing'
  BY <1>24, <1>a, Finished DEF Acknowledge, AnswerUpload, Others
<1>25. ASSUME NEW h \in Requests, ReadState(h) PROVE Storing'
  BY <1>25, <1>a, HasReadOn DEF Others
<1>26. ASSUME NEW h \in Requests, CleanUp(h) PROVE Storing'
  BY <1>26, <1>a, Continued DEF CleanUp, Others
<1>27. ASSUME NEW h \in Requests, ForgetReferences(h) PROVE Storing'
  BY <1>27, <1>a, Continued, Finished DEF ForgetReferences, Others
<1>28. ASSUME NEW h \in Requests, Persist(h) PROVE Storing'
  BY <1>28, <1>a, Finished DEF Persist, Others
<1>29. ASSUME NEW h \in Requests, MarkCancelled(h) PROVE Storing'
  BY <1>29, <1>a, Finished DEF MarkCancelled, Others
<1>30. ASSUME NEW h \in Requests, RemoveObjects(h) PROVE Storing'
  BY <1>30, <1>a, RemovalDone, <1>t DEF Others
<1>31. ASSUME NEW h \in Requests, MarkDeleted(h) PROVE Storing'
  BY <1>31, <1>a, Finished DEF MarkDeleted, Others
<1>32. ASSUME NEW h \in Requests, Abort(h) PROVE Storing'
  BY <1>32, <1>a, Finished DEF Abort, AnswerUpload, Others
<1>33. CASE UNCHANGED vars
  BY <1>33, <1>a DEF vars
<1> QED
  BY <1>1, <1>2, <1>3, <1>4, <1>5, <1>6, <1>7, <1>8, <1>9, <1>10, <1>11,
     <1>12, <1>13, <1>14, <1>15, <1>16, <1>17, <1>18, <1>19, <1>20, <1>21, <1>22,
     <1>23, <1>24, <1>25, <1>26, <1>27, <1>28, <1>29, <1>30, <1>31, <1>32, <1>33
  DEF Next, RunPodNext, RequestNext



-----------------------------------------------------------------------------
(* The end of the job.                                                     *)

LEMMA InitEnding == Init => Ending
BY DEF Init, Ending, SnapshotIsFinal, Idle

\* Every step preserves it.
LEMMA StepEnding == Typing /\ Ending /\ [Next]_vars => Ending'
<1> SUFFICES ASSUME TypeOK, Routing, Ending, [Next]_vars PROVE Ending'
  BY DEF Typing
<1>t. /\ \A h \in Requests : /\ req[h].at = "remove" => req[h].op = "delete"
                             /\ req[h].at = "persist" => req[h].op = "status"
                             /\ req[h].at = "read" => req[h].op # "idle"
      /\ gpu # "off" => runpod = "IN_PROGRESS"
      /\ submit = "new" => runpod = "none"
  BY AwaitTells DEF Typing, TypeOK
<1> USE DEF Ending, SnapshotIsFinal, Terminal
<1>1. ASSUME PostAccepted PROVE Ending'
  BY <1>1, <1>t DEF PostAccepted
<1>2. ASSUME PostRefused PROVE Ending'
  BY <1>2, <1>t DEF PostRefused
<1>3. ASSUME PostThrows PROVE Ending'
  BY <1>3, <1>t DEF PostThrows
<1>4. ASSUME Seed PROVE Ending'
  BY <1>4, <1>t DEF Seed
<1>5. ASSUME SeedFails PROVE Ending'
  BY <1>5, <1>t DEF SeedFails
<1>6. ASSUME RunPodStarts PROVE Ending'
  BY <1>6, <1>t DEF RunPodStarts
<1>7. ASSUME RunPodTimesOut PROVE Ending'
  BY <1>7, <1>t DEF RunPodTimesOut
<1>8. ASSUME WorkerLost PROVE Ending'
  BY <1>8, <1>t DEF WorkerLost
<1>9. ASSUME CronSweep PROVE Ending'
  BY <1>9, <1>t DEF CronSweep
<1>10. ASSUME RecordExpires PROVE Ending'
  BY <1>10, <1>t DEF RecordExpires
<1>11. ASSUME GpuReports PROVE Ending'
  BY <1>11, <1>t DEF GpuReports
<1>12. ASSUME GpuFails PROVE Ending'
  BY <1>12, <1>t DEF GpuFails
<1>13. ASSUME GpuReportsEnd PROVE Ending'
  BY <1>13, <1>t DEF GpuReportsEnd
<1>14. ASSUME GpuReturns PROVE Ending'
  BY <1>14, <1>t DEF GpuReturns
<1>15. ASSUME LoseReport PROVE Ending'
  BY <1>15, <1>t DEF LoseReport
<1>16. ASSUME NEW h \in Requests, ReceiveProgress(h) PROVE Ending'
  BY <1>16, <1>t, ReportTaken DEF Others
<1>17. ASSUME NEW h \in Requests, GpuUploads(h) PROVE Ending'
  BY <1>17, <1>t, UploadBegun DEF Others
<1>18. ASSUME NEW h \in Requests, Cancel(h) PROVE Ending'
  <2>1. Others(h) /\ req'[h].op = "cancel"
    BY <1>18, Begun DEF Cancel
  <2> QED BY <1>18, <2>1 DEF Cancel, Others
<1>19. ASSUME NEW h \in Requests, PollStatus(h) PROVE Ending'
  BY <1>19, <1>t, Polled DEF Others
<1>20. ASSUME NEW h \in Requests, Delete(h) PROVE Ending'
  BY <1>20, <1>t, Begun DEF Delete, Others
<1>21. ASSUME NEW h \in Requests, StoreOutput(h) PROVE Ending'
  BY <1>21, <1>t, Continued DEF StoreOutput, Others
<1>22. ASSUME NEW h \in Requests, RefuseOutput(h) PROVE Ending'
  BY <1>22, <1>t, Finished DEF RefuseOutput, AnswerUpload, Others
<1>23. ASSUME NEW h \in Requests, AnnounceOutput(h) PROVE Ending'
  BY <1>23, <1>t, Continued DEF AnnounceOutput, Others
<1>24. ASSUME NEW h \in Requests, Acknowledge(h) PROVE Ending'
  BY <1>24, <1>t, Finished DEF Acknowledge, AnswerUpload, Others
<1>25. ASSUME NEW h \in Requests, ReadState(h) PROVE Ending'
  BY <1>25, <1>t, HasReadOn DEF Others
<1>26. ASSUME NEW h \in Requests, CleanUp(h) PROVE Ending'
  BY <1>26, <1>t, Continued DEF CleanUp, Others
<1>27. ASSUME NEW h \in Requests, ForgetReferences(h) PROVE Ending'
  BY <1>27, <1>t, Continued, Finished DEF ForgetReferences, Others
<1>28. ASSUME NEW h \in Requests, Persist(h) PROVE Ending'
  <2>1. Others(h) /\ req'[h].op = "idle"
    BY <1>28, Finished DEF Persist
  <2>2. chan'.snapshot.verdict = req[h].verdict
    BY <1>28 DEF Persist, TypeOK, Channel
  <2>3. req[h].op = "status"
    BY <1>28, <1>t DEF Persist
  <2> QED BY <1>28, <2>1, <2>2, <2>3 DEF Persist, Others
<1>29. ASSUME NEW h \in Requests, MarkCancelled(h) PROVE Ending'
  BY <1>29, <1>t, Finished DEF MarkCancelled, Others
<1>30. ASSUME NEW h \in Requests, RemoveObjects(h) PROVE Ending'
  BY <1>30, <1>t, RemovalDone, <1>t DEF Others
<1>31. ASSUME NEW h \in Requests, MarkDeleted(h) PROVE Ending'
  BY <1>31, <1>t, Finished DEF MarkDeleted, Others
<1>32. ASSUME NEW h \in Requests, Abort(h) PROVE Ending'
  BY <1>32, <1>t, Finished DEF Abort, AnswerUpload, Others
<1>33. CASE UNCHANGED vars
  BY <1>33, <1>t DEF vars
<1> QED
  BY <1>1, <1>2, <1>3, <1>4, <1>5, <1>6, <1>7, <1>8, <1>9, <1>10, <1>11,
     <1>12, <1>13, <1>14, <1>15, <1>16, <1>17, <1>18, <1>19, <1>20, <1>21, <1>22,
     <1>23, <1>24, <1>25, <1>26, <1>27, <1>28, <1>29, <1>30, <1>31, <1>32, <1>33
  DEF Next, RunPodNext, RequestNext

-----------------------------------------------------------------------------
(* What a snapshot knows.                                                  *)

LEMMA InitKnowing == Init => Knowing
BY DEF Init, Knowing, SnapshotKnowsArtifact, Idle, NoSnapshot

\* Every step preserves it.
LEMMA StepKnowing == Typing /\ Ending /\ Knowing /\ [Next]_vars => Knowing'
<1> SUFFICES ASSUME TypeOK, Routing, Ending, Knowing, [Next]_vars PROVE Knowing'
  BY DEF Typing
<1>t. /\ \A h \in Requests : /\ req[h].at = "remove" => req[h].op = "delete"
                             /\ req[h].at = "persist" => req[h].op = "status"
                             /\ req[h].at = "read" => req[h].op # "idle"
      /\ gpu # "off" => runpod = "IN_PROGRESS"
      /\ submit = "new" => runpod = "none"
  BY AwaitTells DEF Typing, TypeOK
<1>v. Verdict(runpod) = "completed" => runpod = "COMPLETED"
  BY DEF Verdict
<1> USE DEF Knowing, SnapshotKnowsArtifact
<1>1. ASSUME PostAccepted PROVE Knowing'
  BY <1>1, <1>t, <1>v DEF PostAccepted
<1>2. ASSUME PostRefused PROVE Knowing'
  BY <1>2, <1>t, <1>v DEF PostRefused
<1>3. ASSUME PostThrows PROVE Knowing'
  BY <1>3, <1>t, <1>v DEF PostThrows
<1>4. ASSUME Seed PROVE Knowing'
  BY <1>4, <1>t, <1>v DEF Seed
<1>5. ASSUME SeedFails PROVE Knowing'
  BY <1>5, <1>t, <1>v DEF SeedFails
<1>6. ASSUME RunPodStarts PROVE Knowing'
  BY <1>6, <1>t, <1>v DEF RunPodStarts
<1>7. ASSUME RunPodTimesOut PROVE Knowing'
  BY <1>7, <1>t, <1>v DEF RunPodTimesOut
<1>8. ASSUME WorkerLost PROVE Knowing'
  BY <1>8, <1>t, <1>v DEF WorkerLost
<1>9. ASSUME CronSweep PROVE Knowing'
  BY <1>9, <1>t, <1>v DEF CronSweep
<1>10. ASSUME RecordExpires PROVE Knowing'
  BY <1>10, <1>t, <1>v DEF RecordExpires
<1>11. ASSUME GpuReports PROVE Knowing'
  BY <1>11, <1>t, <1>v DEF GpuReports
<1>12. ASSUME GpuFails PROVE Knowing'
  BY <1>12, <1>t, <1>v DEF GpuFails
<1>13. ASSUME GpuReportsEnd PROVE Knowing'
  BY <1>13, <1>t, <1>v DEF GpuReportsEnd
<1>14. ASSUME GpuReturns PROVE Knowing'
  BY <1>14, <1>t, <1>v DEF GpuReturns
<1>15. ASSUME LoseReport PROVE Knowing'
  BY <1>15, <1>t, <1>v DEF LoseReport
<1>16. ASSUME NEW h \in Requests, ReceiveProgress(h) PROVE Knowing'
  BY <1>16, <1>t, <1>v, ReportTaken DEF Others
<1>17. ASSUME NEW h \in Requests, GpuUploads(h) PROVE Knowing'
  BY <1>17, <1>t, <1>v, UploadBegun DEF Others
<1>18. ASSUME NEW h \in Requests, Cancel(h) PROVE Knowing'
  BY <1>18, <1>t, <1>v, Begun DEF Cancel, Others
<1>19. ASSUME NEW h \in Requests, PollStatus(h) PROVE Knowing'
  BY <1>19, <1>t, <1>v, Polled DEF Others
<1>20. ASSUME NEW h \in Requests, Delete(h) PROVE Knowing'
  BY <1>20, <1>t, <1>v, Begun DEF Delete, Others
<1>21. ASSUME NEW h \in Requests, StoreOutput(h) PROVE Knowing'
  BY <1>21, <1>t, <1>v, Continued DEF StoreOutput, Others
<1>22. ASSUME NEW h \in Requests, RefuseOutput(h) PROVE Knowing'
  BY <1>22, <1>t, <1>v, Finished DEF RefuseOutput, AnswerUpload, Others
<1>23. ASSUME NEW h \in Requests, AnnounceOutput(h) PROVE Knowing'
  <2>1. chan'.artifact # "none" /\ chan'.snapshot = chan.snapshot
    BY <1>23 DEF AnnounceOutput, TypeOK, Channel, Label
  <2>2. /\ Others(h) /\ req'[h].at = "read" /\ req'[h].op = "upload"
        /\ UNCHANGED <<gpu, runpod>>
    BY <1>23, Continued DEF AnnounceOutput
  <2> QED BY <1>23, <2>1, <2>2 DEF Others
<1>24. ASSUME NEW h \in Requests, Acknowledge(h) PROVE Knowing'
  BY <1>24, <1>t, <1>v, Finished DEF Acknowledge, AnswerUpload, Others
<1>25. ASSUME NEW h \in Requests, ReadState(h) PROVE Knowing'
  <2>1. /\ Others(h)
        /\ req[h].at = "read"
        /\ \/ req'[h].op = "idle"
           \/ /\ req'[h].op = req[h].op /\ req'[h].verdict = req[h].verdict
              /\ req[h].op = "status" =>
                   req'[h].artifact \in {"unread", Describe(req[h].verdict)}
        /\ UNCHANGED <<gpu, runpod, chan>>
    <3>1. Idle.op = "idle"
      BY DEF Idle
    <3> QED BY <1>25, <3>1, HasRead
  <2>2. chan.artifact # "none" => Describe("completed") \in Forms \cup {"deleted"}
    BY DEF Describe, TypeOK, Channel
  <2>3. req[h].op = "status" /\ req[h].verdict = "completed" => chan.artifact # "none"
    BY <1>v DEF Ending
  <2>4. req'[h].op = "status" /\ req'[h].verdict = "completed" =>
          req'[h].artifact \in Forms \cup {"deleted", "unread"}
    BY <2>1, <2>2, <2>3
  <2>5. req'[h].op = "upload" => chan.artifact # "none"
    BY <2>1
  <2> QED BY <2>1, <2>4, <2>5 DEF Others
<1>26. ASSUME NEW h \in Requests, CleanUp(h) PROVE Knowing'
  BY <1>26, <1>t, <1>v, Continued DEF CleanUp, Others
<1>27. ASSUME NEW h \in Requests, ForgetReferences(h) PROVE Knowing'
  BY <1>27, <1>t, <1>v, Continued, Finished DEF ForgetReferences, Others
<1>28. ASSUME NEW h \in Requests, Persist(h) PROVE Knowing'
  BY <1>28, <1>t, <1>v, Finished DEF Persist, Others
<1>29. ASSUME NEW h \in Requests, MarkCancelled(h) PROVE Knowing'
  BY <1>29, <1>t, <1>v, Finished DEF MarkCancelled, Others
<1>30. ASSUME NEW h \in Requests, RemoveObjects(h) PROVE Knowing'
  BY <1>30, <1>t, <1>v, RemovalDone, <1>t DEF Others
<1>31. ASSUME NEW h \in Requests, MarkDeleted(h) PROVE Knowing'
  BY <1>31, <1>t, <1>v, Finished DEF MarkDeleted, Others
<1>32. ASSUME NEW h \in Requests, Abort(h) PROVE Knowing'
  BY <1>32, <1>t, <1>v, Finished DEF Abort, AnswerUpload, Others
<1>33. CASE UNCHANGED vars
  BY <1>33, <1>t, <1>v DEF vars
<1> QED
  BY <1>1, <1>2, <1>3, <1>4, <1>5, <1>6, <1>7, <1>8, <1>9, <1>10, <1>11,
     <1>12, <1>13, <1>14, <1>15, <1>16, <1>17, <1>18, <1>19, <1>20, <1>21, <1>22,
     <1>23, <1>24, <1>25, <1>26, <1>27, <1>28, <1>29, <1>30, <1>31, <1>32, <1>33
  DEF Next, RunPodNext, RequestNext

-----------------------------------------------------------------------------
(* The references.                                                         *)

LEMMA InitUsing == Init => Using /\ Forgetting
BY DEF Init, Using, Forgetting, ReferencesOutliveUse, ForgottenIsDeleted, Idle

\* Every step preserves it.
LEMMA StepUsing == Typing /\ Ending /\ Using /\ [Next]_vars => Using'
<1> SUFFICES ASSUME TypeOK, Routing, Ending, Using, [Next]_vars PROVE Using'
  BY DEF Typing
<1>t. /\ \A h \in Requests :
           /\ req[h].at = "remove" => req[h].op = "delete"
           /\ req[h].at = "cleanup" => req[h].op \in {"progress", "upload", "status", "cancel"}
      /\ gpu # "off" => runpod = "IN_PROGRESS"
      /\ submit = "new" => runpod = "none"
  BY AwaitTells DEF Typing, TypeOK
<1> USE DEF Using, ReferencesOutliveUse, Terminal
<1>1. ASSUME PostAccepted PROVE Using'
  BY <1>1, <1>t DEF PostAccepted
<1>2. ASSUME PostRefused PROVE Using'
  BY <1>2, <1>t DEF PostRefused
<1>3. ASSUME PostThrows PROVE Using'
  BY <1>3, <1>t DEF PostThrows
<1>4. ASSUME Seed PROVE Using'
  BY <1>4, <1>t DEF Seed
<1>5. ASSUME SeedFails PROVE Using'
  BY <1>5, <1>t DEF SeedFails
<1>6. ASSUME RunPodStarts PROVE Using'
  BY <1>6, <1>t DEF RunPodStarts
<1>7. ASSUME RunPodTimesOut PROVE Using'
  BY <1>7, <1>t DEF RunPodTimesOut
<1>8. ASSUME WorkerLost PROVE Using'
  BY <1>8, <1>t DEF WorkerLost
<1>9. ASSUME CronSweep PROVE Using'
  BY <1>9, <1>t DEF CronSweep
<1>10. ASSUME RecordExpires PROVE Using'
  BY <1>10, <1>t DEF RecordExpires
<1>11. ASSUME GpuReports PROVE Using'
  BY <1>11, <1>t DEF GpuReports
<1>12. ASSUME GpuFails PROVE Using'
  BY <1>12, <1>t DEF GpuFails
<1>13. ASSUME GpuReportsEnd PROVE Using'
  BY <1>13, <1>t DEF GpuReportsEnd
<1>14. ASSUME GpuReturns PROVE Using'
  BY <1>14, <1>t DEF GpuReturns
<1>15. ASSUME LoseReport PROVE Using'
  BY <1>15, <1>t DEF LoseReport
<1>16. ASSUME NEW h \in Requests, ReceiveProgress(h) PROVE Using'
  BY <1>16, <1>t, ReportTaken DEF Others
<1>17. ASSUME NEW h \in Requests, GpuUploads(h) PROVE Using'
  BY <1>17, <1>t, UploadBegun DEF Others
<1>18. ASSUME NEW h \in Requests, Cancel(h) PROVE Using'
  BY <1>18, <1>t, Begun DEF Cancel, Others
<1>19. ASSUME NEW h \in Requests, PollStatus(h) PROVE Using'
  BY <1>19, <1>t, Polled DEF Others
<1>20. ASSUME NEW h \in Requests, Delete(h) PROVE Using'
  BY <1>20, <1>t, Begun DEF Delete, Others
<1>21. ASSUME NEW h \in Requests, StoreOutput(h) PROVE Using'
  BY <1>21, <1>t, Continued DEF StoreOutput, Others
<1>22. ASSUME NEW h \in Requests, RefuseOutput(h) PROVE Using'
  BY <1>22, <1>t, Finished DEF RefuseOutput, AnswerUpload, Others
<1>23. ASSUME NEW h \in Requests, AnnounceOutput(h) PROVE Using'
  BY <1>23, <1>t, Continued DEF AnnounceOutput, Others
<1>24. ASSUME NEW h \in Requests, Acknowledge(h) PROVE Using'
  BY <1>24, <1>t, Finished DEF Acknowledge, AnswerUpload, Others
<1>25. ASSUME NEW h \in Requests, ReadState(h) PROVE Using'
  BY <1>25, <1>t, HasReadOn DEF Others
<1>26. ASSUME NEW h \in Requests, CleanUp(h) PROVE Using'
  <2>1. Others(h) /\ req'[h].op = req[h].op /\ req'[h].at # "put"
    BY <1>26, Continued DEF CleanUp
  <2>2. ended \/ runpod \in Terminal \cup {"expired"}
    BY <1>26, <1>t DEF CleanUp, Ending
  <2> QED BY <1>26, <1>t, <2>1, <2>2 DEF CleanUp, Others
<1>27. ASSUME NEW h \in Requests, ForgetReferences(h) PROVE Using'
  BY <1>27, <1>t, Continued, Finished DEF ForgetReferences, Others
<1>28. ASSUME NEW h \in Requests, Persist(h) PROVE Using'
  BY <1>28, <1>t, Finished DEF Persist, Others
<1>29. ASSUME NEW h \in Requests, MarkCancelled(h) PROVE Using'
  BY <1>29, <1>t, Finished DEF MarkCancelled, Others
<1>30. ASSUME NEW h \in Requests, RemoveObjects(h) PROVE Using'
  BY <1>30, <1>t, RemovalDone, <1>t DEF Others
<1>31. ASSUME NEW h \in Requests, MarkDeleted(h) PROVE Using'
  BY <1>31, <1>t, Finished DEF MarkDeleted, Others
<1>32. ASSUME NEW h \in Requests, Abort(h) PROVE Using'
  BY <1>32, <1>t, Finished DEF Abort, AnswerUpload, Others
<1>33. CASE UNCHANGED vars
  BY <1>33, <1>t DEF vars
<1> QED
  BY <1>1, <1>2, <1>3, <1>4, <1>5, <1>6, <1>7, <1>8, <1>9, <1>10, <1>11,
     <1>12, <1>13, <1>14, <1>15, <1>16, <1>17, <1>18, <1>19, <1>20, <1>21, <1>22,
     <1>23, <1>24, <1>25, <1>26, <1>27, <1>28, <1>29, <1>30, <1>31, <1>32, <1>33
  DEF Next, RunPodNext, RequestNext

\* Every step preserves it.
LEMMA StepForgetting == Typing /\ Ending /\ Forgetting /\ [Next]_vars => Forgetting'
<1> SUFFICES ASSUME TypeOK, Routing, Ending, Forgetting, [Next]_vars PROVE Forgetting'
  BY DEF Typing
<1>t. \A h \in Requests :
        /\ req[h].at = "forget" => req[h].op \in {"progress", "upload", "status"}
        /\ req[h].at = "cleanup" => req[h].op \in {"progress", "upload", "status", "cancel"}
  BY AwaitTells DEF Typing
<1> USE DEF Forgetting, ForgottenIsDeleted
<1>1. ASSUME PostAccepted PROVE Forgetting'
  BY <1>1, <1>t DEF PostAccepted
<1>2. ASSUME PostRefused PROVE Forgetting'
  BY <1>2, <1>t DEF PostRefused
<1>3. ASSUME PostThrows PROVE Forgetting'
  BY <1>3, <1>t DEF PostThrows
<1>4. ASSUME Seed PROVE Forgetting'
  BY <1>4, <1>t DEF Seed
<1>5. ASSUME SeedFails PROVE Forgetting'
  BY <1>5, <1>t DEF SeedFails
<1>6. ASSUME RunPodStarts PROVE Forgetting'
  BY <1>6, <1>t DEF RunPodStarts
<1>7. ASSUME RunPodTimesOut PROVE Forgetting'
  BY <1>7, <1>t DEF RunPodTimesOut
<1>8. ASSUME WorkerLost PROVE Forgetting'
  BY <1>8, <1>t DEF WorkerLost
<1>9. ASSUME CronSweep PROVE Forgetting'
  BY <1>9, <1>t DEF CronSweep
<1>10. ASSUME RecordExpires PROVE Forgetting'
  BY <1>10, <1>t DEF RecordExpires
<1>11. ASSUME GpuReports PROVE Forgetting'
  BY <1>11, <1>t DEF GpuReports
<1>12. ASSUME GpuFails PROVE Forgetting'
  BY <1>12, <1>t DEF GpuFails
<1>13. ASSUME GpuReportsEnd PROVE Forgetting'
  BY <1>13, <1>t DEF GpuReportsEnd
<1>14. ASSUME GpuReturns PROVE Forgetting'
  BY <1>14, <1>t DEF GpuReturns
<1>15. ASSUME LoseReport PROVE Forgetting'
  BY <1>15, <1>t DEF LoseReport
<1>16. ASSUME NEW h \in Requests, ReceiveProgress(h) PROVE Forgetting'
  BY <1>16, <1>t, ReportTaken DEF Others
<1>17. ASSUME NEW h \in Requests, GpuUploads(h) PROVE Forgetting'
  BY <1>17, <1>t, UploadBegun DEF Others
<1>18. ASSUME NEW h \in Requests, Cancel(h) PROVE Forgetting'
  BY <1>18, <1>t, Begun DEF Cancel, Others
<1>19. ASSUME NEW h \in Requests, PollStatus(h) PROVE Forgetting'
  BY <1>19, <1>t, Polled DEF Others
<1>20. ASSUME NEW h \in Requests, Delete(h) PROVE Forgetting'
  BY <1>20, <1>t, Begun DEF Delete, Others
<1>21. ASSUME NEW h \in Requests, StoreOutput(h) PROVE Forgetting'
  BY <1>21, <1>t, Continued DEF StoreOutput, Others
<1>22. ASSUME NEW h \in Requests, RefuseOutput(h) PROVE Forgetting'
  BY <1>22, <1>t, Finished DEF RefuseOutput, AnswerUpload, Others
<1>23. ASSUME NEW h \in Requests, AnnounceOutput(h) PROVE Forgetting'
  BY <1>23, <1>t, Continued DEF AnnounceOutput, Others
<1>24. ASSUME NEW h \in Requests, Acknowledge(h) PROVE Forgetting'
  BY <1>24, <1>t, Finished DEF Acknowledge, AnswerUpload, Others
<1>25. ASSUME NEW h \in Requests, ReadState(h) PROVE Forgetting'
  <2>1. /\ Others(h)
        /\ req'[h].at \notin {"cleanup", "forget"} \/ (req'[h].at = "cleanup" /\ req'[h].refs = Refs)
        /\ UNCHANGED <<submit, chan, refs, asked>>
    <3>1. Idle.at = "none"
      BY DEF Idle
    <3>2. \A op, keys : /\ AfterRead(op, keys) # "forget"
                        /\ AfterRead(op, keys) = "cleanup" => keys # {}
      BY DEF AfterRead
    <3>3. PICK keys \in {{}, chan.refs} :
            \/ req'[h] = Idle
            \/ req'[h].at = AfterRead(req[h].op, keys) /\ req'[h].refs = keys
      BY <1>25, HasRead
    <3>4. Others(h) /\ UNCHANGED <<submit, chan, refs, asked>>
      BY <1>25, HasRead
    <3>5. req'[h].at = "cleanup" => req'[h].refs = Refs
      BY <3>1, <3>2, <3>3
    <3>6. req'[h].at # "forget"
      BY <3>1, <3>2, <3>3
    <3> QED BY <3>4, <3>5, <3>6
  <2> QED BY <2>1 DEF Others
<1>26. ASSUME NEW h \in Requests, CleanUp(h) PROVE Forgetting'
  <2>1. refs' = {}
    BY <1>26 DEF CleanUp, TypeOK
  <2>2. /\ Others(h) /\ req'[h].op = req[h].op
        /\ req'[h].at = IF req[h].op = "cancel" THEN "push" ELSE "forget"
        /\ UNCHANGED <<submit, chan, asked>>
    BY <1>26, Continued DEF CleanUp
  <2> QED BY <2>1, <2>2 DEF Others
<1>27. ASSUME NEW h \in Requests, ForgetReferences(h) PROVE Forgetting'
  BY <1>27, <1>t, Continued, Finished DEF ForgetReferences, Others
<1>28. ASSUME NEW h \in Requests, Persist(h) PROVE Forgetting'
  BY <1>28, <1>t, Finished DEF Persist, Others
<1>29. ASSUME NEW h \in Requests, MarkCancelled(h) PROVE Forgetting'
  <2>1. chan'.refs = {} /\ "cancel" \in asked
    BY <1>29 DEF MarkCancelled, TypeOK, Channel, Ending
  <2>2. Others(h) /\ req'[h].at = "none" /\ UNCHANGED <<refs, asked>>
    BY <1>29, Finished DEF MarkCancelled
  <2> QED BY <2>1, <2>2 DEF Others
<1>30. ASSUME NEW h \in Requests, RemoveObjects(h) PROVE Forgetting'
  BY <1>30, <1>t, RemovalDone, <1>t DEF Others
<1>31. ASSUME NEW h \in Requests, MarkDeleted(h) PROVE Forgetting'
  BY <1>31, <1>t, Finished DEF MarkDeleted, Others
<1>32. ASSUME NEW h \in Requests, Abort(h) PROVE Forgetting'
  BY <1>32, <1>t, Finished DEF Abort, AnswerUpload, Others
<1>33. CASE UNCHANGED vars
  BY <1>33, <1>t DEF vars
<1> QED
  BY <1>1, <1>2, <1>3, <1>4, <1>5, <1>6, <1>7, <1>8, <1>9, <1>10, <1>11,
     <1>12, <1>13, <1>14, <1>15, <1>16, <1>17, <1>18, <1>19, <1>20, <1>21, <1>22,
     <1>23, <1>24, <1>25, <1>26, <1>27, <1>28, <1>29, <1>30, <1>31, <1>32, <1>33
  DEF Next, RunPodNext, RequestNext

-----------------------------------------------------------------------------
(* The theorems.                                                           *)

\* A confidential job has nothing but containers in R2, under the name of one.
THEOREM OnlyContainers == Spec => []StoredSealed
<1>1. Storing => StoredSealed
  BY DEF Storing, StoredSealed, Artefact, Key, Label
<1> QED BY InitTyping, StepTyping, InitStoring, StepStoring, <1>1, PTL DEF Spec

\* An artefact the channel advertises is in R2 until a client asks for its deletion.
THEOREM NothingIsAdvertisedInVain == Spec => []AdvertisedIsStored
<1>1. Storing => AdvertisedIsStored
  BY DEF Storing, AdvertisedIsStored, Artefact, Forms
<1> QED BY InitTyping, StepTyping, InitStoring, StepStoring, <1>1, PTL DEF Spec

\* The snapshot that outlives RunPod's record is right about artefact and end.
THEOREM SnapshotsAreRight == Spec => []SnapshotIsRight
<1>1. Ending /\ Knowing => SnapshotIsRight
  BY DEF Ending, Knowing, SnapshotIsRight
<1> QED BY InitTyping, StepTyping, InitEnding, StepEnding, InitKnowing, StepKnowing, <1>1, PTL
        DEF Spec

\* The references stay until the first attempt is over or somebody ends the job.
THEOREM ReferencesStay == Spec => []ReferencesOutliveUse
<1>1. Using => ReferencesOutliveUse
  BY DEF Using
<1>2. Init => Using
  BY InitUsing
<1> QED BY InitTyping, StepTyping, InitEnding, StepEnding, <1>2, StepUsing, <1>1, PTL DEF Spec

\* The channel forgets no references that are still in R2.
THEOREM NoneIsForgottenEarly == Spec => []ForgottenIsDeleted
<1>1. Forgetting => ForgottenIsDeleted
  BY DEF Forgetting
<1>2. Init => Forgetting
  BY InitUsing
<1> QED BY InitTyping, StepTyping, InitEnding, StepEnding, <1>2, StepForgetting, <1>1, PTL DEF Spec
=============================================================================
