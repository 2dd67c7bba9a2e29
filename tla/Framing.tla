------------------------------ MODULE Framing ------------------------------
(***************************************************************************)
(* How payloads become EON Data and back (verifier_engine/eon_data.py and  *)
(* BatchResult.data_field_payload in core.py): a transition or a bundle is *)
(* encoded as bytes, the bytes are framed as scalar words, and a verifier  *)
(* takes both apart again.  Anyone may post other words or other bytes.    *)
(*                                                                         *)
(* Widths are constants: 8-bit bytes, 4-byte words of which 30 bits carry  *)
(* data, in the code.  Every field of a header (ids, hashes, sequence      *)
(* number, counts and lengths, 2 to 32 bytes in the code) is one byte      *)
(* here; the version is left out.  JSON is a pair of functions: an action  *)
(* is written as one text (Action.serialize), and many texts (spaces, the  *)
(* order of keys, keys the encoder never writes) parse to one object.      *)
(***************************************************************************)
EXTENDS Integers, Sequences

CONSTANTS
    ByteBits, WordBytes, ChunkBits,
    MaxLength,          \* FIELD_SAFE_MAX_PAYLOAD_LENGTH
    BundleId,           \* BUNDLE_SL_ID
    MinChild,           \* bytes of the header a bundle's child must have
    Action, TextOf,     \* what an operator applied, and the JSON it writes for it
    Texts, Parsed,      \* the texts that parse to an object, and that object
    Transitions, Bundles,   \* what is encoded
    ForeignPayloads, ForeignWords,  \* what others frame, and post
    Error               \* an exception, and a value that is not there yet

\* 1 << n.
Pow2(n) ==
    LET power[i \in 0..n] == IF i = 0 THEN 1 ELSE 2 * power[i - 1]
    IN  power[n]

Byte == 0..Pow2(ByteBits) - 1

Word == 0..Pow2(WordBytes * ByteBits) - 1

Chunk == 0..Pow2(ChunkBits) - 1

Marker == Pow2(ChunkBits)

Transition ==
    [layer: Byte, sequence: Nat, prev: Byte, new: Byte, actions: Seq(Action)]

Bundle == [id: Byte, children: Seq(Seq(Byte))]

ASSUME FramingAssumption ==
    /\ {ByteBits, WordBytes, ChunkBits, MaxLength, MinChild} \subseteq Nat \ {0}
    /\ ByteBits <= ChunkBits
    /\ ChunkBits < WordBytes * ByteBits
    /\ MaxLength < Marker
    /\ BundleId \in Byte
    /\ Texts \subseteq Seq(Byte)
    /\ TextOf \in [Action -> Texts]
    /\ \A a \in Action : Parsed[TextOf[a]] = a
    /\ Transitions \subseteq Transition
    /\ Bundles \subseteq Bundle
    /\ ForeignPayloads \subseteq Seq(Byte)
    /\ ForeignWords \subseteq Seq(Word)

VARIABLES
    item,       \* what was encoded, if anything was
    payload,    \* its bytes
    scalars,    \* the Data of the base-layer output
    received,   \* the bytes the verifier recovers
    decoded,    \* and what it takes them to be
    next        \* the operation that comes next

vars == <<item, payload, scalars, received, decoded, next>>

-----------------------------------------------------------------------------
\* Bytes to words.

\* The bit buffer of payload_bytes_to_scalar_hex after one more byte; a byte is
\* not wider than a chunk, so it completes one chunk at most.
PutByte(acc, byte) ==
    LET buffer == acc.buffer * Pow2(ByteBits) + byte
        count == acc.count + ByteBits
        shift == count - ChunkBits
    IN  IF shift < 0 THEN [chunks |-> acc.chunks, buffer |-> buffer, count |-> count]
        ELSE [chunks |-> Append(acc.chunks, buffer \div Pow2(shift)),
              buffer |-> buffer % Pow2(shift), count |-> shift]

PutBytes(bytes) ==
    LET run[i \in 0..Len(bytes)] ==
            IF i = 0 THEN [chunks |-> <<>>, buffer |-> 0, count |-> 0]
            ELSE PutByte(run[i - 1], bytes[i])
    IN  run[Len(bytes)]

\* (Mutant of Flush: the last bits are not moved to the top of their word.)
FlushUnaligned(acc) ==
    IF acc.count = 0 THEN acc.chunks ELSE Append(acc.chunks, acc.buffer)

Flush(acc) ==
    IF acc.count = 0 THEN acc.chunks
    ELSE Append(acc.chunks, acc.buffer * Pow2(ChunkBits - acc.count))

\* (Mutant of Frame: a payload of any length.)
FrameOfAnyLength(bytes) == <<Marker + Len(bytes)>> \o Flush(PutBytes(bytes))

\* payload_bytes_to_scalar_hex.
Frame(bytes) ==
    IF Len(bytes) > MaxLength THEN Error
    ELSE <<Marker + Len(bytes)>> \o Flush(PutBytes(bytes))

\* The bytes of a payload of the given length that one more chunk completes.
TakeChunk(length, acc, chunk) ==
    LET buffer == acc.buffer * Pow2(ChunkBits) + chunk
        count == acc.count + ChunkBits
        open == length - Len(acc.payload)
        k == IF count \div ByteBits < open THEN count \div ByteBits ELSE open
    IN  [payload |-> acc.payload \o
             [j \in 1..k |-> (buffer \div Pow2(count - j * ByteBits)) % Pow2(ByteBits)],
         buffer |-> buffer % Pow2(count - k * ByteBits),
         count |-> count - k * ByteBits]

TakeChunks(length, chunks) ==
    LET run[i \in 0..Len(chunks)] ==
            IF i = 0 THEN [payload |-> <<>>, buffer |-> 0, count |-> 0]
            ELSE TakeChunk(length, run[i - 1], chunks[i])
    IN  run[Len(chunks)]

\* (Mutant of PaddingClear: bits after the payload are ignored.)
PaddingIgnored(acc) == TRUE

PaddingClear(acc) == acc.buffer = 0

\* _field_safe_scalars_to_payload_bytes.  The count of words fixes the length of the
\* payload (FramingProofs!TakenBytes), so the code's last check of it cannot fail.
UnframeChunks(words) ==
    LET length == words[1] - Marker
        chunks == (length * ByteBits + ChunkBits - 1) \div ChunkBits
        acc == TakeChunks(length, Tail(words))
    IN  IF \/ length > MaxLength
           \/ Len(words) # chunks + 1
           \/ \E i \in 2..Len(words) : words[i] >= Marker
           \/ ~PaddingClear(acc)
        THEN Error ELSE acc.payload

\* The bytes of the words, most significant first.
RawBytes(words) ==
    [i \in 1..WordBytes * Len(words) |->
        LET word == words[(i - 1) \div WordBytes + 1]
            below == WordBytes - 1 - ((i - 1) % WordBytes)
        IN  (word \div Pow2(ByteBits * below)) % Pow2(ByteBits)]

\* The older framing: whole words, the first one the length, zeros after it.
UnframeWords(words) ==
    LET raw == RawBytes(words)
        end == WordBytes + words[1]
    IN  IF \/ end > Len(raw)
           \/ \E i \in end + 1..Len(raw) : raw[i] # 0
        THEN Error ELSE SubSeq(raw, WordBytes + 1, end)

\* scalar_hex_to_payload_bytes.
Unframe(words) ==
    IF words = <<>> THEN Error
    ELSE IF words[1] >= Marker THEN UnframeChunks(words)
    ELSE UnframeWords(words)

-----------------------------------------------------------------------------
\* Payloads to bytes.

\* A field one byte wide; struct.pack fails on anything larger.
Fits(n) == n \in Byte

\* Each part with its length before it, after the number of parts.
Prefixed(parts) ==
    LET run[i \in 0..Len(parts)] ==
            IF i = 0 THEN <<Len(parts)>>
            ELSE run[i - 1] \o <<Len(parts[i])>> \o parts[i]
    IN  run[Len(parts)]

TextsOf(actions) == [i \in DOMAIN actions |-> TextOf[actions[i]]]

ParsedAll(texts) == [i \in DOMAIN texts |-> Parsed[texts[i]]]

\* data_field_payload.
EncodeTransition(t) ==
    IF /\ t.sequence > 0 /\ Fits(t.sequence)
       /\ Fits(Len(t.actions)) /\ \A i \in DOMAIN t.actions : Fits(Len(TextOf[t.actions[i]]))
    THEN <<t.layer, t.sequence, t.prev, t.new>> \o Prefixed(TextsOf(t.actions))
    ELSE Error

\* encode_bundle_payload: the length of a child is not checked against MinChild.
EncodeBundle(b) ==
    IF /\ b.children # <<>>
       /\ Fits(Len(b.children)) /\ \A i \in DOMAIN b.children : Fits(Len(b.children[i]))
    THEN <<BundleId, b.id>> \o Prefixed(b.children)
    ELSE Error

\* One turn of the decoding loops: a length and as many bytes.
TakePart(bytes, acc) ==
    LET end == acc.offset + bytes[acc.offset]
    IN  IF acc.ok /\ acc.offset <= Len(bytes) /\ end <= Len(bytes)
        THEN [offset |-> end + 1,
              parts |-> Append(acc.parts, SubSeq(bytes, acc.offset + 1, end)),
              ok |-> TRUE]
        ELSE [offset |-> acc.offset, parts |-> acc.parts, ok |-> FALSE]

\* The loops themselves, from the count at "first" on.
TakeParts(bytes, first) ==
    LET run[i \in 0..bytes[first]] ==
            IF i = 0 THEN [offset |-> first + 1, parts |-> <<>>, ok |-> TRUE]
            ELSE TakePart(bytes, run[i - 1])
    IN  run[bytes[first]]

\* (Mutant of Whole: bytes after the last part are ignored.)
WholeOrMore(bytes, taken) == taken.ok

\* All parts are there and nothing follows them.
Whole(bytes, taken) == taken.ok /\ taken.offset = Len(bytes) + 1

\* decode_transition_payload.
DecodeTransition(bytes) ==
    LET taken == TakeParts(bytes, 5)
    IN  IF /\ Len(bytes) >= 5 /\ bytes[2] > 0 /\ Whole(bytes, taken)
           /\ \A i \in DOMAIN taken.parts : taken.parts[i] \in Texts
        THEN [layer |-> bytes[1], sequence |-> bytes[2], prev |-> bytes[3],
              new |-> bytes[4], actions |-> ParsedAll(taken.parts)]
        ELSE Error

\* decode_bundle_payload.
DecodeBundle(bytes) ==
    LET taken == TakeParts(bytes, 3)
    IN  IF /\ Len(bytes) >= 3 /\ bytes[3] > 0 /\ Whole(bytes, taken)
           /\ \A i \in DOMAIN taken.parts : Len(taken.parts[i]) >= MinChild
        THEN [id |-> bytes[2], children |-> taken.parts]
        ELSE Error

\* ingest_event looks at the header to tell them apart.
IsBundle(bytes) == Len(bytes) > 0 /\ bytes[1] = BundleId

Decode(bytes) == IF IsBundle(bytes) THEN DecodeBundle(bytes) ELSE DecodeTransition(bytes)

Encode(i) ==
    IF "children" \in DOMAIN i THEN EncodeBundle(i) ELSE EncodeTransition(i)

-----------------------------------------------------------------------------
\* The way of a payload from an operator to a verifier.

Init ==
    /\ item = Error /\ payload = Error /\ scalars = Error
    /\ received = Error /\ decoded = Error
    /\ next = "post"

\* After an exception there is no next step.
Proceed(value, to) == next' = IF value = Error THEN "none" ELSE to

\* An operator encodes a batch or a bundle.
EncodeItem ==
    /\ next = "post"
    /\ item' \in Transitions \cup Bundles
    /\ payload' = Encode(item')
    /\ Proceed(payload', "frame")
    /\ UNCHANGED <<scalars, received, decoded>>

\* Somebody frames bytes of their own (encode-payload) ...
PostBytes ==
    /\ next = "post"
    /\ payload' \in ForeignPayloads
    /\ next' = "frame"
    /\ UNCHANGED <<item, scalars, received, decoded>>

\* ... or posts words of their own.
PostWords ==
    /\ next = "post"
    /\ scalars' \in ForeignWords
    /\ next' = "unframe"
    /\ UNCHANGED <<item, payload, received, decoded>>

FramePayload ==
    /\ next = "frame"
    /\ scalars' = Frame(payload)
    /\ Proceed(scalars', "unframe")
    /\ UNCHANGED <<item, payload, received, decoded>>

UnframeData ==
    /\ next = "unframe"
    /\ received' = Unframe(scalars)
    /\ Proceed(received', "decode")
    /\ UNCHANGED <<item, payload, scalars, decoded>>

DecodePayload ==
    /\ next = "decode"
    /\ decoded' = Decode(received)
    /\ next' = "none"
    /\ UNCHANGED <<item, payload, scalars, received>>

Next ==
    \/ EncodeItem \/ PostBytes \/ PostWords
    \/ FramePayload \/ UnframeData \/ DecodePayload

Spec == Init /\ [][Next]_vars

-----------------------------------------------------------------------------
\* Properties.

\* Bytes are bytes, words are words, and a word the framing makes is at most
\* Marker + MaxLength: below the modulus of the base layer's field.
TypeOK ==
    /\ payload \in {Error} \cup Seq(Byte)
    /\ received \in {Error} \cup Seq(Byte)
    /\ scalars \in {Error} \cup Seq(Word)
    /\ payload # Error /\ scalars # Error =>
           \A i \in DOMAIN scalars : scalars[i] <= Marker + MaxLength

\* What a decoder can tell from the other kind of item, and accepts: a layer's id
\* is not the bundles', and a child has a header.
Decodable(i) ==
    IF "children" \in DOMAIN i
    THEN \A k \in DOMAIN i.children : Len(i.children[k]) >= MinChild
    ELSE i.layer # BundleId

\* What an operator could encode and frame reaches the verifier as it was, whatever
\* its length is modulo the width of a chunk.
RoundTrip ==
    next = "none" /\ item # Error /\ scalars # Error =>
        received = payload /\ (Decodable(item) => decoded = item)

\* Among field-safe words there is one way to write a payload: those a verifier
\* takes are those the framing makes of it.  (The older framing is taken as well.)
OneFraming ==
    received # Error /\ scalars[1] >= Marker => Frame(received) = scalars

\* What a verifier takes bytes for accounts for every one of them: behind the header
\* are as many parts as were announced, each as long as announced, which are the
\* children or parse to the actions, and nothing follows.
NoByteUnread ==
    decoded # Error =>
        IF "children" \in DOMAIN decoded
        THEN received = <<BundleId, decoded.id>> \o Prefixed(decoded.children)
        ELSE \E texts \in [DOMAIN decoded.actions -> Texts] :
                 /\ decoded.actions = ParsedAll(texts)
                 /\ received =
                        <<decoded.layer, decoded.sequence, decoded.prev, decoded.new>>
                        \o Prefixed(texts)

=============================================================================
