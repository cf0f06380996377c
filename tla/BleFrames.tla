------------------------------ MODULE BleFrames ------------------------------
(***************************************************************************)
(* Cutting the bytes that a lock sends into frames (ble_protocol.py,       *)
(* Frame and FrameAssembler).  The sizes are parameters.  A byte is a pair *)
(* <<k, i>>, the i-th byte of a frame of kind k: the assembler looks at    *)
(* values only, and the checksum, taken to be ideal, at where bytes are    *)
(* from.  The cipher is left out.                                          *)
(***************************************************************************)
EXTENDS Naturals, Sequences, FiniteSetsExt

CONSTANTS
    Kind,          \* kinds of frames
    Image,         \* the values of the bytes of each
    Magic,         \* MAGIC
    HeaderLength,  \* HEADER_LENGTH; its last byte is the length of the data
    MaxDataLength, \* MAX_DATA_LENGTH, the largest byte
    TrailerLength  \* TRAILER_LENGTH

MaxFrameLength == HeaderLength + MaxDataLength + TrailerLength

ASSUME LengthAssumption ==
    /\ {HeaderLength, MaxDataLength, TrailerLength} \subseteq Nat
    /\ Len(Magic) \in 1..2 /\ Len(Magic) < HeaderLength

\* All that the assembler needs of the magic, next to its length.
ASSUME MagicAssumption == Magic \in Seq(Nat) /\ (Len(Magic) = 2 => Magic[1] # Magic[2])

ASSUME ImageAssumption ==
    /\ Kind # {}
    /\ \A k \in Kind :
      /\ Image[k] \in Seq(0..MaxDataLength)
      /\ SubSeq(Image[k], 1, Len(Magic)) = Magic
      /\ Len(Image[k]) >= HeaderLength
      /\ Len(Image[k]) = HeaderLength + Image[k][HeaderLength] + TrailerLength

Size(k) == Len(Image[k])
Byte == UNION {{k} \X (1..Size(k)) : k \in Kind}
Value(b) == Image[b[1]][b[2]]

Encode(k) == [i \in 1..Size(k) |-> <<k, i>>]

\* Frame.decode: the frame, if magic, length, terminator and checksum are right.
Decode(raw) == {k \in Kind : raw = Encode(k)}

-----------------------------------------------------------------------------
(* FrameAssembler *)

HasMagic(bytes, i) ==
    /\ i + Len(Magic) - 1 <= Len(bytes)
    /\ \A j \in 1..Len(Magic) : Value(bytes[i + j - 1]) = Magic[j]

Starts(bytes, i) == {j \in i..Len(bytes) : HasMagic(bytes, j)}

\* The length of the frame that begins at i, if its header is there.
Total(bytes, i) == HeaderLength + Value(bytes[i + HeaderLength - 1]) + TrailerLength

\* Mutant: a frame waits for the byte behind it.
CompleteWithNext(bytes, i) ==
    /\ i + HeaderLength - 1 <= Len(bytes)
    /\ i + Total(bytes, i) <= Len(bytes)

Complete(bytes, i) ==
    /\ i + HeaderLength - 1 <= Len(bytes)
    /\ i + Total(bytes, i) - 1 <= Len(bytes)

\* Mutant: what may be the first byte of a magic is not kept.
RemainderWithoutMagic(bytes, i) == <<>>

Remainder(bytes, i) == SubSeq(bytes, Max({i, Len(bytes)}), Len(bytes))

\* The loop of feed at byte i, where From is what it comes to further on: the
\* frames that are complete, and what stays in the buffer.
Round(bytes, From, i) ==
    IF Starts(bytes, i) = {}
    THEN [frames |-> <<>>, rest |-> Remainder(bytes, i)]
    ELSE LET start == Min(Starts(bytes, i))
             next == start + Total(bytes, start)
         IN IF ~Complete(bytes, start)
            THEN [frames |-> <<>>, rest |-> SubSeq(bytes, start, Len(bytes))]
            ELSE [frames |-> <<SubSeq(bytes, start, next - 1)>> \o From[next].frames,
                  rest |-> From[next].rest]

Cut(bytes) ==
    LET From[i \in 1..(Len(bytes) + 1)] == Round(bytes, From, i)
    IN From[1]

Feed(buffer, chunk) == Cut(buffer \o chunk)

=============================================================================
